--------------------------- MODULE IngressProofs ----------------------------
(***************************************************************************)
(* What holds of the ingress planes, of the replay guard and of the quota  *)
(* gate for every load, pool size, cap, acceptance window and clock.       *)
(***************************************************************************)
EXTENDS Ingress, ReplayGuard, QuotaGate, FiniteSetTheorems, TLAPS

-----------------------------------------------------------------------------
(* The replay guard. *)

\* An admitted issuance is remembered while the clock is inside its window,
\* what is remembered was admitted from an authentic presentation, and no
\* presentation that did not verify is past the verifier.
GuardInv ==
    /\ desk \in Desks /\ now \in Nat /\ read \in [Presentations -> Nat]
    /\ step \in [Presentations -> {"new", "read", "lock", "admitted", "outside", "replayed",
                                   "unverified"}]
    /\ memory \subseteq Issuances /\ admitted \subseteq Presentations
    /\ \A p \in Presentations : read[p] <= now
    /\ \A p \in admitted : now - Issued(Of(p)) <= Window => Of(p) \in memory
    /\ \A p \in Presentations : step[p] \in {"read", "lock"} => Verifies(p)
    /\ \A i \in memory : \E q \in admitted : Of(q) = i /\ Verifies(q)
    /\ NoPoisoning

\* Before the first presentation the guard remembers nothing (newReplayGuard).
LEMMA GuardInit == ReplayInit => GuardInv
  BY DEF ReplayInit, GuardInv, NoPoisoning

\* The signature check, admit with its eviction, and the clock keep the guard's
\* memory of every issuance whose window is open (replayGuard.admit).
LEMMA GuardStep == ASSUME GuardInv, [ReplayNext]_replayVars PROVE GuardInv'
<1> USE DeskAssumption
<1>1. CASE UNCHANGED replayVars
  BY <1>1 DEF GuardInv, NoPoisoning, replayVars, Issued, Of, Verifies, Signed
<1>2. CASE Advance
  BY <1>2 DEF GuardInv, NoPoisoning, Advance, Issued, Of, Verifies, Signed
<1>3. ASSUME NEW p \in Presentations, Verify(p) PROVE GuardInv'
  BY <1>3 DEF GuardInv, NoPoisoning, Verify, Issued, Of, Verifies, Signed
<1>4. ASSUME NEW p \in Presentations, CheckWindow(p) PROVE GuardInv'
  BY <1>4 DEF GuardInv, NoPoisoning, CheckWindow, Issued, Of, Verifies, Signed
<1>5. ASSUME NEW p \in Presentations, AdmitOnce(p) PROVE GuardInv'
  BY <1>5 DEF GuardInv, NoPoisoning, AdmitOnce, EvictLocked, Issued, Of, Verifies, Signed
<1> QED BY <1>1, <1>2, <1>3, <1>4, <1>5 DEF ReplayNext

\* The guard admits an issuance once while the clock is inside its window
\* (admit, evictLocked), whatever the window and however presentations
\* interleave between the unlocked clock read and the lock.
THEOREM ReplaysRefused == ReplaySpec => ReplayRefused
<1>1. ReplayInit => GuardInv
  BY GuardInit, Zenon
<1>2. GuardInv /\ [ReplayNext]_replayVars => GuardInv'
  BY GuardStep, Zenon
<1>3. GuardInv /\ [ReplayNext]_replayVars =>
        [\A p, q \in Presentations :
           (/\ p # q /\ Of(p) = Of(q)
            /\ p \in admitted' \ admitted
            /\ now - Issued(Of(p)) <= Window) => q \notin admitted]_replayVars
  BY DeskAssumption
  DEF GuardInv, ReplayNext, replayVars, Advance, Verify, CheckWindow, AdmitOnce, EvictLocked,
      Issued, Of
<1> QED BY <1>1, <1>2, <1>3, PTL DEF ReplaySpec, ReplayRefused

\* A call is refused as a replay only after an authentic presentation of it was
\* admitted (verifyThenAdmit: the signature is judged before the guard).
THEOREM GuardUnpoisoned == ReplaySpec => []NoPoisoning
<1>1. ReplayInit => GuardInv
  BY GuardInit, Zenon
<1>2. GuardInv /\ [ReplayNext]_replayVars => GuardInv'
  BY GuardStep, Zenon
<1>3. GuardInv => NoPoisoning
  BY Zenon DEF GuardInv
<1> QED BY <1>1, <1>2, <1>3, PTL DEF ReplaySpec

\* For every desk, window and number of presentations the guard tells replays from
\* calls (verifyThenAdmit, replayGuard.admit).
THEOREM GuardAlwaysHolds == ReplaySpec => GuardHolds
  BY ReplaysRefused, GuardUnpoisoned, PTL DEF GuardHolds

-----------------------------------------------------------------------------
(* The gate and the limiter. *)

Points == {"idle", "limit", "acquire", "wait", "decode", "resolve", "emit", "call", "done"}
Behind == {"decode", "resolve", "emit", "call"}
States == [floor : Windows, count : Nat, known : BOOLEAN]

GateShape == /\ load \in Loads /\ pc \in [Requests -> Points]
             /\ seen \in [Requests -> Windows] /\ window \in Windows
             /\ taken \in [Pools -> Nat]
             /\ held \in [Requests -> Pools \cup {"none"}]
             /\ limit \in [Callers -> States]
             /\ charged \in [Callers -> [Windows -> Nat]]
             /\ \A r \in Active : pc[r] \in {"limit", "acquire", "wait"} => load.plane = "operator"

\* Only a request behind the gate holds a slot.
HeldInv == /\ \A r \in Requests : held[r] # "none" => pc[r] \in Behind
           /\ SlotsConserved

\* The count of a caller is what it was charged in its floor window; the
\* windows above the floor are untouched.
RateInv == \A c \in Callers :
    /\ limit[c].count <= Cap
    /\ ~limit[c].known => limit[c].count = 0 /\ limit[c].floor = 0
    /\ \A w \in Windows : /\ charged[c][w] <= Cap
                          /\ w > limit[c].floor => charged[c][w] = 0
                          /\ w = limit[c].floor => charged[c][w] = limit[c].count

GateInv == GateShape /\ HeldInv /\ RateInv

\* Both planes start with every slot free and no caller counted.
LEMMA GateInvInit == IngressInit => GateInv
<1> SUFFICES ASSUME IngressInit PROVE GateInv
  BY Zenon
<1> USE GateAssumption, LoadAssumption
<1>0. 0 \in Windows
  BY DEF Windows
<1>1. GateShape
  <2>1. NoState \in States
    BY <1>0, Zenon DEF NoState, States
  <2>2. limit \in [Callers -> States] /\ charged \in [Callers -> [Windows -> Nat]]
    BY <2>1, Zenon DEF IngressInit, GateInit
  <2>3. load \in Loads /\ pc \in [Requests -> Points] /\ seen \in [Requests -> Windows]
    BY <1>0, Zenon DEF IngressInit, Points
  <2>4. window \in Windows /\ taken \in [Pools -> Nat] /\ held \in [Requests -> Pools \cup {"none"}]
    BY <1>0, Zenon DEF IngressInit, GateInit
  <2>5. \A r \in Active : pc[r] = "idle"
    BY <2>3, Zenon DEF IngressInit, Active
  <2> QED BY <2>2, <2>3, <2>4, <2>5 DEF GateShape
<1>2. RateInv
  BY DEF IngressInit, GateInit, RateInv, NoState, Windows
<1>3. \A p \in Pools : {r \in Requests : held[r] = p} = {}
  BY Zenon DEF IngressInit, GateInit, Pools
<1>4. HeldInv
  <2>1. \A p \in Pools : taken[p] = 0 /\ Size[p] \in Nat
    BY Zenon DEF IngressInit, GateInit, Size, Pools
  <2>2. Cardinality({}) = 0
    BY FS_EmptySet, Zenon
  <2>3. \A p \in Pools : Cardinality({r \in Requests : held[r] = p}) = 0
    BY <1>3, <2>2, Zenon
  <2>4. \A p \in Pools : taken[p] <= Size[p]
    BY <2>1
  <2>5. SlotsConserved
    BY <2>1, <2>3, <2>4, Zenon DEF SlotsConserved
  <2>6. \A r \in Requests : held[r] = "none"
    BY Zenon DEF IngressInit, GateInit
  <2> QED BY <2>5, <2>6 DEF HeldInv
<1> QED BY <1>1, <1>2, <1>4 DEF GateInv

\* A send into a channel with room, by a request that holds nothing.
LEMMA TakeConserves ==
    ASSUME GateShape, HeldInv, NEW r \in Requests, NEW p \in Pools, held[r] = "none", Take(r, p)
    PROVE  SlotsConserved'
<1> DEFINE H(x) == {q \in Requests : held[q] = x}
           G(x) == {q \in Requests : held'[q] = x}
<1>1. \A x \in Pools : x # p => G(x) = H(x)
  BY Zenon DEF Take, GateShape, Pools
<1>2. G(p) = H(p) \cup {r} /\ r \notin H(p)
  BY Zenon DEF Take, GateShape, Pools
<1>3. IsFiniteSet(H(p))
  BY LoadAssumption, FS_Subset, Zenon
<1>4. Cardinality(G(p)) = Cardinality(H(p)) + 1
  BY <1>2, <1>3, FS_AddElement, Zenon
<1>5. \A x \in Pools : taken[x] = Cardinality(H(x)) /\ taken[x] <= Size[x] /\ Size[x] \in Nat
  BY GateAssumption, Zenon DEF HeldInv, SlotsConserved, Size, Pools
<1>6. \A x \in Pools : taken'[x] = (IF x = p THEN taken[x] + 1 ELSE taken[x])
  BY Zenon DEF Take, GateShape
<1>7. taken[p] < Size[p] /\ taken[p] \in Nat
  BY Zenon DEF Take, Free, GateShape
<1> HIDE DEF G, H
<1>8. \A x \in Pools : taken'[x] = Cardinality(G(x)) /\ taken'[x] <= Size[x]
  BY <1>1, <1>4, <1>5, <1>6, <1>7
<1> QED BY <1>8 DEF SlotsConserved, G

\* The release func drains the channel its request was sent to.
LEMMA ReleaseConserves ==
    ASSUME GateShape, HeldInv, NEW r \in Requests, ReleaseSlot(r)
    PROVE  SlotsConserved' /\ taken' \in [Pools -> Nat]
<1> DEFINE H(x) == {q \in Requests : held[q] = x}
           G(x) == {q \in Requests : held'[q] = x}
<1>1. \A x \in Pools : IsFiniteSet(H(x))
  BY LoadAssumption, FS_Subset, Zenon
<1>2. \A x \in Pools : taken[x] = Cardinality(H(x)) /\ taken[x] <= Size[x] /\ Size[x] \in Nat
                       /\ taken[x] \in Nat
  BY GateAssumption, Zenon DEF GateShape, HeldInv, SlotsConserved, Size, Pools
<1>3. \A x \in Pools : G(x) = H(x) \ {r}
  BY Zenon DEF ReleaseSlot, GateShape, Pools
<1>4. CASE held[r] = "none"
  <2>1. \A x \in Pools : G(x) = H(x)
    BY <1>3, <1>4, Zenon DEF Pools
  <2>2. taken' = taken
    BY <1>4, Zenon DEF ReleaseSlot
  <2> HIDE DEF G, H
  <2>3. \A x \in Pools : taken'[x] = Cardinality(G(x)) /\ taken'[x] <= Size[x]
    BY <1>2, <2>1, <2>2, Zenon
  <2> QED BY <2>2, <2>3, Zenon DEF SlotsConserved, G, GateShape
<1>5. CASE held[r] # "none"
  <2>1. held[r] \in Pools
    BY <1>5, Zenon DEF GateShape
  <2>2. r \in H(held[r])
    BY Zenon
  <2>3. \A x \in Pools : x # held[r] => G(x) = H(x)
    BY <1>3, Zenon
  <2>4. Cardinality(G(held[r])) = Cardinality(H(held[r])) - 1
    BY <1>1, <1>3, <2>1, <2>2, FS_RemoveElement, Zenon
  <2>5. \A x \in Pools : taken'[x] = (IF x = held[r] THEN taken[x] - 1 ELSE taken[x])
    BY <1>5, <2>1, Zenon DEF ReleaseSlot, GateShape
  <2>6. taken' = [x \in Pools |-> IF x = held[r] THEN taken[x] - 1 ELSE taken[x]]
    BY <1>5, <2>1, Zenon DEF ReleaseSlot, GateShape
  <2>7. taken[held[r]] > 0
    <3>1. H(held[r]) # {} /\ IsFiniteSet(H(held[r]))
      BY <1>1, <2>1, <2>2, Zenon
    <3> HIDE DEF H
    <3>2. Cardinality(H(held[r])) # 0
      BY <3>1, FS_EmptySet, Zenon
    <3> QED BY <1>2, <2>1, <3>2
  <2> HIDE DEF G, H
  <2>8. \A x \in Pools : taken'[x] = Cardinality(G(x)) /\ taken'[x] <= Size[x]
    BY <1>2, <2>3, <2>4, <2>5
  <2>9. taken' \in [Pools -> Nat]
    BY <1>2, <2>6, <2>7
  <2> QED BY <2>8, <2>9 DEF SlotsConserved, G
<1> QED BY <1>4, <1>5

\* A request of the load comes over one of its connections, and on the operator
\* plane from a caller the limiter keys by.
LEMMA ActiveRequests ==
    ASSUME load \in Loads, NEW r \in Active
    PROVE  /\ r \in Requests /\ Conn(r) \in Conns
           /\ load.plane = "operator" => RateKey(r) \in Callers
  BY LoadAssumption, Zenon DEF Active, Conn, Conns, RateKey

\* A response gives the slot back and leaves the rest of the gate alone.
LEMMA RespondKeeps ==
    ASSUME GateInv, NEW r \in Active, NEW status, Respond(r, status), UNCHANGED <<load, seen>>
    PROVE  GateInv'
<1>1. r \in Requests
  BY ActiveRequests, Zenon DEF GateInv, GateShape
<1>2. SlotsConserved' /\ taken' \in [Pools -> Nat]
  BY <1>1, ReleaseConserves, Zenon DEF GateInv, Respond
<1>3. GateShape'
  BY <1>1, <1>2 DEF GateInv, GateShape, Respond, ReleaseSlot, Points, Active
<1>4. HeldInv'
  BY <1>1, <1>2, Zenon DEF GateInv, GateShape, HeldInv, Respond, ReleaseSlot
<1>5. RateInv'
  BY Zenon DEF GateInv, RateInv, Respond
<1> QED BY <1>3, <1>4, <1>5 DEF GateInv

\* A request that moves on without touching the gate.
LEMMA GotoKeeps ==
    ASSUME GateInv, NEW r \in Active, NEW to \in Points, pc' = [pc EXCEPT ![r] = to],
           UNCHANGED <<load, gateVars>>, seen' \in [Requests -> Windows],
           to \in Behind \/ held[r] = "none",
           to \in {"limit", "acquire", "wait"} => load.plane = "operator"
    PROVE  GateInv'
<1>1. r \in Requests
  BY ActiveRequests, Zenon DEF GateInv, GateShape
<1>2. GateShape'
  <2>1. /\ pc' \in [Requests -> Points] /\ pc'[r] = to
        /\ \A q \in Requests : q # r => pc'[q] = pc[q]
    BY <1>1, Zenon DEF GateInv, GateShape
  <2>2. Active' = Active /\ UNCHANGED <<load, window, taken, held, limit, charged>>
    BY Zenon DEF gateVars, Active
  <2>3. \A q \in Active : q \in Requests
    BY ActiveRequests, Zenon DEF GateInv, GateShape
  <2> QED BY <2>1, <2>2, <2>3, Zenon DEF GateInv, GateShape
<1>3. SlotsConserved'
  <2>1. taken' = taken /\ held' = held
    BY Zenon DEF gateVars
  <2> QED BY <2>1, Zenon DEF GateInv, HeldInv, SlotsConserved
<1>4. HeldInv'
  BY <1>1, <1>3, Zenon DEF GateInv, GateShape, HeldInv, gateVars
<1>5. RateInv'
  BY Zenon DEF GateInv, RateInv, gateVars
<1> QED BY <1>2, <1>4, <1>5 DEF GateInv

\* A request that takes a slot and goes on behind the gate.
LEMMA TakeKeeps ==
    ASSUME GateInv, NEW r \in Active, NEW p \in Pools, Take(r, p), Goto(r, "decode"),
           pc[r] \in {"acquire", "wait"}, UNCHANGED <<load, seen, window, limit, charged>>
    PROVE  GateInv'
<1>1. r \in Requests
  BY ActiveRequests, Zenon DEF GateInv, GateShape
<1>2. held[r] = "none"
  BY <1>1, Zenon DEF GateInv, HeldInv, Behind
<1>3. SlotsConserved'
  BY <1>1, <1>2, TakeConserves, Zenon DEF GateInv
<1>4. GateShape'
  BY <1>1 DEF GateInv, GateShape, Take, Goto, Points, Active
<1>5. HeldInv'
  BY <1>1, <1>3, Zenon DEF GateInv, GateShape, HeldInv, Take, Goto, Behind
<1>6. RateInv'
  BY Zenon DEF GateInv, RateInv
<1> QED BY <1>4, <1>5, <1>6 DEF GateInv

\* Allow under its mutex, with a window start read at any earlier time.
LEMMA AllowKeeps ==
    ASSUME GateShape, RateInv, NEW c \in Callers, NEW win \in Windows, NEW ok \in BOOLEAN,
           Allow(c, win, ok)
    PROVE  /\ limit' \in [Callers -> States] /\ charged' \in [Callers -> [Windows -> Nat]]
           /\ RateInv'
<1> USE GateAssumption
<1>1. CASE Cap = 0
  BY <1>1 DEF GateShape, RateInv, Allow
<1>2. CASE Cap # 0
  <2> DEFINE st == Rolled(c, win)
             new == IF ok THEN [st EXCEPT !.count = @ + 1] ELSE st
  <2>1. /\ st \in States /\ st.count <= Cap /\ st.known
        /\ \A w \in Windows : /\ w > st.floor => charged[c][w] = 0
                              /\ w = st.floor => charged[c][w] = st.count
    <3>0. limit[c] \in States
      BY Zenon DEF GateShape
    <3>1. CASE ~limit[c].known \/ win > limit[c].floor
      <4>1. st = [floor |-> win, count |-> 0, known |-> TRUE]
        BY <3>1, Zenon DEF Rolled
      <4>2. \A w \in Windows : w >= win => charged[c][w] = 0
        BY <3>0, <3>1 DEF RateInv, States, Windows
      <4>3. st \in States /\ st.floor = win /\ st.count = 0 /\ st.known
        BY <4>1 DEF States
      <4> HIDE DEF st
      <4> QED BY <4>2, <4>3 DEF Windows
    <3>2. CASE limit[c].known /\ ~(win > limit[c].floor)
      <4>1. st = limit[c]
        BY <3>2, Zenon DEF Rolled
      <4> HIDE DEF st
      <4> QED BY <3>0, <3>2, <4>1 DEF RateInv
    <3> QED BY <3>0, <3>1, <3>2 DEF States
  <2>2. /\ limit' = [limit EXCEPT ![c] = new]
        /\ ok => st.count < Cap
        /\ charged' = IF ok THEN [charged EXCEPT ![c][st.floor] = @ + 1] ELSE charged
    BY <1>2, Zenon DEF Allow
  <2> HIDE DEF st
  <2>3. /\ new \in States /\ new.floor = st.floor /\ new.known = st.known
        /\ new.count = IF ok THEN st.count + 1 ELSE st.count
    <3>1. CASE ok
      <4>1. st.count + 1 \in Nat
        BY <2>1 DEF States
      <4> QED BY <2>1, <3>1, <4>1, Zenon DEF States
    <3>2. CASE ~ok
      BY <2>1, <3>2, Zenon
    <3> QED BY <3>1, <3>2
  <2> HIDE DEF new
  <2>4. limit' \in [Callers -> States] /\ charged' \in [Callers -> [Windows -> Nat]]
    BY <2>1, <2>2, <2>3, Zenon DEF GateShape, States
  <2>5. RateInv'
    <3> SUFFICES ASSUME NEW d \in Callers
                 PROVE  /\ limit'[d].count <= Cap
                        /\ ~limit'[d].known => limit'[d].count = 0 /\ limit'[d].floor = 0
                        /\ \A w \in Windows : /\ charged'[d][w] <= Cap
                                              /\ w > limit'[d].floor => charged'[d][w] = 0
                                              /\ w = limit'[d].floor => charged'[d][w] = limit'[d].count
      BY Zenon DEF RateInv
    <3>1. CASE d # c
      <4>1. limit'[d] = limit[d] /\ charged'[d] = charged[d]
        BY <2>2, <3>1, Zenon DEF GateShape
      <4> QED BY <4>1 DEF RateInv
    <3>2. CASE d = c
      <4>1. limit'[d] = new /\ new.count <= Cap /\ new.known
        BY <2>1, <2>2, <2>3, <3>2 DEF GateShape, States
      <4>2. \A w \in Windows : charged'[d][w] = IF ok /\ w = st.floor THEN charged[c][w] + 1
                                                                   ELSE charged[c][w]
        BY <2>1, <2>2, <3>2, Zenon DEF GateShape, States
      <4>3. \A w \in Windows : charged[c][w] <= Cap /\ charged[c][w] \in Nat
        BY Zenon DEF RateInv, GateShape
      <4> QED BY <2>1, <2>2, <2>3, <4>1, <4>2, <4>3 DEF States, Windows
    <3> QED BY <3>1, <3>2
  <2> QED BY <2>4, <2>5
<1> QED BY <1>1, <1>2

\* admissionGate's limiter step of a general request.
LEMMA LimitKeeps == ASSUME GateInv, NEW r \in Active, Limit(r) PROVE GateInv'
<1> DEFINE to(ok) == IF ok THEN "wait" ELSE "done"
<1>1. /\ r \in Requests /\ RateKey(r) \in Callers /\ load.plane = "operator"
      /\ seen[r] \in Windows /\ 0 \in Windows
  BY ActiveRequests, GateAssumption DEF GateInv, GateShape, Limit, Windows
<1>2. PICK ok \in BOOLEAN : Allow(RateKey(r), seen[r], ok) /\ pc' = [pc EXCEPT ![r] = to(ok)]
  BY Zenon DEF Limit
<1>3. /\ limit' \in [Callers -> States] /\ charged' \in [Callers -> [Windows -> Nat]]
      /\ RateInv'
  BY <1>1, <1>2, AllowKeeps, Zenon DEF GateInv
<1>4. UNCHANGED <<load, taken, held, window>> /\ seen' = [seen EXCEPT ![r] = 0] /\ pc[r] = "limit"
  BY Zenon DEF Limit
<1>5. held[r] = "none"
  BY <1>1, <1>4, Zenon DEF GateInv, HeldInv, Behind
<1>6. to(ok) \in {"wait", "done"}
  BY Zenon
<1> HIDE DEF to
<1>7. GateShape'
  <2>1. /\ pc' \in [Requests -> Points] /\ seen' \in [Requests -> Windows]
        /\ \A q \in Requests : q # r => pc'[q] = pc[q]
    BY <1>1, <1>2, <1>4, <1>6, Zenon DEF GateInv, GateShape, Points
  <2>2. Active' = Active /\ \A q \in Active : q \in Requests
    BY <1>4, ActiveRequests, Zenon DEF Active, GateInv, GateShape
  <2> QED BY <1>1, <1>3, <1>4, <2>1, <2>2, Zenon DEF GateInv, GateShape
<1>8. SlotsConserved'
  BY <1>4, Zenon DEF GateInv, HeldInv, SlotsConserved
<1>9. HeldInv'
  BY <1>1, <1>2, <1>4, <1>5, <1>8, Zenon DEF GateInv, GateShape, HeldInv
<1> QED BY <1>3, <1>7, <1>9 DEF GateInv

\* Every step of a request through limiter, gate and handler, its release and
\* its withdrawal keep the slot and the rate accounts (Gate.Acquire, release).
LEMMA GateInvHolds ==
    ASSUME GateInv, [IngressNext]_<<ingressVars, gateVars>>
    PROVE  GateInv'
<1>1. CASE UNCHANGED <<ingressVars, gateVars>>
  <2>1. SlotsConserved'
    <3>1. taken' = taken /\ held' = held
      BY <1>1, Zenon DEF gateVars
    <3> QED BY <3>1, Zenon DEF GateInv, HeldInv, SlotsConserved
  <2> QED BY <1>1, <2>1 DEF GateInv, GateShape, HeldInv, RateInv, ingressVars, gateVars, Active
<1>2. CASE Tick /\ load.ticks /\ UNCHANGED ingressVars
  <2>1. SlotsConserved'
    <3>1. taken' = taken /\ held' = held
      BY <1>2, Zenon DEF Tick
    <3> QED BY <3>1, Zenon DEF GateInv, HeldInv, SlotsConserved
  <2>2. window' \in Windows
    BY <1>2, GateAssumption DEF Tick, Windows, GateInv, GateShape
  <2> QED
    BY <1>2, <2>1, <2>2, Zenon DEF GateInv, GateShape, HeldInv, RateInv, ingressVars,
       Tick, Active
<1>3. ASSUME NEW r \in Active, RequestStep(r) PROVE GateInv'
  <2>0. r \in Requests /\ window \in Windows /\ 0 \in Windows
    BY ActiveRequests, GateAssumption DEF GateInv, GateShape, Windows
  <2>1. CASE AcceptOperator(r)
    <3>1. held[r] = "none"
      BY <2>0, <2>1, Zenon DEF AcceptOperator, GateInv, HeldInv, Behind
    <3>2. seen' \in [Requests -> Windows]
      BY <2>0, <2>1, Zenon DEF AcceptOperator, GateInv, GateShape
    <3> QED BY <2>1, <3>1, <3>2, GotoKeeps, Zenon DEF AcceptOperator, Goto, Points
  <2>2. CASE AcceptGateway(r)
    BY <2>0, <2>2, GotoKeeps, Zenon DEF AcceptGateway, Goto, Points, Behind, GateInv, GateShape
  <2>3. CASE Limit(r)
    BY <2>3, LimitKeeps, Zenon
  <2>4. CASE Acquire(r)
    <3>1. CASE AcquireNow(r, ClassOf(Route(r))) /\ Goto(r, "decode")
      BY <2>4, <3>1, TakeKeeps, Zenon DEF Acquire, AcquireNow, Pools
    <3>2. CASE Goto(r, "wait") /\ UNCHANGED <<taken, held>>
      <4>1. held[r] = "none" /\ load.plane = "operator"
        BY <2>0, <2>4, Zenon DEF Acquire, GateInv, GateShape, HeldInv, Behind
      <4>2. UNCHANGED <<load, gateVars>> /\ seen' \in [Requests -> Windows]
        BY <2>4, <3>2, Zenon DEF Acquire, gateVars, GateInv, GateShape
      <4> QED BY <3>2, <4>1, <4>2, GotoKeeps, Zenon DEF Goto, Points
    <3> QED BY <2>4, <3>1, <3>2 DEF Acquire
  <2>5. CASE Admit(r)
    BY <2>5, TakeKeeps, Zenon DEF Admit, AcquireWait, Pools
  <2>6. CASE Shed(r)
    BY <2>6, RespondKeeps, Zenon DEF Shed
  <2>7. CASE Decode(r)
    <3>1. CASE \E status : Respond(r, status)
      BY <2>7, <3>1, RespondKeeps, Zenon DEF Decode
    <3>2. CASE Goto(r, "resolve") /\ UNCHANGED gateVars
      BY <2>7, <3>2, GotoKeeps, Zenon DEF Decode, Goto, Points, Behind, GateInv, GateShape
    <3> QED BY <2>7, <3>1, <3>2 DEF Decode
  <2>8. CASE Refuse(r)
    BY <2>8, RespondKeeps, Zenon DEF Refuse
  <2>9. CASE Attest(r)
    <3>1. PICK to \in {"emit", "call"} : Goto(r, to)
      BY <2>9, Zenon DEF Attest
    <3> QED BY <2>9, <3>1, GotoKeeps, Zenon DEF Attest, Goto, Points, Behind, GateInv, GateShape
  <2>10. CASE Emit(r)
    BY <2>10, GotoKeeps, Zenon DEF Emit, Goto, Points, Behind, GateInv, GateShape
  <2>11. CASE Call(r)
    <3>1. PICK reports : Reported(r, reports)
      BY <2>11, Zenon DEF Call, OperatorCall, KeyCall, ReadCall, ServiceCall, SetupCall
    <3> QED BY <3>1, RespondKeeps DEF Reported
  <2> QED
    BY <1>3, <2>1, <2>2, <2>3, <2>4, <2>5, <2>6, <2>7, <2>8, <2>9, <2>10, <2>11, Zenon
       DEF RequestStep
<1> QED BY <1>1, <1>2, <1>3 DEF IngressNext

\* The tokens in the two channels are the slots held by requests and never
\* more than the pool has (Acquire and its release func), for every pool size.
THEOREM SlotsAlwaysConserved == IngressSpec => []SlotsConserved
<1>1. GateInv => SlotsConserved
  BY Zenon DEF GateInv, HeldInv
<1>2. GateInv /\ [IngressNext]_<<ingressVars, gateVars>> => GateInv'
  BY GateInvHolds, Zenon
<1> QED BY <1>1, <1>2, GateInvInit, PTL DEF IngressSpec

\* No caller passes more than Cap general requests in one window of the limiter
\* (Allow), whatever the order in which requests read the clock and get the lock.
THEOREM RatesHold == IngressSpec => []RateFair
<1>1. GateInv => RateFair
  BY Zenon DEF GateInv, RateInv, RateFair
<1>2. GateInv /\ [IngressNext]_<<ingressVars, gateVars>> => GateInv'
  BY GateInvHolds, Zenon
<1> QED BY <1>1, <1>2, GateInvInit, PTL DEF IngressSpec

-----------------------------------------------------------------------------
(* The logon trail of both planes and the handlers behind it. *)

Recorded(r) == Route(r) \notin ReadRoutes
Emitting(r) == pc[r] = "emit"

TrailShape == /\ load \in Loads /\ pc \in [Requests -> Points]
              /\ latch \subseteq Conns /\ DOMAIN answer = Requests
              /\ logons \in [Conns -> Nat] /\ dropped \in [Conns -> Nat]
              /\ called \subseteq Active

\* A set latch stands for a logon in the trail or for the one request that is
\* about to write it.
LatchInv ==
    /\ \A c \in Conns : logons[c] <= 1 /\ (logons[c] = 1 => c \in latch)
    /\ \A r \in Active : Emitting(r) => Conn(r) \in latch /\ logons[Conn(r)] = 0
    /\ \A r, q \in Active : Emitting(r) /\ Emitting(q) /\ Conn(r) = Conn(q) => r = q
    /\ \A c \in latch : logons[c] = 1 \/ \E q \in Active : Conn(q) = c /\ Emitting(q)

\* A request past the resolver is attested and its logon is latched or lost.
CallInv ==
    /\ \A r \in Active : pc[r] \in {"emit", "call"} => Resolved(Conn(r)) # Unattested
    /\ \A r \in Active : pc[r] = "call" /\ Recorded(r) =>
          Conn(r) \in latch \/ dropped[Conn(r)] > 0
    /\ \A r \in called :
          /\ pc[r] = "done" /\ Resolved(Conn(r)) # Unattested
          /\ answer[r] \notin {"UNAUTHENTICATED", "RESOURCE_EXHAUSTED"}
          /\ Recorded(r) => Conn(r) \in latch \/ dropped[Conn(r)] > 0

TrailInv == TrailShape /\ LatchInv /\ CallInv

\* No connection is latched and no handler called before the first request.
LEMMA TrailInvInit == IngressInit => TrailInv
<1> SUFFICES ASSUME IngressInit PROVE TrailInv
  BY Zenon
<1>1. load \in Loads
  BY Zenon DEF IngressInit
<1>2. \A r \in Active : r \in Requests /\ Conn(r) \in Conns
  BY <1>1, ActiveRequests, Zenon
<1> QED BY <1>1, <1>2 DEF IngressInit, TrailInv, TrailShape, LatchInv, CallInv, Points, Emitting

\* What depends on the load alone.
LEMMA LoadKept ==
    ASSUME load' = load
    PROVE  /\ Active' = Active /\ Conns' = Conns
           /\ \A r : Conn(r)' = Conn(r) /\ Route(r)' = Route(r) /\ (Recorded(r)' <=> Recorded(r))
           /\ \A c : Resolved(c)' = Resolved(c)
  BY Zenon DEF Active, Conns, Conn, Route, Recorded, Resolved

\* A step of a request that is not in or after the resolver.
LEMMA EarlyStep ==
    ASSUME TrailInv, NEW r \in Active, NEW to \in {"limit", "acquire", "wait", "decode", "resolve", "done"},
           pc[r] \notin {"emit", "call", "done"}, pc' = [pc EXCEPT ![r] = to],
           \A q \in called : answer'[q] = answer[q], DOMAIN answer' = Requests,
           UNCHANGED <<load, latch, logons, called>>,
           dropped' \in [Conns -> Nat], \A c \in Conns : dropped'[c] >= dropped[c]
    PROVE  TrailInv'
<1>1. \A q \in Active : q \in Requests /\ Conn(q) \in Conns
  BY ActiveRequests, Zenon DEF TrailInv, TrailShape
<1>2. pc' \in [Requests -> Points] /\ pc'[r] = to /\ \A q \in Requests : q # r => pc'[q] = pc[q]
  BY <1>1, Zenon DEF TrailInv, TrailShape, Points
<1>3. TrailShape'
  BY <1>2, LoadKept, Zenon DEF TrailInv, TrailShape
<1>4. \A q \in Active : Emitting(q)' <=> Emitting(q)
  BY <1>1, <1>2, Zenon DEF Emitting
<1>5. LatchInv'
  BY <1>4, LoadKept DEF TrailInv, LatchInv
<1>6. \A c \in Conns : dropped[c] > 0 => dropped'[c] > 0
  BY DEF TrailInv, TrailShape
<1>7. r \notin called /\ \A q \in called : q \in Active
  BY Zenon DEF TrailInv, TrailShape, CallInv
<1>8. CallInv'
  BY <1>1, <1>2, <1>6, <1>7, LoadKept DEF TrailInv, CallInv
<1> QED BY <1>3, <1>5, <1>8 DEF TrailInv

\* authntrail Resolve for an attested caller: a won latch announces a record.
LEMMA AttestKeeps == ASSUME TrailInv, NEW r \in Active, Attest(r) PROVE TrailInv'
<1>0. /\ pc[r] = "resolve" /\ Resolved(Conn(r)) # Unattested
      /\ UNCHANGED <<load, answer, logons, dropped, called>>
  BY Zenon DEF Attest, Goto
<1>1. \A q \in Active : q \in Requests /\ Conn(q) \in Conns
  BY ActiveRequests, Zenon DEF TrailInv, TrailShape
<1>2. r \notin called /\ \A q \in called : q \in Active /\ q \in Requests
  BY <1>0, <1>1, Zenon DEF TrailInv, TrailShape, CallInv
<1>3. CASE ~Recorded(r) /\ Goto(r, "call") /\ UNCHANGED latch
  <2>1. /\ pc' \in [Requests -> Points] /\ pc'[r] = "call"
        /\ \A q \in Requests : q # r => pc'[q] = pc[q]
    BY <1>1, <1>3, Zenon DEF TrailInv, TrailShape, Points, Goto
  <2>2. \A q \in Active : Emitting(q)' <=> Emitting(q)
    BY <1>0, <1>1, <2>1, Zenon DEF Emitting
  <2>3. TrailShape' /\ LatchInv'
    BY <1>0, <1>3, <2>1, <2>2, LoadKept DEF TrailInv, TrailShape, LatchInv
  <2>4. CallInv'
    BY <1>0, <1>1, <1>2, <1>3, <2>1, LoadKept, Zenon DEF TrailInv, CallInv
  <2> QED BY <2>3, <2>4 DEF TrailInv
<1>4. CASE Conn(r) \in latch /\ Goto(r, "call") /\ latch' = latch \cup {Conn(r)}
  <2>1. /\ pc' \in [Requests -> Points] /\ pc'[r] = "call" /\ latch' = latch
        /\ \A q \in Requests : q # r => pc'[q] = pc[q]
    BY <1>1, <1>4, Zenon DEF TrailInv, TrailShape, Points, Goto
  <2>2. \A q \in Active : Emitting(q)' <=> Emitting(q)
    BY <1>0, <1>1, <2>1, Zenon DEF Emitting
  <2>3. TrailShape' /\ LatchInv'
    BY <1>0, <2>1, <2>2, LoadKept DEF TrailInv, TrailShape, LatchInv
  <2>4. CallInv'
    BY <1>0, <1>1, <1>2, <1>4, <2>1, LoadKept, Zenon DEF TrailInv, CallInv
  <2> QED BY <2>3, <2>4 DEF TrailInv
<1>5. CASE Conn(r) \notin latch /\ Goto(r, "emit") /\ latch' = latch \cup {Conn(r)}
  <2>1. /\ pc' \in [Requests -> Points] /\ pc'[r] = "emit"
        /\ \A q \in Requests : q # r => pc'[q] = pc[q]
    BY <1>1, <1>5, Zenon DEF TrailInv, TrailShape, Points, Goto
  <2>2. Emitting(r)' /\ \A q \in Active : q # r => (Emitting(q)' <=> Emitting(q))
    BY <1>1, <2>1, Zenon DEF Emitting
  <2>3. TrailShape'
    BY <1>0, <1>1, <1>5, <2>1, LoadKept, Zenon DEF TrailInv, TrailShape
  <2>4. logons[Conn(r)] = 0
    BY <1>1, <1>5 DEF TrailInv, TrailShape, LatchInv
  <2>5. LatchInv'
    BY <1>0, <1>1, <1>5, <2>2, <2>4, LoadKept DEF TrailInv, TrailShape, LatchInv
  <2>6. CallInv'
    BY <1>0, <1>1, <1>2, <1>5, <2>1, LoadKept, Zenon DEF TrailInv, CallInv
  <2> QED BY <2>3, <2>5, <2>6 DEF TrailInv
<1> QED BY <1>3, <1>4, <1>5 DEF Attest, CompareAndSwap, Recorded

\* The record itself: it is written, or its loss is counted and the latch opens.
LEMMA EmitKeeps == ASSUME TrailInv, NEW r \in Active, Emit(r) PROVE TrailInv'
<1>0. pc[r] = "emit" /\ Goto(r, "call") /\ UNCHANGED <<load, answer, called>>
  BY Zenon DEF Emit, Goto
<1>1. \A q \in Active : q \in Requests /\ Conn(q) \in Conns
  BY ActiveRequests, Zenon DEF TrailInv, TrailShape
<1>2. r \notin called /\ \A q \in called : q \in Active /\ q \in Requests
  BY <1>0, <1>1, Zenon DEF TrailInv, TrailShape, CallInv
<1>3. /\ pc' \in [Requests -> Points] /\ pc'[r] = "call"
      /\ \A q \in Requests : q # r => pc'[q] = pc[q]
  BY <1>0, <1>1, Zenon DEF TrailInv, TrailShape, Points, Goto
<1>4. ~Emitting(r)' /\ \A q \in Active : q # r => (Emitting(q)' <=> Emitting(q))
  BY <1>1, <1>3, Zenon DEF Emitting
<1>5. /\ Conn(r) \in latch /\ logons[Conn(r)] = 0
      /\ \A q \in Active : q # r /\ Conn(q) = Conn(r) => ~Emitting(q)
  BY <1>0, Zenon DEF TrailInv, LatchInv, Emitting
<1>6. CASE /\ latch' = latch /\ dropped' = dropped
           /\ logons' = [logons EXCEPT ![Conn(r)] = @ + 1]
  <2>1. logons'[Conn(r)] = 1 /\ \A c \in Conns : c # Conn(r) => logons'[c] = logons[c]
    BY <1>1, <1>5, <1>6 DEF TrailInv, TrailShape
  <2>2. TrailShape'
    <3>1. logons' \in [Conns -> Nat] /\ dropped' \in [Conns -> Nat] /\ latch' \subseteq Conns
      BY <1>1, <1>6 DEF TrailInv, TrailShape
    <3>2. load \in Loads /\ DOMAIN answer = Requests /\ called \subseteq Active
      BY Zenon DEF TrailInv, TrailShape
    <3> QED BY <1>0, <1>3, <3>1, <3>2, LoadKept DEF TrailShape
  <2>3. LatchInv'
    <3>1. \A c \in Conns : logons'[c] <= 1 /\ (logons'[c] = 1 => c \in latch')
      BY <1>1, <1>5, <1>6, <2>1 DEF TrailInv, LatchInv
    <3>2. \A q \in Active : Emitting(q)' => Conn(q) \in latch' /\ logons'[Conn(q)] = 0
      <4> SUFFICES ASSUME NEW q \in Active, Emitting(q)'
                   PROVE  Conn(q) \in latch' /\ logons'[Conn(q)] = 0
        BY Zenon
      <4>1. q # r /\ Emitting(q) /\ Conn(q) # Conn(r)
        BY <1>4, <1>5, Zenon
      <4>2. Conn(q) \in latch /\ logons[Conn(q)] = 0 /\ Conn(q) \in Conns
        BY <1>1, <4>1, Zenon DEF TrailInv, LatchInv
      <4> QED BY <1>6, <2>1, <4>1, <4>2
    <3>3. \A p, q \in Active : Emitting(p)' /\ Emitting(q)' /\ Conn(p) = Conn(q) => p = q
      BY <1>4, Zenon DEF TrailInv, LatchInv
    <3>4. \A c \in latch' : logons'[c] = 1 \/ \E q \in Active : Conn(q) = c /\ Emitting(q)'
      <4> SUFFICES ASSUME NEW c \in latch', logons'[c] # 1
                   PROVE  \E q \in Active : Conn(q) = c /\ Emitting(q)'
        BY Zenon
      <4>1. c \in latch /\ c # Conn(r) /\ logons[c] # 1 /\ c \in Conns
        BY <1>1, <1>6, <2>1, Zenon DEF TrailInv, TrailShape
      <4>2. PICK q \in Active : Conn(q) = c /\ Emitting(q)
        BY <4>1, Zenon DEF TrailInv, LatchInv
      <4> QED BY <1>4, <4>1, <4>2
    <3> QED BY <1>0, <3>1, <3>2, <3>3, <3>4, LoadKept DEF LatchInv
  <2>4. CallInv'
    <3>1. \A q \in Active : Conn(q) \in latch \/ dropped[Conn(q)] > 0
                           => Conn(q) \in latch' \/ dropped'[Conn(q)] > 0
      BY <1>1, <1>6, Zenon
    <3>2. \A q \in Active : pc'[q] = "call" /\ Recorded(q) => Conn(q) \in latch' \/ dropped'[Conn(q)] > 0
      BY <1>1, <1>3, <1>5, <1>6, <3>1, Zenon DEF TrailInv, CallInv
    <3>3. \A q \in Active : pc'[q] \in {"emit", "call"} => Resolved(Conn(q)) # Unattested
      BY <1>0, <1>1, <1>3, Zenon DEF TrailInv, CallInv
    <3>4. \A q \in called :
            /\ pc'[q] = "done" /\ Resolved(Conn(q)) # Unattested
            /\ answer[q] \notin {"UNAUTHENTICATED", "RESOURCE_EXHAUSTED"}
            /\ Recorded(q) => Conn(q) \in latch' \/ dropped'[Conn(q)] > 0
      BY <1>2, <1>3, <3>1, Zenon DEF TrailInv, CallInv
    <3> QED BY <1>0, <3>2, <3>3, <3>4, LoadKept DEF CallInv
  <2> QED BY <2>2, <2>3, <2>4 DEF TrailInv
<1>7. CASE /\ latch' = latch \ {Conn(r)} /\ logons' = logons
           /\ dropped' = [dropped EXCEPT ![Conn(r)] = @ + 1]
  <2>1. dropped'[Conn(r)] > 0 /\ \A c \in Conns : c # Conn(r) => dropped'[c] = dropped[c]
    BY <1>1, <1>7 DEF TrailInv, TrailShape
  <2>2. TrailShape'
    <3>1. dropped' \in [Conns -> Nat] /\ logons' \in [Conns -> Nat] /\ latch' \subseteq Conns
      BY <1>1, <1>7 DEF TrailInv, TrailShape
    <3>2. load \in Loads /\ DOMAIN answer = Requests /\ called \subseteq Active
      BY Zenon DEF TrailInv, TrailShape
    <3> QED BY <1>0, <1>3, <3>1, <3>2, LoadKept DEF TrailShape
  <2>3. LatchInv'
    <3>1. \A c \in Conns : logons'[c] <= 1 /\ (logons'[c] = 1 => c \in latch')
      BY <1>1, <1>5, <1>7 DEF TrailInv, LatchInv
    <3>2. \A q \in Active : Emitting(q)' => Conn(q) \in latch' /\ logons'[Conn(q)] = 0
      <4> SUFFICES ASSUME NEW q \in Active, Emitting(q)'
                   PROVE  Conn(q) \in latch' /\ logons'[Conn(q)] = 0
        BY Zenon
      <4>1. q # r /\ Emitting(q) /\ Conn(q) # Conn(r)
        BY <1>4, <1>5, Zenon
      <4>2. Conn(q) \in latch /\ logons[Conn(q)] = 0 /\ Conn(q) \in Conns
        BY <1>1, <4>1, Zenon DEF TrailInv, LatchInv
      <4> QED BY <1>7, <4>1, <4>2
    <3>3. \A p, q \in Active : Emitting(p)' /\ Emitting(q)' /\ Conn(p) = Conn(q) => p = q
      BY <1>4, Zenon DEF TrailInv, LatchInv
    <3>4. \A c \in latch' : logons'[c] = 1 \/ \E q \in Active : Conn(q) = c /\ Emitting(q)'
      <4> SUFFICES ASSUME NEW c \in latch', logons'[c] # 1
                   PROVE  \E q \in Active : Conn(q) = c /\ Emitting(q)'
        BY Zenon
      <4>1. c \in latch /\ c # Conn(r) /\ logons[c] # 1 /\ c \in Conns
        BY <1>1, <1>7, Zenon DEF TrailInv, TrailShape
      <4>2. PICK q \in Active : Conn(q) = c /\ Emitting(q)
        BY <4>1, Zenon DEF TrailInv, LatchInv
      <4> QED BY <1>4, <4>1, <4>2
    <3> QED BY <1>0, <3>1, <3>2, <3>3, <3>4, LoadKept DEF LatchInv
  <2>4. CallInv'
    <3>1. \A q \in Active : Conn(q) \in latch \/ dropped[Conn(q)] > 0
                           => Conn(q) \in latch' \/ dropped'[Conn(q)] > 0
      BY <1>1, <1>7, <2>1, Zenon
    <3>2. \A q \in Active : pc'[q] = "call" /\ Recorded(q) => Conn(q) \in latch' \/ dropped'[Conn(q)] > 0
      BY <1>1, <1>3, <1>5, <1>7, <2>1, <3>1, Zenon DEF TrailInv, CallInv
    <3>3. \A q \in Active : pc'[q] \in {"emit", "call"} => Resolved(Conn(q)) # Unattested
      BY <1>0, <1>1, <1>3, Zenon DEF TrailInv, CallInv
    <3>4. \A q \in called :
            /\ pc'[q] = "done" /\ Resolved(Conn(q)) # Unattested
            /\ answer[q] \notin {"UNAUTHENTICATED", "RESOURCE_EXHAUSTED"}
            /\ Recorded(q) => Conn(q) \in latch' \/ dropped'[Conn(q)] > 0
      BY <1>2, <1>3, <3>1, Zenon DEF TrailInv, CallInv
    <3> QED BY <1>0, <3>2, <3>3, <3>4, LoadKept DEF CallInv
  <2> QED BY <2>2, <2>3, <2>4 DEF TrailInv
<1> QED BY <1>6, <1>7 DEF Emit, Record

\* A handler that is not told "unattested" answers neither 401 nor 429.
LEMMA CallAnswers ==
    ASSUME NEW r, NEW report, report # "unattested"
    PROVE  AnswerOf(r, report) \notin {"UNAUTHENTICATED", "RESOURCE_EXHAUSTED"}
  BY Zenon DEF AnswerOf, MCPKeyError, ReadError, GRPCStatus, OperatorError, ServiceError

\* A handler's call by a request the resolver attested.
LEMMA CallKeeps == ASSUME TrailInv, NEW r \in Active, Call(r) PROVE TrailInv'
<1>1. PICK reports : Reported(r, reports) /\ "unattested" \notin reports
  BY DEF Call, OperatorCall, KeyCall, ReadCall, ReadReports, ServiceCall, SetupCall
<1>2. PICK report \in reports : Respond(r, AnswerOf(r, report))
  BY <1>1, Zenon DEF Reported
<1>3. /\ pc[r] = "call" /\ called' = called \cup {r}
      /\ UNCHANGED <<load, latch, logons, dropped>>
  BY <1>1, Zenon DEF Reported, trailVars
<1>4. \A q \in Active : q \in Requests /\ Conn(q) \in Conns
  BY ActiveRequests, Zenon DEF TrailInv, TrailShape
<1>5. AnswerOf(r, report) \notin {"UNAUTHENTICATED", "RESOURCE_EXHAUSTED"}
  BY <1>1, <1>2, CallAnswers, Zenon
<1>6. /\ pc' \in [Requests -> Points] /\ pc'[r] = "done"
      /\ \A q \in Requests : q # r => pc'[q] = pc[q]
      /\ DOMAIN answer' = Requests /\ answer'[r] = AnswerOf(r, report)
      /\ \A q \in Requests : q # r => answer'[q] = answer[q]
  BY <1>2, <1>4, Zenon DEF TrailInv, TrailShape, Points, Respond
<1>7. \A q \in Active : Emitting(q)' <=> Emitting(q)
  BY <1>3, <1>4, <1>6, Zenon DEF Emitting
<1>8. TrailShape' /\ LatchInv'
  <2>1. called' \subseteq Active
    BY <1>3, Zenon DEF TrailInv, TrailShape
  <2>2. TrailShape'
    BY <1>3, <1>6, <2>1, LoadKept, Zenon DEF TrailInv, TrailShape
  <2>3. LatchInv'
    BY <1>3, <1>7, LoadKept DEF TrailInv, LatchInv
  <2> QED BY <2>2, <2>3
<1>9. \A q \in called : q \in Requests /\ q # r
  BY <1>3, <1>4, Zenon DEF TrailInv, TrailShape, CallInv
<1>10. CallInv'
  <2>1. \A q \in Active : pc'[q] \in {"emit", "call"} => q # r /\ pc'[q] = pc[q]
    BY <1>4, <1>6, Zenon
  <2>2. /\ \A q \in Active : pc'[q] \in {"emit", "call"} => Resolved(Conn(q)) # Unattested
        /\ \A q \in Active : pc'[q] = "call" /\ Recorded(q) =>
              Conn(q) \in latch \/ dropped[Conn(q)] > 0
    BY <2>1, Zenon DEF TrailInv, CallInv
  <2>3. \A q \in called :
          /\ pc'[q] = "done" /\ Resolved(Conn(q)) # Unattested
          /\ answer'[q] \notin {"UNAUTHENTICATED", "RESOURCE_EXHAUSTED"}
          /\ Recorded(q) => Conn(q) \in latch \/ dropped[Conn(q)] > 0
    BY <1>6, <1>9, Zenon DEF TrailInv, CallInv
  <2>4. /\ pc'[r] = "done" /\ Resolved(Conn(r)) # Unattested
        /\ answer'[r] \notin {"UNAUTHENTICATED", "RESOURCE_EXHAUSTED"}
        /\ Recorded(r) => Conn(r) \in latch \/ dropped[Conn(r)] > 0
    BY <1>3, <1>5, <1>6, Zenon DEF TrailInv, CallInv
  <2> QED BY <1>3, <2>2, <2>3, <2>4, LoadKept DEF CallInv
<1> QED BY <1>8, <1>10 DEF TrailInv

\* Every step of a request keeps the latch, the logons and the calls in
\* agreement (logon latch, refusal before the handler).
LEMMA TrailInvHolds ==
    ASSUME TrailInv, [IngressNext]_<<ingressVars, gateVars>>
    PROVE  TrailInv'
<1>1. CASE UNCHANGED ingressVars
  <2>1. \A q \in Active : Emitting(q)' <=> Emitting(q)
    BY <1>1, Zenon DEF ingressVars, Emitting
  <2> QED BY <1>1, <2>1, LoadKept DEF TrailInv, TrailShape, LatchInv, CallInv, ingressVars
<1>2. ASSUME NEW r \in Active, RequestStep(r) PROVE TrailInv'
  <2>0. /\ r \in Requests /\ Conn(r) \in Conns
        /\ \A q \in called : pc[q] = "done"
        /\ DOMAIN answer = Requests /\ dropped \in [Conns -> Nat] /\ called \subseteq Requests
    BY ActiveRequests, Zenon DEF TrailInv, TrailShape, CallInv
  <2>1. ASSUME NEW status, pc[r] # "done", answer' = [answer EXCEPT ![r] = status] \/ answer' = answer
        PROVE  DOMAIN answer' = Requests /\ \A q \in called : answer'[q] = answer[q]
    BY <2>0, <2>1, Zenon
  <2>2. \A c \in Conns : dropped[c] >= dropped[c]
    BY <2>0
  <2>3. CASE AcceptOperator(r) \/ AcceptGateway(r) \/ Acquire(r) \/ Admit(r)
    <3>1. PICK to \in {"limit", "acquire", "wait", "decode"} : Goto(r, to)
      BY <2>3, Zenon DEF AcceptOperator, AcceptGateway, Acquire, Admit
    <3>2. pc[r] \in {"idle", "acquire", "wait"} /\ UNCHANGED <<load, latch, logons, dropped, called>>
      BY <2>3, Zenon DEF AcceptOperator, AcceptGateway, Acquire, Admit, trailVars
    <3> QED BY <2>0, <2>2, <3>1, <3>2, EarlyStep, Zenon DEF Goto
  <2>4. CASE Limit(r)
    <3>1. PICK to \in {"wait", "done"} : pc' = [pc EXCEPT ![r] = to]
      BY <2>4, Zenon DEF Limit
    <3>2. /\ pc[r] = "limit" /\ UNCHANGED <<load, latch, logons, dropped, called>>
          /\ \E status : answer' = [answer EXCEPT ![r] = status]
      BY <2>4, Zenon DEF Limit, trailVars
    <3>3. DOMAIN answer' = Requests /\ \A q \in called : answer'[q] = answer[q]
      BY <2>1, <3>2, Zenon
    <3> QED BY <2>0, <2>2, <3>1, <3>2, <3>3, EarlyStep, Zenon
  <2>5. CASE Shed(r) \/ Decode(r) \/ Refuse(r)
    <3>1. /\ pc[r] \in {"wait", "decode", "resolve"} /\ UNCHANGED <<load, latch, logons, called>>
          /\ dropped' = dropped \/ dropped' = [dropped EXCEPT ![Conn(r)] = @ + 1]
      BY <2>5, Zenon DEF Shed, Decode, Refuse, Record, trailVars
    <3>2. dropped' \in [Conns -> Nat] /\ \A c \in Conns : dropped'[c] >= dropped[c]
      BY <2>0, <3>1
    <3>3. (\E status : Respond(r, status)) \/ Goto(r, "resolve")
      BY <2>5, Zenon DEF Shed, Decode, Refuse
    <3>4. CASE \E status : Respond(r, status)
      <4>1. /\ pc' = [pc EXCEPT ![r] = "done"]
            /\ DOMAIN answer' = Requests /\ \A q \in called : answer'[q] = answer[q]
        BY <2>1, <3>1, <3>4, Zenon DEF Respond
      <4> QED BY <3>1, <3>2, <4>1, EarlyStep, Zenon
    <3>5. CASE Goto(r, "resolve")
      BY <2>0, <3>1, <3>2, <3>5, EarlyStep, Zenon DEF Goto
    <3> QED BY <3>3, <3>4, <3>5
  <2>6. CASE Attest(r)
    BY <2>6, AttestKeeps, Zenon
  <2>7. CASE Emit(r)
    BY <2>7, EmitKeeps, Zenon
  <2>8. CASE Call(r)
    BY <2>8, CallKeeps, Zenon
  <2> QED BY <1>2, <2>3, <2>4, <2>5, <2>6, <2>7, <2>8 DEF RequestStep
<1> QED BY <1>1, <1>2 DEF IngressNext

\* The trail holds a connection's logon at most once, and a recorded handler is
\* reached only with the logon written, about to be, or counted as lost
\* (authntrail Resolve), for every load and however requests share a connection.
THEOREM LogonsAccounted == IngressSpec => [](LogonOnce /\ LogonAccounted)
<1>1. TrailInv => LogonOnce /\ LogonAccounted
  BY ActiveRequests, Zenon DEF TrailInv, TrailShape, LatchInv, CallInv, Recorded,
     Emitting, LogonOnce, LogonAccounted
<1>2. TrailInv /\ [IngressNext]_<<ingressVars, gateVars>> => TrailInv'
  BY TrailInvHolds, Zenon
<1> QED BY <1>1, <1>2, TrailInvInit, PTL DEF IngressSpec

\* No handler of either plane is reached by a request that was not attested,
\* was throttled or was refused (routes of both planes), for every load.
THEOREM RefusedNeverReach == IngressSpec => []RefusedUntouched
<1>1. TrailInv => RefusedUntouched
  BY Zenon DEF TrailInv, CallInv, RefusedUntouched
<1>2. TrailInv /\ [IngressNext]_<<ingressVars, gateVars>> => TrailInv'
  BY TrailInvHolds, Zenon
<1> QED BY <1>1, <1>2, TrailInvInit, PTL DEF IngressSpec

\* For every load, whatever reaches the Manager or an engine is attested, admitted
\* and accounted for in the trail (registerRoutes, authntrail).
THEOREM CallsAlwaysAttested == IngressSpec => []CallsAttested
<1>1. RefusedUntouched /\ LogonOnce /\ LogonAccounted => CallsAttested
  BY Zenon DEF CallsAttested
<1> QED BY <1>1, LogonsAccounted, RefusedNeverReach, PTL

-----------------------------------------------------------------------------
(* The quota gate. *)

\* What a create has paid for at each stage of ChargeCreate, Receipt.Apply and
\* RefundConcurrent.
PaidAt(c) ==
    /\ stage[c] \in {"new", "rate"} => paid[c] = {}
    /\ stage[c] \in {"level", "refundRate"} => paid[c] = {"rate"}
    /\ stage[c] \in {"charged", "live"} => paid[c] = Dims
    /\ stage[c] = "unwind" => paid[c] = Dims \/ paid[c] = {"rate"}

\* Nobody took a charge away and no cell is past its limit, unless an operator
\* may override it.
WithinLimits ==
    policy.overrides = {} => \A x \in Cells : under[x] = 0 /\ counters[x] <= LimitOf(x[1])

QuotaInv == /\ QuotaType
            /\ \A c \in Creates : PaidAt(c)
            /\ DriftAccounted
            /\ WithinLimits

\* A create is billed on a cell of the store, of its own dimension
\* (quotaScopeID).
LEMMA CellsBilled ==
    ASSUME QuotaType, NEW c \in Creates, NEW dim \in Dims
    PROVE  /\ CellFor(c, dim) \in Cells /\ CellFor(c, dim)[1] = dim
           /\ policy.owner[c] \in Owners /\ LimitOf(dim) \in Nat
           /\ policy.backend \in {"memory", "postgres"}
<1>1. policy \in PolicySet
  BY QuotaAssumption, Zenon DEF QuotaType
<1>2. /\ policy.owner[c] \in Owners /\ LimitOf(dim) \in Nat
      /\ policy.backend \in {"memory", "postgres"}
  BY <1>1, Zenon DEF PolicySet, LimitOf
<1>3. label[c] \in Minutes
  BY Zenon DEF QuotaType
<1> DEFINE o == policy.owner[c]
           b == IF policy.backend = "memory" THEN o ELSE QuotaScopeID(dim, o)
<1>4. b \in Billed
  <2>1. {o, <<"", o[2]>>, <<o[1], "">>} \subseteq Billed
    BY <1>2, Zenon DEF Billed
  <2> QED
    BY <2>1, Zenon DEF QuotaScopeID
<1>5. CellFor(c, dim) = <<dim, b[1], b[2], IF dim = "rate" THEN label[c] ELSE 0>>
  BY Zenon DEF CellFor, Cell
<1> HIDE DEF b
<1>6. CellFor(c, dim) \in Cells
  BY <1>3, <1>4, <1>5 DEF Cells, Dims
<1>7. CellFor(c, dim)[1] = dim
  BY <1>5
<1> QED
  BY <1>2, <1>6, <1>7, Zenon

\* Every limit is a number, and an operator names a cell of the store.
LEMMA CapTyped == ASSUME QuotaType PROVE \A x \in Cells : LimitOf(x[1]) \in Nat
<1>1. policy \in PolicySet
  BY QuotaAssumption, Zenon DEF QuotaType
<1> QED
  BY <1>1, Zenon DEF PolicySet, LimitOf

\* The cells an operator can name are cells of the store (Cell).
LEMMA OverridableCells == Overridable \subseteq Cells
<1> SUFFICES ASSUME NEW d \in Dims, NEW o \in Owners, NEW w \in Minutes
             PROVE  Cell(d, o, w) \in Cells
  BY DEF Overridable
<1> DEFINE b == IF policy.backend = "memory" THEN o ELSE QuotaScopeID(d, o)
<1>1. b \in Billed
  <2>1. {o, <<"", o[2]>>, <<o[1], "">>} \subseteq Billed
    BY Zenon DEF Billed
  <2> QED
    BY <2>1, Zenon DEF QuotaScopeID
<1>2. Cell(d, o, w) = <<d, b[1], b[2], IF d = "rate" THEN w ELSE 0>>
  BY Zenon DEF Cell
<1> HIDE DEF b
<1> QED
  BY <1>1, <1>2 DEF Cells, Dims

\* The creates charged on a cell can be counted.
LEMMA FinitePayers ==
    ASSUME NEW x
    PROVE  IsFiniteSet(Payers(x)) /\ Cardinality(Payers(x)) \in Nat
  BY QuotaAssumption, FS_Subset, FS_CardinalityType, Zenon DEF Payers

\* A create pays for a cell through one dimension only.
LEMMA OneDimension ==
    ASSUME QuotaType, NEW c \in Creates, NEW dim \in Dims
    PROVE  c \in Payers(CellFor(c, dim)) <=> dim \in paid[c]
<1>1. paid[c] \subseteq Dims
  BY Zenon DEF QuotaType
<1> QED
  BY <1>1, CellsBilled DEF Payers

\* While nobody is billed anew the payers of a cell change with their receipts.
LEMMA PayersStay ==
    ASSUME NEW x, paid' = paid, policy' = policy,
           \A c \in Creates : label'[c] = label[c] \/ paid[c] = {}
    PROVE  Payers(x)' = Payers(x)
<1>1. \A c \in Creates : \A dim \in paid[c] : CellFor(c, dim)' = CellFor(c, dim)
  BY DEF CellFor, Cell
<1> QED
  BY <1>1, Zenon DEF Payers

\* A charge adds its create to the payers of one cell.
LEMMA PayerAdded ==
    ASSUME QuotaType, NEW c \in Creates, NEW dim \in Dims, dim \notin paid[c],
           paid' = [paid EXCEPT ![c] = @ \cup {dim}], UNCHANGED <<policy, label>>, NEW x
    PROVE  Cardinality(Payers(x)') =
             IF x = CellFor(c, dim) THEN Cardinality(Payers(x)) + 1 ELSE Cardinality(Payers(x))
<1>1. \A e \in Creates, d \in Dims : CellFor(e, d)' = CellFor(e, d)
  BY Zenon DEF CellFor, Cell
<1>2. \A e \in Creates : paid[e] \subseteq Dims /\ paid'[e] \subseteq Dims
  BY Zenon DEF QuotaType
<1>3. /\ paid'[c] = paid[c] \cup {dim}
      /\ \A e \in Creates \ {c} : paid'[e] = paid[e]
  BY Zenon DEF QuotaType
<1>4. x = CellFor(c, dim) => Payers(x)' = Payers(x) \cup {c} /\ c \notin Payers(x)
  BY <1>1, <1>2, <1>3, OneDimension DEF Payers
<1>5. x # CellFor(c, dim) => Payers(x)' = Payers(x)
  BY <1>1, <1>2, <1>3 DEF Payers
<1>6. IsFiniteSet(Payers(x))
  BY FinitePayers, Zenon
<1> QED
  BY <1>4, <1>5, <1>6, FS_AddElement, Zenon

\* A refund takes its create from the payers of one cell.
LEMMA PayerRemoved ==
    ASSUME QuotaType, NEW c \in Creates, NEW dim \in Dims, dim \in paid[c],
           paid' = [paid EXCEPT ![c] = @ \ {dim}], UNCHANGED <<policy, label>>, NEW x
    PROVE  Cardinality(Payers(x)') =
             IF x = CellFor(c, dim) THEN Cardinality(Payers(x)) - 1 ELSE Cardinality(Payers(x))
<1>1. \A e \in Creates, d \in Dims : CellFor(e, d)' = CellFor(e, d)
  BY Zenon DEF CellFor, Cell
<1>2. \A e \in Creates : paid[e] \subseteq Dims /\ paid'[e] \subseteq Dims
  BY Zenon DEF QuotaType
<1>3. /\ paid'[c] = paid[c] \ {dim}
      /\ \A e \in Creates \ {c} : paid'[e] = paid[e]
  BY Zenon DEF QuotaType
<1>4. \A d \in Dims : CellFor(c, d) = CellFor(c, dim) => d = dim
  BY CellsBilled, Zenon
<1>5. x = CellFor(c, dim) => Payers(x)' = Payers(x) \ {c} /\ c \in Payers(x)
  BY <1>1, <1>2, <1>3, <1>4 DEF Payers
<1>6. x # CellFor(c, dim) => Payers(x)' = Payers(x)
  BY <1>1, <1>2, <1>3, Zenon DEF Payers
<1>7. IsFiniteSet(Payers(x))
  BY FinitePayers, Zenon
<1> QED
  BY <1>5, <1>6, <1>7, FS_RemoveElement, Zenon

\* A charge, made, refused or unanswered, keeps the accounts and the limit
\* (Charge).
LEMMA ChargeKeeps ==
    ASSUME QuotaInv, NEW c \in Creates, NEW dim \in Dims, dim \notin paid[c],
           NEW done \in Stages, NEW refused \in Stages, ChargeDim(c, dim, done, refused),
           UNCHANGED <<policy, minute, label, under>>
    PROVE  /\ QuotaType' /\ DriftAccounted' /\ WithinLimits'
           /\ \A e \in Creates \ {c} : stage'[e] = stage[e] /\ paid'[e] = paid[e]
           /\ \/ stage'[c] = done /\ paid'[c] = paid[c] \cup {dim}
              \/ stage'[c] = refused /\ paid'[c] = paid[c]
<1> DEFINE x == CellFor(c, dim)
<1>1. QuotaType /\ DriftAccounted /\ WithinLimits
  BY Zenon DEF QuotaInv
<1>2. /\ x \in Cells /\ x[1] = dim /\ LimitOf(dim) \in Nat
      /\ \A y \in Cells : Cardinality(Payers(y)) \in Nat
  BY <1>1, CellsBilled, FinitePayers, Zenon
<1>3. /\ counters \in [Cells -> Nat] /\ over \in [Cells -> Nat] /\ under \in [Cells -> Nat]
      /\ paid \in [Creates -> SUBSET Dims] /\ stage \in [Creates -> Stages]
  BY <1>1, Zenon DEF QuotaType
<1>4. \A d : LimitOf(d)' = LimitOf(d)
  BY Zenon DEF LimitOf
<1> HIDE DEF x
<1>5. CASE /\ Chargeable(x, 1, LimitOf(dim)) /\ counters' = Charged(x, 1)
           /\ paid' = [paid EXCEPT ![c] = @ \cup {dim}] /\ Moves(c, done) /\ UNCHANGED over
  <2>1. \A y \in Cells : counters'[y] = IF y = x THEN counters[y] + 1 ELSE counters[y]
    BY <1>2, <1>3, <1>5 DEF Charged
  <2>2. counters[x] + 1 <= LimitOf(dim)
    BY <1>5 DEF Chargeable
  <2>3. \A y \in Cells : Cardinality(Payers(y)') =
             IF y = x THEN Cardinality(Payers(y)) + 1 ELSE Cardinality(Payers(y))
    BY <1>1, <1>5, PayerAdded, Zenon DEF x
  <2>4. DriftAccounted'
    BY <1>1, <1>2, <1>3, <1>5, <2>1, <2>3 DEF DriftAccounted
  <2>5. WithinLimits'
    BY <1>1, <1>2, <1>4, <2>1, <2>2, Zenon DEF WithinLimits
  <2>6. QuotaType'
    BY <1>1, <1>2, <1>3, <1>5 DEF QuotaType, Charged, Moves
  <2> QED
    BY <1>3, <1>5, <2>4, <2>5, <2>6, Zenon DEF Moves
<1>6. CASE Moves(c, refused) /\ UNCHANGED <<counters, paid, over>>
  <2>1. \A y \in Cells : Payers(y)' = Payers(y)
    BY <1>6, PayersStay, Zenon
  <2> QED
    BY <1>1, <1>3, <1>4, <1>6, <2>1, Zenon DEF Moves, DriftAccounted, WithinLimits,
       QuotaType
<1>7. CASE /\ Chargeable(x, 1, LimitOf(dim)) /\ counters' = Charged(x, 1)
           /\ over' = [over EXCEPT ![x] = @ + 1] /\ Moves(c, refused) /\ UNCHANGED paid
  <2>1. \A y \in Cells : /\ counters'[y] = IF y = x THEN counters[y] + 1 ELSE counters[y]
                         /\ over'[y] = IF y = x THEN over[y] + 1 ELSE over[y]
    BY <1>2, <1>3, <1>7 DEF Charged
  <2>2. counters[x] + 1 <= LimitOf(dim)
    BY <1>7 DEF Chargeable
  <2>3. \A y \in Cells : Payers(y)' = Payers(y)
    BY <1>7, PayersStay, Zenon
  <2>4. DriftAccounted'
    BY <1>1, <1>2, <1>3, <2>1, <2>3 DEF DriftAccounted
  <2>5. WithinLimits'
    BY <1>1, <1>2, <1>4, <2>1, <2>2 DEF WithinLimits
  <2>6. QuotaType'
    BY <1>1, <1>2, <1>3, <1>7 DEF QuotaType, Charged, Moves
  <2> QED
    BY <1>3, <1>7, <2>4, <2>5, <2>6, Zenon DEF Moves
<1> QED
  BY <1>5, <1>6, <1>7, Zenon DEF ChargeDim, x

\* A refund, made or lost, keeps the accounts: a cell that saturates at zero had
\* nothing left to count (Charge, refundOne).
LEMMA RefundKeeps ==
    ASSUME QuotaInv, NEW c \in Creates, NEW dim \in Dims, dim \in paid[c],
           NEW to \in Stages, Refund(c, dim, to)
    PROVE  /\ QuotaType' /\ DriftAccounted' /\ WithinLimits'
           /\ \A e \in Creates \ {c} : stage'[e] = stage[e] /\ paid'[e] = paid[e]
           /\ stage'[c] = to /\ paid'[c] = paid[c] \ {dim}
<1> DEFINE x == CellFor(c, dim)
<1>1. QuotaType /\ DriftAccounted /\ WithinLimits
  BY Zenon DEF QuotaInv
<1>2. /\ x \in Cells /\ \A y \in Cells : Cardinality(Payers(y)) \in Nat
  BY <1>1, CellsBilled, FinitePayers, Zenon
<1>3. /\ counters \in [Cells -> Nat] /\ over \in [Cells -> Nat] /\ under \in [Cells -> Nat]
      /\ paid \in [Creates -> SUBSET Dims] /\ stage \in [Creates -> Stages]
  BY <1>1, Zenon DEF QuotaType
<1>4. UNCHANGED <<policy, minute, label, under>> /\ \A d : LimitOf(d)' = LimitOf(d)
  BY Zenon DEF Refund, LimitOf
<1>5. /\ paid' = [paid EXCEPT ![c] = @ \ {dim}] /\ Moves(c, to)
      /\ \/ counters' = Charged(x, -1) /\ UNCHANGED over
         \/ over' = [over EXCEPT ![x] = @ + 1] /\ UNCHANGED counters
  BY Zenon DEF Refund, Refunded
<1>6. \A y \in Cells : Cardinality(Payers(y)') =
           IF y = x THEN Cardinality(Payers(y)) - 1 ELSE Cardinality(Payers(y))
  BY <1>1, <1>4, <1>5, PayerRemoved, Zenon
<1> HIDE DEF x
<1>7. \A y \in Cells :
        \/ /\ counters'[y] = IF y = x THEN IF counters[y] = 0 THEN 0 ELSE counters[y] - 1
                            ELSE counters[y]
           /\ over'[y] = over[y]
        \/ counters'[y] = counters[y] /\ over'[y] = IF y = x THEN over[y] + 1 ELSE over[y]
  BY <1>2, <1>3, <1>5 DEF Charged
<1>8. \A y \in Cells : Cardinality(Payers(y)') \in Nat
  BY QuotaAssumption, FS_Subset, FS_CardinalityType, Zenon DEF Payers
<1>9. DriftAccounted'
  <2> SUFFICES ASSUME NEW y \in Cells
               PROVE  /\ Cardinality(Payers(y)') - under'[y] <= counters'[y]
                      /\ counters'[y] <= Cardinality(Payers(y)') + over'[y]
    BY Zenon DEF DriftAccounted
  <2>1. /\ Cardinality(Payers(y)) - under[y] <= counters[y]
        /\ counters[y] <= Cardinality(Payers(y)) + over[y]
    BY <1>1, Zenon DEF DriftAccounted
  <2>2. /\ counters[y] \in Nat /\ over[y] \in Nat /\ under[y] \in Nat /\ under'[y] = under[y]
        /\ Cardinality(Payers(y)) \in Nat
    BY <1>2, <1>3, <1>4, Zenon
  <2>3. Cardinality(Payers(y)') \in Nat
    BY <1>8, Zenon
  <2>4. Cardinality(Payers(y)') =
             IF y = x THEN Cardinality(Payers(y)) - 1 ELSE Cardinality(Payers(y))
    BY <1>6, Zenon
  <2>5. \/ /\ counters'[y] = IF y = x THEN IF counters[y] = 0 THEN 0 ELSE counters[y] - 1
                            ELSE counters[y]
           /\ over'[y] = over[y]
        \/ counters'[y] = counters[y] /\ over'[y] = IF y = x THEN over[y] + 1 ELSE over[y]
    BY <1>7, Zenon
  <2> QED
    BY <2>1, <2>2, <2>3, <2>4, <2>5
<1>10. WithinLimits'
  BY <1>1, <1>3, <1>4, <1>7, CapTyped DEF WithinLimits
<1>11. QuotaType'
  BY <1>1, <1>2, <1>3, <1>4, <1>5 DEF QuotaType, Charged, Moves
<1> QED
  BY <1>3, <1>5, <1>9, <1>10, <1>11, Zenon DEF Moves

\* An operator's override moves a cell by one and is on record as drift
\* (OverrideQuota).
LEMMA OverrideKeeps ==
    ASSUME QuotaInv, NEW x \in Overridable, NEW delta \in {-1, 1}, NEW lim,
           OverrideQuota(x, delta, lim)
    PROVE  QuotaInv'
<1>1. QuotaType /\ DriftAccounted /\ WithinLimits
  BY Zenon DEF QuotaInv
<1>2. /\ x \in Cells
      /\ \A y \in Cells : Cardinality(Payers(y)) \in Nat /\ Payers(y)' = Payers(y)
  BY <1>1, OverridableCells, FinitePayers, PayersStay, Zenon DEF OverrideQuota
<1>3. /\ counters \in [Cells -> Nat] /\ over \in [Cells -> Nat] /\ under \in [Cells -> Nat]
  BY <1>1, Zenon DEF QuotaType
<1>4. policy.overrides # {} /\ UNCHANGED <<policy, minute, stage, label, paid>>
  BY Zenon DEF OverrideQuota
<1>5. CASE UNCHANGED <<counters, over, under>>
  BY <1>1, <1>2, <1>4, <1>5, Zenon DEF QuotaInv, QuotaType, DriftAccounted,
     WithinLimits, PaidAt
<1>6. CASE /\ counters' = Charged(x, delta)
           /\ over' = [over EXCEPT ![x] = IF delta > 0 THEN @ + delta ELSE @]
           /\ under' = [under EXCEPT ![x] = IF delta < 0 THEN @ - delta ELSE @]
  <2>1. /\ counters' \in [Cells -> Nat] /\ over' \in [Cells -> Nat] /\ under' \in [Cells -> Nat]
    BY <1>2, <1>3, <1>6 DEF Charged
  <2>2. \A y \in Cells :
          /\ y # x => counters'[y] = counters[y] /\ over'[y] = over[y] /\ under'[y] = under[y]
          /\ y = x /\ delta = 1 => /\ counters'[y] = counters[y] + 1 /\ over'[y] = over[y] + 1
                                  /\ under'[y] = under[y]
          /\ y = x /\ delta = -1 => /\ counters'[y] = IF counters[y] = 0 THEN 0 ELSE counters[y] - 1
                                   /\ under'[y] = under[y] + 1 /\ over'[y] = over[y]
    BY <1>2, <1>3, <1>6 DEF Charged
  <2>3. DriftAccounted'
    BY <1>1, <1>2, <1>3, <2>2 DEF DriftAccounted
  <2> QED
    BY <1>1, <1>4, <2>1, <2>3, Zenon DEF QuotaInv, QuotaType, WithinLimits, PaidAt
<1> QED
  BY <1>5, <1>6, Zenon DEF OverrideQuota

\* Every step of a create, of a destroy's refund, of an operator and of the
\* clock keeps the accounts (ChargeCreate, Receipt.Apply, RefundConcurrent).
LEMMA QuotaStepKeeps == ASSUME QuotaInv, QuotaNext PROVE QuotaInv'
<1>1. QuotaType /\ \A e \in Creates : PaidAt(e)
  BY Zenon DEF QuotaInv
<1>2. ASSUME NEW c \in Creates, MinuteWindow(c) PROVE QuotaInv'
  <2>1. paid[c] = {} /\ label \in [Creates -> Minutes] /\ minute \in Minutes
    BY <1>1, <1>2, Zenon DEF MinuteWindow, PaidAt, QuotaType
  <2>2. \A e \in Creates : label'[e] = label[e] \/ paid[e] = {}
    BY <1>2, <2>1, Zenon DEF MinuteWindow
  <2>3. \A y \in Cells : Payers(y)' = Payers(y)
    BY <1>2, <2>2, PayersStay, Zenon DEF MinuteWindow
  <2>4. QuotaType'
    BY <1>1, <1>2, Zenon DEF MinuteWindow, Moves, QuotaType, Stages
  <2>5. \A e \in Creates : PaidAt(e)'
    BY <1>1, <1>2, <2>1, Zenon DEF MinuteWindow, Moves, QuotaType, PaidAt
  <2> QED
    BY <1>2, <2>3, <2>4, <2>5, Zenon DEF MinuteWindow, QuotaInv, DriftAccounted,
       WithinLimits, LimitOf
<1>3. ASSUME NEW c \in Creates, ChargeRate(c) PROVE QuotaInv'
  <2>1. stage[c] = "rate" /\ paid[c] = {} /\ "rate" \in Dims /\ {"level", "ended"} \subseteq Stages
    BY <1>1, <1>3, Zenon DEF ChargeRate, PaidAt, Dims, Stages
  <2>2. /\ QuotaType' /\ DriftAccounted' /\ WithinLimits'
        /\ \A e \in Creates \ {c} : stage'[e] = stage[e] /\ paid'[e] = paid[e]
        /\ \/ stage'[c] = "level" /\ paid'[c] = paid[c] \cup {"rate"}
           \/ stage'[c] = "ended" /\ paid'[c] = paid[c]
    BY <1>3, <2>1, ChargeKeeps, Zenon DEF ChargeRate
  <2> QED
    BY <1>1, <2>1, <2>2, Zenon DEF QuotaInv, PaidAt
<1>4. ASSUME NEW c \in Creates, ChargeLevel(c) PROVE QuotaInv'
  <2>1. /\ stage[c] = "level" /\ paid[c] = {"rate"} /\ "level" \in Dims
        /\ {"charged", "refundRate"} \subseteq Stages
    BY <1>1, <1>4, Zenon DEF ChargeLevel, PaidAt, Dims, Stages
  <2>2. /\ QuotaType' /\ DriftAccounted' /\ WithinLimits'
        /\ \A e \in Creates \ {c} : stage'[e] = stage[e] /\ paid'[e] = paid[e]
        /\ \/ stage'[c] = "charged" /\ paid'[c] = paid[c] \cup {"level"}
           \/ stage'[c] = "refundRate" /\ paid'[c] = paid[c]
    BY <1>4, <2>1, ChargeKeeps, Zenon DEF ChargeLevel
  <2> QED
    BY <1>1, <2>1, <2>2, Zenon DEF QuotaInv, PaidAt, Dims
<1>5. ASSUME NEW c \in Creates, RefundOne(c) \/ Apply(c) \/ RefundConcurrent(c) PROVE QuotaInv'
  <2>1. \/ stage[c] = "refundRate" /\ paid[c] = {"rate"} /\ Refund(c, "rate", "ended")
        \/ stage[c] = "unwind" /\ paid[c] = Dims /\ Refund(c, "level", "unwind")
        \/ stage[c] = "unwind" /\ paid[c] = {"rate"} /\ Refund(c, "rate", "ended")
        \/ stage[c] = "live" /\ paid[c] = Dims /\ Refund(c, "level", "ended")
    BY <1>1, <1>5, Zenon DEF RefundOne, Apply, RefundConcurrent, PaidAt, Dims
  <2>2. PICK dim \in Dims, to \in Stages :
          /\ dim \in paid[c] /\ Refund(c, dim, to)
          /\ to = "unwind" => paid[c] = Dims /\ dim = "level"
          /\ to \in {"unwind", "ended"}
    BY <2>1, Zenon DEF Dims, Stages
  <2>3. /\ QuotaType' /\ DriftAccounted' /\ WithinLimits'
        /\ \A e \in Creates \ {c} : stage'[e] = stage[e] /\ paid'[e] = paid[e]
        /\ stage'[c] = to /\ paid'[c] = paid[c] \ {dim}
    BY <2>2, RefundKeeps, Zenon
  <2> QED
    BY <1>1, <2>2, <2>3 DEF QuotaInv, PaidAt, Dims
<1>6. ASSUME NEW c \in Creates, CreateEnds(c) PROVE QuotaInv'
  <2>1. \A y \in Cells : Payers(y)' = Payers(y)
    BY <1>6, PayersStay, Zenon DEF CreateEnds
  <2>2. QuotaType' /\ \A e \in Creates : PaidAt(e)'
    BY <1>1, <1>6 DEF CreateEnds, Moves, QuotaType, Stages, PaidAt
  <2> QED
    BY <1>6, <2>1, <2>2, Zenon DEF CreateEnds, QuotaInv, DriftAccounted, WithinLimits,
       LimitOf
<1>7. CASE ClockMoves
  <2>1. \A y \in Cells : Payers(y)' = Payers(y)
    BY <1>7, PayersStay, Zenon DEF ClockMoves
  <2> QED
    BY <1>7, <2>1, Zenon DEF ClockMoves, QuotaInv, QuotaType, DriftAccounted,
       WithinLimits, LimitOf, PaidAt
<1> QED
  BY <1>2, <1>3, <1>4, <1>5, <1>6, <1>7, OverrideKeeps, Zenon DEF QuotaNext, QuotaStep

\* The accounts start empty and hold through every step.
LEMMA QuotaInvHolds == QuotaSpec => []QuotaInv
<1>1. QuotaInit => QuotaInv
  <2> SUFFICES ASSUME QuotaInit PROVE QuotaInv
    BY Zenon
  <2>1. QuotaType
    BY QuotaAssumption DEF QuotaInit, QuotaType, Minutes, Stages
  <2>2. \A x \in Cells : Payers(x) = {} /\ counters[x] = 0 /\ over[x] = 0 /\ under[x] = 0
    BY Zenon DEF QuotaInit, Payers
  <2>3. DriftAccounted
    BY <2>2, FS_EmptySet DEF DriftAccounted
  <2>4. WithinLimits
    BY <2>1, <2>2, CapTyped DEF WithinLimits
  <2> QED
    BY <2>1, <2>3, <2>4, Zenon DEF QuotaInit, QuotaInv, PaidAt
<1>2. QuotaInv /\ UNCHANGED quotaVars => QuotaInv'
  <2> SUFFICES ASSUME QuotaInv, UNCHANGED quotaVars PROVE QuotaInv'
    BY Zenon
  <2>1. \A y \in Cells : Payers(y)' = Payers(y)
    BY PayersStay, Zenon DEF quotaVars
  <2> QED
    BY <2>1, Zenon DEF quotaVars, QuotaInv, QuotaType, DriftAccounted, WithinLimits,
       LimitOf, PaidAt
<1> QED
  BY <1>1, <1>2, QuotaStepKeeps, PTL DEF QuotaSpec

\* For every set of creates, every policy, clock and fault a cell counts the
\* charges still outstanding, up to recorded losses and overrides (ChargeCreate,
\* Receipt.Apply, refundOne).
THEOREM DriftAlwaysAccounted == QuotaSpec => []DriftAccounted
  BY QuotaInvHolds, PTL DEF QuotaInv

\* For every limit, with no override allowed, no payer holds more charges than
\* the limit of the dimension, in a window or at a time (Limits, Charge).
THEOREM CapsAlwaysHold == QuotaSpec => []CapsHold
<1>1. QuotaInv => CapsHold
  <2> SUFFICES ASSUME QuotaInv, policy.overrides = {}, NEW c \in Creates, NEW dim \in Dims
               PROVE  Cardinality(Peers(c, dim)) <= LimitOf(dim)
    BY Zenon DEF CapsHold
  <2> DEFINE x == CellFor(c, dim)
  <2>1. QuotaType /\ DriftAccounted /\ WithinLimits
    BY Zenon DEF QuotaInv
  <2>2. x \in Cells /\ x[1] = dim /\ LimitOf(dim) \in Nat
    BY <2>1, CellsBilled, Zenon
  <2>3. under[x] = 0 /\ counters[x] <= LimitOf(dim) /\ counters[x] \in Nat
    BY <2>1, <2>2, Zenon DEF WithinLimits, QuotaType
  <2>4. ASSUME NEW e \in Peers(c, dim) PROVE e \in Payers(x)
    <3>1. e \in Creates /\ dim \in paid[e] /\ dim \in {"rate", "level"}
      BY Zenon DEF Peers, Dims
    <3>2. /\ SamePayer(dim, policy.owner[c], policy.owner[e])
          /\ dim = "rate" => label[e] = label[c]
      BY Zenon DEF Peers
    <3>3. ASSUME policy.backend = "memory" PROVE CellFor(e, dim) = x
      BY <3>2, <3>3, Zenon DEF SamePayer, CellFor, Cell
    <3>4. ASSUME policy.backend # "memory", dim = "rate" PROVE CellFor(e, dim) = x
      BY <3>2, <3>4, Zenon DEF SamePayer, CellFor, Cell, QuotaScopeID
    <3>5. ASSUME policy.backend # "memory", dim # "rate" PROVE CellFor(e, dim) = x
      BY <3>2, <3>5, Zenon DEF SamePayer, CellFor, Cell, QuotaScopeID
    <3>6. CellFor(e, dim) = x
      BY <3>3, <3>4, <3>5, Zenon
    <3> QED
      BY <3>1, <3>6, Zenon DEF Payers
  <2>5. Cardinality(Peers(c, dim)) \in Nat /\ Cardinality(Peers(c, dim)) <= Cardinality(Payers(x))
    BY <2>4, FinitePayers, FS_Subset, FS_CardinalityType, Zenon
  <2>6. Cardinality(Payers(x)) \in Nat /\ Cardinality(Payers(x)) - under[x] <= counters[x]
    BY <2>1, <2>2, FinitePayers, Zenon DEF DriftAccounted
  <2> QED
    BY <2>2, <2>3, <2>5, <2>6
<1> QED
  BY <1>1, QuotaInvHolds, PTL
=============================================================================
