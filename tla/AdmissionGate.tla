--------------------------- MODULE AdmissionGate ---------------------------
(***************************************************************************)
(* The bounded admission of the operator plane (internal/admit): the gate  *)
(* with a general and a reserved pool, and the per-caller limiter.         *)
(***************************************************************************)
EXTENDS Naturals, FiniteSets

CONSTANTS General,    \* slots of the general pool
          Reserved,   \* slots only the priority class may take
          Cap,        \* general requests one caller may pass in a window
          MaxWindow,  \* bound: rate windows the clock goes through
          Callers,    \* rate keys: the attested uids, and one for all others
          Requests    \* request identities

ASSUME GateAssumption == /\ General \in Nat /\ Reserved \in Nat /\ Cap \in Nat
                         /\ MaxWindow \in Nat

VARIABLES taken,    \* tokens in each of the two channels
          held,     \* the channel a request's release func drains
          window,   \* the wall clock, truncated to the window
          limit,    \* Limiter.state: floor and count of a caller
          charged   \* history: requests passed per caller and window floor

gateVars == <<taken, held, window, limit, charged>>

Pools == {"general", "reserved"}
Size == [p \in Pools |-> IF p = "general" THEN General ELSE Reserved]
Windows == 0 .. MaxWindow
NoState == [floor |-> 0, count |-> 0, known |-> FALSE]

GateType == /\ taken \in [Pools -> 0 .. (General + Reserved)]
            /\ held \in [Requests -> Pools \cup {"none"}]
            /\ window \in Windows
            /\ limit \in [Callers -> [floor : Windows, count : 0 .. Cap, known : BOOLEAN]]
            /\ charged \in [Callers -> [Windows -> Nat]]

\* NewGate, NewLimiter.
GateInit == /\ taken = [p \in Pools |-> 0]
            /\ held = [r \in Requests |-> "none"]
            /\ window = 0
            /\ limit = [c \in Callers |-> NoState]
            /\ charged = [c \in Callers |-> [w \in Windows |-> 0]]

Free(p) == taken[p] < Size[p]

\* A send into a channel with room.
Take(r, p) == /\ Free(p)
              /\ taken' = [taken EXCEPT ![p] = @ + 1]
              /\ held' = [held EXCEPT ![r] = p]

\* Mutant of ReleaseSlot: only the general channel is drained.
ReleaseGeneralOnly(r) ==
    /\ held' = [held EXCEPT ![r] = "none"]
    /\ taken' = IF held[r] # "general" THEN taken ELSE [taken EXCEPT ![held[r]] = @ - 1]

\* The release func Acquire returned: it drains the channel that was sent to.
ReleaseSlot(r) ==
    /\ held' = [held EXCEPT ![r] = "none"]
    /\ taken' = IF held[r] = "none" THEN taken ELSE [taken EXCEPT ![held[r]] = @ - 1]

\* Acquire, the first select of a priority request: reserved, without waiting.
AcquireNow(r, class) == class = "priority" /\ Take(r, "reserved")

\* Acquire, the blocking select: either pool for a priority request, the
\* general one for the others.
AcquireWait(r, class) == \/ Take(r, "general")
                         \/ class = "priority" /\ Take(r, "reserved")

Tick == /\ window < MaxWindow
        /\ window' = window + 1
        /\ UNCHANGED <<taken, held, limit, charged>>

\* Mutant of Rolled: a window other than the stored one starts a new count.
RolledOnChange(c, win) ==
    IF ~limit[c].known \/ win # limit[c].floor
    THEN [floor |-> win, count |-> 0, known |-> TRUE]
    ELSE limit[c]

\* Allow, the switch: an unknown caller and a later window start at zero; a
\* window read before another request moved the floor keeps the newer floor.
Rolled(c, win) ==
    IF ~limit[c].known \/ win > limit[c].floor
    THEN [floor |-> win, count |-> 0, known |-> TRUE]
    ELSE limit[c]

\* Allow under the mutex, with the window start read before it.
Allow(c, win, ok) ==
    LET st == Rolled(c, win) IN
    IF Cap = 0 THEN ok /\ UNCHANGED <<limit, charged>>
    ELSE /\ ok <=> st.count < Cap
         /\ limit' = [limit EXCEPT ![c] = IF ok THEN [st EXCEPT !.count = @ + 1] ELSE st]
         /\ charged' = IF ok THEN [charged EXCEPT ![c][st.floor] = @ + 1] ELSE charged

-----------------------------------------------------------------------------
\* The tokens in a channel are the slots that requests hold: no path of the
\* admission gate keeps a slot after the response or drains the wrong channel.
SlotsConserved == \A p \in Pools : /\ taken[p] = Cardinality({r \in Requests : held[r] = p})
                                   /\ taken[p] <= Size[p]

\* One caller passes at most Cap general requests per window floor, also when
\* requests that read the clock in an older window reach the limiter late.
RateFair == Cap > 0 => \A c \in Callers, w \in Windows : charged[c][w] <= Cap
=============================================================================
