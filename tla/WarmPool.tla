------------------------------ MODULE WarmPool ------------------------------
(***************************************************************************)
(* The warm pool (internal/runtime/warmpool) over the Docker warm factory  *)
(* (internal/runtime/docker/warmfactory.go): one watermark producer, Get,  *)
(* Put and Close.  Get and Put read the closed flag under the pool's lock  *)
(* and touch the ready channel after releasing it; each is two steps.      *)
(***************************************************************************)
EXTENDS DockerHost

CONSTANTS Capacity  \* of the ready channel: the watermark

ASSUME PoolAssumption == Capacity \in Nat \ {0}

VARIABLES ready,     \* the units in the ready channel
          closed,    \* Close has been called
          producer,  \* the next step of fill
          made,      \* the unit fill has created and not yet sent
          seq        \* the last unit number handed out

poolVars == <<ready, closed, producer, made, seq>>

ProducerSteps == {"off", "check", "create", "send", "discard", "gone"}

PoolType == /\ ready \subseteq Units
            /\ closed \in {"no", "waiting", "draining", "yes"}
            /\ producer \in ProducerSteps
            /\ made \in Units \cup {Nobody}
            /\ seq \in 0 .. MaxUnits

PoolInit == /\ ready = {} /\ closed = "no"
            /\ producer = "off" /\ made = Nobody /\ seq = 0

-----------------------------------------------------------------------------
(* The factory. *)

\* The storage posture of the warmed profile.  The daemon warms a profile
\* without storage; the pool and the create pipeline take either.
WarmFuse == deploy.warm

\* CreatePlaceholder: the next unit number, a placeholder root, a container
\* without network that is never started.  A failed create unstages the root,
\* best effort.
CreatePlaceholder(u, ok) ==
    /\ seq < MaxUnits /\ u = seq + 1
    /\ seq' = u
    /\ IF ok
       THEN /\ deploy.tier # "firecracker"
            /\ ContainerCreate(u, WarmFuse, "none")
            /\ StagePlaceholder(u)
            /\ UNCHANGED stuck
       ELSE /\ \/ deploy.tier = "firecracker" /\ UNCHANGED <<root, stuck>>
               \/ /\ "create" \in deploy.faults
                  /\ root' = [root EXCEPT ![u] = Nobody]
                  /\ stuck' = stuck \ {<<"root", u>>}
               \/ /\ "remove" \in deploy.faults
                  /\ StagePlaceholder(u)
                  /\ stuck' = stuck \cup {<<"root", u>>}
            /\ UNCHANGED box
    /\ UNCHANGED bridge

\* DestroyPlaceholder and Dispose: by container id, so the name does not
\* matter.  A failed remove returns before the root is unstaged.
DestroyPlaceholder(u) ==
    LET gone == Boxes({u}) \cup RootsOf({u}) IN
    \/ Removed(gone, {})
    \/ Boxes({u}) # {} /\ Removed(gone, gone)
    \/ Removed(gone, RootsOf({u}))

-----------------------------------------------------------------------------
(* Warm and fill. *)

Warm == /\ closed = "no" /\ producer = "off"
        /\ producer' = "check"
        /\ UNCHANGED <<ready, closed, made, seq>>

FillCheck == /\ producer = "check"
             /\ producer' = IF closed = "no" THEN "create" ELSE "gone"
             /\ UNCHANGED <<hostVars, ready, closed, made, seq>>

\* A failed create is retried; a context cancelled by Close ends the loop.
FillCreate ==
    /\ producer = "create"
    /\ \/ \E u \in Units :
            \/ CreatePlaceholder(u, TRUE) /\ made' = u /\ producer' = "send"
            \/ CreatePlaceholder(u, FALSE) /\ producer' = "check" /\ UNCHANGED made
       \/ closed # "no" /\ producer' = "gone" /\ UNCHANGED <<hostVars, made, seq>>
    /\ UNCHANGED <<ready, closed>>

\* The blocking send: a free slot takes the unit, a cancelled context makes
\* the producer destroy it; with both, either.
FillSend == /\ producer = "send"
            /\ \/ /\ Cardinality(ready) < Capacity
                  /\ ready' = ready \cup {made}
                  /\ producer' = "check" /\ made' = Nobody
               \/ closed # "no" /\ producer' = "discard" /\ UNCHANGED <<ready, made>>
            /\ UNCHANGED <<hostVars, closed, seq>>

FillDiscard == /\ producer = "discard"
               /\ DestroyPlaceholder(made)
               /\ producer' = "gone" /\ made' = Nobody
               /\ UNCHANGED <<ready, closed, seq>>

-----------------------------------------------------------------------------
(* Get, Put and Close. *)

\* The locked part of Get and of Put: the pool is open and warmed.
Open == closed = "no" /\ producer # "off"

\* The receive of Get: some unit, or a miss on an empty channel.
Receive(u) == u \in ready /\ ready' = ready \ {u}

\* Mutant of Offer: surplus units are dropped, not destroyed.
OfferDrops(u) == IF Cardinality(ready) < Capacity
                 THEN ready' = ready \cup {u} /\ UNCHANGED hostVars
                 ELSE UNCHANGED <<ready, hostVars>>

\* The send of Put: into a free slot, else the unit is destroyed.
Offer(u) == IF Cardinality(ready) < Capacity
            THEN ready' = ready \cup {u} /\ UNCHANGED hostVars
            ELSE DestroyPlaceholder(u) /\ UNCHANGED ready

\* Close marks the pool and cancels the producer, waits for it, then drains.
CloseBegin == /\ closed = "no"
              /\ closed' = "waiting"
              /\ UNCHANGED <<hostVars, ready, producer, made, seq>>

CloseWait == /\ closed = "waiting" /\ producer \in {"off", "gone"}
             /\ closed' = "draining"
             /\ UNCHANGED <<hostVars, ready, producer, made, seq>>

CloseDrain == /\ closed = "draining"
              /\ \/ \E u \in ready : /\ DestroyPlaceholder(u)
                                     /\ ready' = ready \ {u}
                                     /\ UNCHANGED closed
                 \/ /\ ready = {} /\ closed' = "yes"
                    /\ UNCHANGED <<hostVars, ready>>
              /\ UNCHANGED <<producer, made, seq>>

FillStep == FillCheck \/ FillCreate \/ FillSend \/ FillDiscard
CloseStep == CloseWait \/ CloseDrain
=============================================================================
