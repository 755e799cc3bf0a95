---------------------------- MODULE DaemonProofs ----------------------------
(***************************************************************************)
(* What holds of the daemon's processes and of its channels into guests    *)
(* for every invocation, fault, signal, crash and number of processes, of  *)
(* execs and of guests.                                                    *)
(***************************************************************************)
EXTENDS Daemon, GuestChannel, TLAPS

USE SMTT(30)

\* The processes of a host where one starts only when none is running.
Successive == DaemonInit({h \in Hosts : ~h.overlap}, {Nothing, RegularFile})
              /\ [][DaemonNext]_daemonVars

\* Why a process ended.
Reasons == Points \cup {"none", "killswitch", "denied", "earlyAdmit"}

\* Where a process may have bound a listener, where its hook has swept, and
\* where its Serve loops may be.
Later == {"bindgw", "notify", "bootfail", "idle", "select", "closeop", "closegw", "drain",
          "exited", "crashed"}
Hooked == {"bindop", "bindgw", "notify", "idle", "select", "closeop", "closegw", "drain"}
Looping == {"select", "closeop", "closegw", "drain"}

\* The listeners and loops of a process by the point it has reached.
Listeners(p) ==
    /\ p.pc \notin Later => p.op = "unbound" /\ p.gw = "unbound"
    /\ p.pc = "bindgw" => p.op = "open" /\ p.gw = "unbound"
    /\ p.pc \in {"notify", "idle"} => p.op = "open" /\ p.gw = "open"
    /\ p.pc = "bootfail" => p.op # "open" /\ p.gw = "unbound"
    /\ p.pc \in Looping => p.gw # "unbound" /\ p.op # "unbound"
    /\ p.pc \in {"closegw", "drain"} => p.op = "closed"
    /\ p.pc = "drain" => p.gw = "closed"
    /\ p.pc \in {"exited", "crashed"} => p.op # "open" /\ p.gw # "open" /\ p.audit # "open"
    /\ p.pc \notin Looping => p.loops["op"] = "idle" /\ p.loops["gw"] = "idle"
    /\ p.pc = "select" => /\ p.loops["op"] = "run" => p.op = "open"
                          /\ p.loops["gw"] = "run" => p.gw = "open"

\* What it has read, swept and announced.
Posture(p) ==
    /\ p.pc \in {"idle"} \cup Looping /\ host.systemd => p.systemd # "none"
    /\ p.pc \in {"reconcile", "warm"} \cup Hooked => p.ready = "ready"
    /\ p.pc \in {"warm"} \cup Hooked => p.swept

\* What is on the host beside it.
Swept(d, p) ==
    ~Fails(d, "enumeration") =>
      /\ p.pc = "warm" => units = {} /\ ~orphan
      /\ p.pc \in Hooked => units = (IF p.pool THEN {d} ELSE {}) /\ ~orphan

\* An open listener is the one clients reach, and only a crash leaves a socket.
Owned(d, p) ==
    /\ p.op = "open" => sockFile = d
    /\ p.gw = "open" => port = d
    /\ sockFile = d => p.op = "open" \/ p.pc = "crashed"
    /\ port = d => p.gw = "open"

Life(d, p) == Listeners(p) /\ Posture(p) /\ Swept(d, p) /\ Owned(d, p)

\* One process runs at a time.
HostInv ==
    /\ DaemonType /\ ~host.overlap
    /\ \A d, e \in Daemons : Running(d) /\ Running(e) => d = e
    /\ \A d \in Daemons : Life(d, proc[d])
    /\ probe.state \in {"dialed", "green"} => probe.to \in Daemons

\* The processes that are not running keep what is said of them while another
\* one steps.
LEMMA OthersRest ==
    ASSUME HostInv, NEW d \in Daemons, \A e \in Daemons \ {d} : ~Running(e),
           NEW q \in Processes, proc' = [proc EXCEPT ![d] = q], UNCHANGED <<host, probe>>,
           sockFile' \in {sockFile, d, Nothing}, port' \in {port, d, Nothing},
           units' \subseteq Daemons, orphan' \in BOOLEAN, signalled' \subseteq Daemons,
           Life(d, q)'
    PROVE  HostInv'
<1>1. /\ DaemonType /\ proc \in [Daemons -> Processes] /\ ~host.overlap
      /\ \A e \in Daemons : Life(e, proc[e])
      /\ probe.state \in {"dialed", "green"} => probe.to \in Daemons
  BY Zenon DEF HostInv, DaemonType
<1>2. proc'[d] = q /\ \A e \in Daemons \ {d} : proc'[e] = proc[e]
  BY <1>1, Zenon
<1>3. DaemonType'
  BY <1>1, Zenon DEF DaemonType
<1>4. \A e \in Daemons \ {d} : ~Running(e)'
  BY <1>2, Zenon DEF Running, Ended
<1>5. ASSUME NEW e \in Daemons \ {d} PROVE Life(e, proc[e])'
  <2>1. proc[e].pc \in {"off", "exited", "crashed"} /\ Life(e, proc[e]) /\ proc'[e] = proc[e]
    BY <1>1, <1>2, Zenon DEF Running, Ended
  <2>2. proc[e].op # "open" /\ proc[e].gw # "open"
    BY <2>1, Zenon DEF Life, Listeners, Later
  <2>3. Listeners(proc[e])' /\ Posture(proc[e])'
    BY <2>1 DEF Life, Listeners, Posture
  <2>4. Swept(e, proc[e])'
    BY <2>1, Zenon DEF Swept, Hooked
  <2>5. Owned(e, proc[e])'
    BY <2>1, <2>2, HostAssumption, Zenon DEF Life, Owned
  <2> QED
    BY <2>3, <2>4, <2>5, Zenon DEF Life
<1>6. \A e \in Daemons : Life(e, proc[e])'
  BY <1>2, <1>5, Zenon
<1> QED
  BY <1>1, <1>3, <1>4, <1>6, Zenon DEF HostInv

\* While a process runs no other one does.
LEMMA RunsAlone ==
    ASSUME HostInv, NEW d \in Daemons, Running(d)
    PROVE  /\ \A e \in Daemons \ {d} : ~Running(e)
           /\ proc \in [Daemons -> Processes] /\ proc[d] \in Processes /\ Life(d, proc[d])
           /\ host \in Hosts /\ host.cfg \in Configs
           /\ units \subseteq Daemons /\ orphan \in BOOLEAN /\ signalled \subseteq Daemons
           /\ sockFile \in Daemons \cup {Nothing, RegularFile} /\ port \in Daemons \cup {Nothing}
  BY Zenon DEF HostInv, DaemonType, Hosts

\* Where a process is says whether it runs.
LEMMA RunsAt ==
    ASSUME NEW d \in Daemons, proc[d].pc \notin {"off", "exited", "crashed"}
    PROVE  Running(d)
  BY Zenon DEF Running, Ended

\* The construction steps are points of their own.
LEMMA StagePoints ==
    /\ \A i \in 1 .. Len(Stages) :
         /\ Stages[i] \in Points
         /\ Stages[i] \notin {"off", "loaddeny", "reconcile", "warm"} \cup Hooked \cup Later
    /\ Len(Stages) = 14
<1>1. Len(Stages) = 14 /\ DOMAIN Stages = 1 .. 14
  BY DEF Stages
<1>2. \A i \in 1 .. Len(Stages) : Stages[i] \in Range(Stages)
  BY <1>1, Zenon DEF Range
<1>3. \A i \in 1 .. 14 : Stages[i] \in {"store", "profile", "signer", "execkey", "cacert", "jwks",
                                      "rotate", "audit", "chain", "provider", "compose",
                                      "mcpkeys", "soar", "tls"}
  BY DEF Stages
<1> QED
  BY <1>1, <1>2, <1>3, Zenon DEF Points, Hooked, Later

\* A process stays one with the point reached set (serve).
LEMMA PutPc == \A p \in Processes, x \in Points : [p EXCEPT !.pc = x] \in Processes
  BY Zenon DEF Processes

\* A process stays one with why it ended set (serve).
LEMMA PutWhy == \A p \in Processes, x \in Reasons : [p EXCEPT !.why = x] \in Processes
  BY Zenon DEF Processes, Reasons

\* A process stays one with the posture read set (serve).
LEMMA PutReady ==
    \A p \in Processes, x \in {"notLoaded", "ready", "storeUnavailable"} : [p EXCEPT !.ready = x] \in Processes
  BY Zenon DEF Processes

\* A process stays one with that the sweep is over set (serve).
LEMMA PutSwept == \A p \in Processes, x \in BOOLEAN : [p EXCEPT !.swept = x] \in Processes
  BY Zenon DEF Processes

\* A process stays one with that it warms a pool set (serve).
LEMMA PutPool == \A p \in Processes, x \in BOOLEAN : [p EXCEPT !.pool = x] \in Processes
  BY Zenon DEF Processes

\* A process stays one with its audit writer set (serve).
LEMMA PutAudit ==
    \A p \in Processes, x \in {"none", "open", "closed"} : [p EXCEPT !.audit = x] \in Processes
  BY Zenon DEF Processes

\* A process stays one with its operator listener set (serve).
LEMMA PutOp ==
    \A p \in Processes, x \in {"unbound", "open", "closed"} : [p EXCEPT !.op = x] \in Processes
  BY Zenon DEF Processes

\* A process stays one with its gateway listener set (serve).
LEMMA PutGw ==
    \A p \in Processes, x \in {"unbound", "open", "closed"} : [p EXCEPT !.gw = x] \in Processes
  BY Zenon DEF Processes

\* A process stays one with its Serve loops set (serve).
LEMMA PutLoops ==
    \A p \in Processes, x \in [Plane -> LoopStates] : [p EXCEPT !.loops = x] \in Processes
  BY Zenon DEF Processes

\* A process stays one with what systemd was told set (serve).
LEMMA PutSystemd ==
    \A p \in Processes, x \in {"none", "READY", "STOPPING"} : [p EXCEPT !.systemd = x] \in Processes
  BY Zenon DEF Processes

\* A process stays one with its idle window set (serve).
LEMMA PutReaper == \A p \in Processes, x \in Nat : [p EXCEPT !.reaper = x] \in Processes
  BY Zenon DEF Processes

\* A process stays one with the loops drained set (serve).
LEMMA PutDrained == \A p \in Processes, x \in 0 .. 2 : [p EXCEPT !.drained = x] \in Processes
  BY Zenon DEF Processes

\* What the end of a process leaves of it.
LEMMA ExitedIs ==
    ASSUME NEW p \in Processes, NEW pc \in {"exited", "crashed"}, NEW why \in Reasons, NEW q,
           q = Exited(p, why, pc)
    PROVE  /\ q \in Processes /\ q.pc = pc /\ q.op = Shut(p.op) /\ q.op # "open" /\ q.gw # "open"
           /\ q.audit # "open" /\ q.loops["op"] = "idle" /\ q.loops["gw"] = "idle"
<1>1. pc \in Points
  BY Zenon DEF Points
<1>2. PICK x, y, z, l : /\ x = Shut(p.audit) /\ y = Shut(p.op) /\ z = Shut(p.gw)
                        /\ l = [m \in Plane |-> "idle"]
  BY Zenon
<1>3. /\ x \in {"none", "open", "closed"} /\ y \in {"unbound", "open", "closed"}
      /\ z \in {"unbound", "open", "closed"} /\ x # "open" /\ y # "open" /\ z # "open"
  BY <1>2, Zenon DEF Processes, Shut
<1>4. l \in [Plane -> LoopStates] /\ l["op"] = "idle" /\ l["gw"] = "idle"
  BY <1>2, Zenon DEF LoopStates, Plane
<1>5. q = [p EXCEPT !.pc = pc, !.why = why, !.audit = x, !.op = y, !.gw = z, !.loops = l]
  BY <1>2, Zenon DEF Exited
<1>6. q \in Processes
  <2>1. [p EXCEPT !.pc = pc, !.why = why] \in Processes
    BY <1>1, PutPc, PutWhy, Zenon
  <2>2. [p EXCEPT !.pc = pc, !.why = why, !.audit = x, !.op = y] \in Processes
    BY <1>3, <2>1, PutAudit, PutOp, Zenon
  <2>3. [p EXCEPT !.pc = pc, !.why = why, !.audit = x, !.op = y, !.gw = z] \in Processes
    BY <1>3, <2>2, PutGw, Zenon
  <2> QED
    BY <1>4, <1>5, <2>3, PutLoops, Zenon
<1>7. q.pc = pc /\ q.audit = x /\ q.op = y /\ q.gw = z /\ q.loops = l
  BY <1>5, Zenon DEF Processes
<1> QED
  BY <1>2, <1>3, <1>4, <1>6, <1>7, Zenon

\* A return before anything is bound leaves nothing (run, serve).
LEMMA ExitKeeps ==
    ASSUME HostInv, NEW d \in Daemons, Running(d), proc[d].op # "open",
           NEW why \in Reasons, Exit(d, why),
           UNCHANGED <<host, sockFile, units, signalled, probe>>, orphan' \in BOOLEAN
    PROVE  HostInv'
<1>1. /\ proc[d] \in Processes /\ Life(d, proc[d]) /\ units \subseteq Daemons /\ signalled \subseteq Daemons
      /\ \A e \in Daemons \ {d} : ~Running(e)
  BY RunsAlone, Zenon
<1>2. PICK q : q = Exited(proc[d], why, "exited")
  BY Zenon
<1>4. q \in Processes /\ q.pc = "exited" /\ q.op # "open" /\ q.gw # "open" /\ q.audit # "open"
      /\ q.loops["op"] = "idle" /\ q.loops["gw"] = "idle"
  BY <1>1, <1>2, ExitedIs
<1>5. proc' = [proc EXCEPT ![d] = q] /\ port' \in {port, Nothing} /\ port' # d
  BY <1>2, HostAssumption, Zenon DEF Exit, Update
<1>6. sockFile' # d
  BY <1>1, Zenon DEF Life, Owned, Running, Ended
<1>7. Life(d, q)'
  BY <1>4, <1>5, <1>6, Zenon DEF Life, Listeners, Posture, Swept, Owned, Later, Looping,
     Hooked
<1> QED
  BY <1>1, <1>4, <1>5, <1>7, OthersRest, Zenon

\* The points after the construction are points.
LEMMA PointNames ==
    {"parse", "create", "loaddeny", "reconcile", "warm", "bindop", "bindgw", "notify", "bootfail",
     "idle", "select", "closeop", "closegw", "drain", "exited", "crashed"} \subseteq Points
  BY Zenon DEF Points

\* A process that only moves on, or learns, keeps its endpoints and the host.
LEMMA MovesOn ==
    ASSUME HostInv, NEW d \in Daemons, Running(d), NEW q \in Processes, Update(d, q),
           UNCHANGED <<host, sockFile, port, units, orphan, signalled, probe>>,
           q.op = proc[d].op, q.gw = proc[d].gw, q.pc # "crashed",
           Listeners(q), Posture(q), Swept(d, q)
    PROVE  HostInv'
<1>1. /\ \A e \in Daemons \ {d} : ~Running(e)
      /\ Life(d, proc[d]) /\ units \subseteq Daemons /\ orphan \in BOOLEAN /\ signalled \subseteq Daemons
      /\ proc[d].pc # "crashed"
  BY RunsAlone, Zenon DEF Running, Ended
<1>2. Listeners(q)' /\ Posture(q)'
  BY Zenon DEF Listeners, Posture
<1>3. Swept(d, q)'
  BY Zenon DEF Swept, Fails
<1>4. Owned(d, q)'
  BY <1>1, Zenon DEF Life, Owned
<1>5. Life(d, q)'
  BY <1>2, <1>3, <1>4, Zenon DEF Life
<1> QED
  BY <1>1, <1>5, OthersRest, Zenon DEF Update

\* A process starts when no other runs.
LEMMA StartKeeps == ASSUME HostInv, NEW d \in Daemons, Start(d) PROVE HostInv'
<1>1. proc \in [Daemons -> Processes] /\ proc[d] \in Processes /\ Life(d, proc[d]) /\ ~host.overlap
      /\ units \subseteq Daemons /\ orphan \in BOOLEAN /\ signalled \subseteq Daemons
  BY Zenon DEF HostInv, DaemonType
<1>2. PICK q : q = Goes(d, "parse")
  BY Zenon
<1>3. q \in Processes
  BY <1>1, <1>2, PutPc, PointNames, Zenon DEF Goes
<1>4. /\ proc[d].pc = "off" /\ q.pc = "parse" /\ q.op = proc[d].op /\ q.gw = proc[d].gw
      /\ q.loops = proc[d].loops
  BY <1>1, <1>2, Zenon DEF Goes, Processes, Start, At
<1>5. Life(d, q)'
  BY <1>1, <1>4, Zenon DEF Start, Life, Listeners, Posture, Swept, Owned, Later,
     Looping, Hooked, Fails
<1> QED
  <2>1. \A e \in Daemons \ {d} : ~Running(e)
    BY <1>1, Zenon DEF Start
  <2>2. /\ proc' = [proc EXCEPT ![d] = q] /\ UNCHANGED <<host, probe>>
        /\ sockFile' = sockFile /\ port' = port /\ units' = units /\ orphan' = orphan
        /\ signalled' = signalled
    BY <1>2, Zenon DEF Start, Update
  <2> QED
    BY <1>1, <1>3, <1>5, <2>1, <2>2, OthersRest, Zenon

\* run: the flags are wrong and it returns, or serve begins.
LEMMA RunKeeps == ASSUME HostInv, NEW d \in Daemons, Run(d) PROVE HostInv'
<1>1. proc[d].pc = "parse" /\ Running(d)
  BY RunsAt, Zenon DEF Run, At
<1>2. proc[d] \in Processes /\ Life(d, proc[d]) /\ orphan \in BOOLEAN
  BY <1>1, RunsAlone, Zenon
<1>3. CASE Exit(d, "parse")
  BY <1>1, <1>2, <1>3, ExitKeeps, PointNames, Zenon DEF Run, Life, Listeners, Later,
     Reasons
<1>4. CASE Update(d, Goes(d, "store")) /\ UNCHANGED port
  <2>1. PICK q : q = Goes(d, "store")
    BY Zenon
  <2>2. "store" \in Points
    BY StagePoints DEF Stages
  <2>3. q \in Processes
    BY <1>2, <2>1, <2>2, PutPc, Zenon DEF Goes
  <2>4. q.pc = "store" /\ q.op = proc[d].op /\ q.gw = proc[d].gw /\ q.loops = proc[d].loops
    BY <1>2, <2>1, Zenon DEF Goes, Processes
  <2>5. Listeners(q) /\ Posture(q) /\ Swept(d, q) /\ q.pc # "crashed"
    BY <1>1, <1>2, <2>4, Zenon DEF Life, Listeners, Posture, Swept, Owned, Later,
       Looping, Hooked, Fails
  <2> QED
    BY <1>1, <1>4, <2>1, <2>3, <2>4, <2>5, MovesOn, Zenon DEF Run
<1> QED
  BY <1>3, <1>4, Zenon DEF Run

\* A construction step returns, or goes to the next (serve).
LEMMA ConstructKeeps == ASSUME HostInv, NEW d \in Daemons, Construct(d) PROVE HostInv'
<1>1. PICK i \in 1 .. Len(Stages) :
        /\ proc[d].pc = Stages[i]
        /\ \/ Update(d, Built(d, i)) /\ UNCHANGED port
           \/ Exit(d, Stages[i])
  BY Zenon DEF Construct, At
<1>2. /\ Stages[i] \in Points /\ Len(Stages) = 14
      /\ Stages[i] \notin {"off", "loaddeny", "reconcile", "warm"} \cup Hooked \cup Later
  BY StagePoints, Zenon
<1>3. Running(d)
  BY <1>1, <1>2, RunsAt, Zenon DEF Later
<1>4. proc[d] \in Processes /\ Life(d, proc[d]) /\ orphan \in BOOLEAN
  BY <1>3, RunsAlone, Zenon
<1>5. CASE Exit(d, Stages[i])
  BY <1>1, <1>2, <1>3, <1>4, <1>5, ExitKeeps, Zenon DEF Construct, Life, Listeners,
     Reasons
<1>6. CASE Update(d, Built(d, i)) /\ UNCHANGED port
  <2>1. PICK q : q = Built(d, i)
    BY Zenon
  <2>2. PICK x, y, z :
          /\ x = CASE Stages[i] = "store" /\ host.cfg.create -> "create"
                   [] i = Len(Stages) -> "loaddeny"
                   [] OTHER -> Stages[i + 1]
          /\ y = IF Stages[i] = "audit" THEN "open" ELSE proc[d].audit
          /\ z = (proc[d].pool \/ (Stages[i] = "compose" /\ host.cfg.warm > 0
                                     /\ host.cfg.provider = "docker"))
    BY Zenon
  <2>3. x \in Points /\ x \notin {"off", "reconcile", "warm"} \cup Hooked \cup Later
    <3>1. i # Len(Stages) => i + 1 \in 1 .. Len(Stages)
      BY <1>2
    <3> QED
      BY <2>2, <3>1, StagePoints, PointNames, Zenon DEF Hooked, Later
  <2>4. y \in {"none", "open", "closed"} /\ z \in BOOLEAN
    BY <1>4, <2>2, Zenon DEF Processes
  <2>5. q = [proc[d] EXCEPT !.pc = x, !.audit = y, !.pool = z]
    BY <2>1, <2>2, Zenon DEF Built
  <2>6. q \in Processes
    <3>1. [proc[d] EXCEPT !.pc = x, !.audit = y] \in Processes
      BY <1>4, <2>3, <2>4, PutPc, PutAudit, Zenon
    <3> QED
      BY <2>4, <2>5, <3>1, PutPool, Zenon
  <2>7. q.pc = x /\ q.op = proc[d].op /\ q.gw = proc[d].gw /\ q.loops = proc[d].loops
    BY <1>4, <2>5, Zenon DEF Processes
  <2>8. Listeners(q) /\ Posture(q) /\ Swept(d, q) /\ q.pc # "crashed"
    BY <1>1, <1>2, <1>4, <2>3, <2>7, Zenon DEF Life, Listeners, Posture, Swept, Owned,
       Later, Looping, Hooked, Fails
  <2> QED
    BY <1>3, <1>6, <2>1, <2>6, <2>7, <2>8, MovesOn, Zenon DEF Construct
<1> QED
  BY <1>1, <1>5, <1>6, Zenon

\* A create at the start returns, whatever it was answered (serveCreateOnStart).
LEMMA CreateOnStartKeeps == ASSUME HostInv, NEW d \in Daemons, ServeCreateOnStart(d) PROVE HostInv'
<1>1. proc[d].pc = "create" /\ Running(d)
  BY RunsAt, Zenon DEF ServeCreateOnStart, At
<1>2. proc[d] \in Processes /\ Life(d, proc[d]) /\ orphan \in BOOLEAN
  BY <1>1, RunsAlone, Zenon
<1>3. PICK why \in Reasons : Exit(d, why)
  BY PointNames, Zenon DEF ServeCreateOnStart, Reasons
<1>4. orphan' \in BOOLEAN
  BY <1>2, Zenon DEF ServeCreateOnStart
<1>5. proc[d].op # "open"
  BY <1>1, <1>2, Zenon DEF Life, Listeners, Later
<1> QED
  BY <1>1, <1>3, <1>4, <1>5, ExitKeeps, Zenon DEF ServeCreateOnStart

\* The posture is read or the boot fails (Boot).
LEMMA BootKeeps == ASSUME HostInv, NEW d \in Daemons, Boot(d) PROVE HostInv'
<1>1. proc[d].pc = "loaddeny" /\ Running(d)
  BY RunsAt, Zenon DEF Boot, At
<1>2. proc[d] \in Processes /\ Life(d, proc[d])
  BY <1>1, RunsAlone, Zenon
<1>3. PICK failed \in BOOLEAN :
        Update(d, [Loaded(proc[d], failed) EXCEPT
                      !.pc = IF failed THEN "bootfail" ELSE "reconcile"])
  BY Zenon DEF Boot, Outcomes, Fails
<1>4. PICK x, y, q :
        /\ x = IF failed THEN "storeUnavailable" ELSE "ready"
        /\ y = IF failed THEN "bootfail" ELSE "reconcile"
        /\ q = [proc[d] EXCEPT !.ready = x, !.pc = y]
  BY Zenon
<1>5. Update(d, q)
  BY <1>3, <1>4, Zenon DEF Loaded
<1>6. /\ x \in {"notLoaded", "ready", "storeUnavailable"} /\ y \in Points
      /\ y = "bootfail" \/ (y = "reconcile" /\ x = "ready")
  BY <1>4, PointNames, Zenon
<1>7. q \in Processes
  BY <1>2, <1>4, <1>6, PutReady, PutPc, Zenon
<1>8. /\ q.pc = y /\ q.ready = x /\ q.op = proc[d].op /\ q.gw = proc[d].gw
      /\ q.loops = proc[d].loops
  BY <1>2, <1>4, Zenon DEF Processes
<1>9. Listeners(q) /\ Posture(q) /\ Swept(d, q) /\ q.pc # "crashed"
  BY <1>1, <1>2, <1>6, <1>8, Zenon DEF Life, Listeners, Posture, Swept, Owned, Later,
     Looping, Hooked, Fails
<1> QED
  BY <1>1, <1>5, <1>7, <1>8, <1>9, MovesOn, Zenon DEF Boot

\* The sweep clears what earlier processes left, or the boot fails (Reconcile).
LEMMA ReconcileKeeps == ASSUME HostInv, NEW d \in Daemons, Reconcile(d) PROVE HostInv'
<1>1. proc[d].pc = "reconcile" /\ Running(d)
  BY RunsAt, Zenon DEF Reconcile, At
<1>2. /\ proc[d] \in Processes /\ Life(d, proc[d]) /\ \A e \in Daemons \ {d} : ~Running(e)
      /\ units \subseteq Daemons /\ orphan \in BOOLEAN /\ signalled \subseteq Daemons
  BY <1>1, RunsAlone, Zenon
<1>3. CASE Update(d, Goes(d, "bootfail")) /\ UNCHANGED <<units, orphan>>
  <2>1. PICK q : q = Goes(d, "bootfail")
    BY Zenon
  <2>2. q \in Processes
    BY <1>2, <2>1, PutPc, PointNames, Zenon DEF Goes
  <2>3. q.pc = "bootfail" /\ q.op = proc[d].op /\ q.gw = proc[d].gw /\ q.loops = proc[d].loops
    BY <1>2, <2>1, Zenon DEF Goes, Processes
  <2>4. Listeners(q) /\ Posture(q) /\ Swept(d, q) /\ q.pc # "crashed"
    BY <1>1, <1>2, <2>3, Zenon DEF Life, Listeners, Posture, Swept, Owned, Later,
       Looping, Hooked, Fails
  <2> QED
    BY <1>1, <1>3, <2>1, <2>2, <2>3, <2>4, MovesOn, Zenon DEF Reconcile
<1>4. CASE /\ Update(d, [Goes(d, "warm") EXCEPT !.swept = TRUE])
           /\ units' = IF Fails(d, "enumeration") THEN units ELSE {}
           /\ orphan' = (orphan /\ Fails(d, "enumeration"))
  <2>1. PICK q : q = [proc[d] EXCEPT !.pc = "warm", !.swept = TRUE]
    BY Zenon
  <2>2. q \in Processes
    BY <1>2, <2>1, PutPc, PutSwept, PointNames, Zenon
  <2>3. /\ q.pc = "warm" /\ q.swept /\ q.op = proc[d].op /\ q.gw = proc[d].gw
        /\ q.loops = proc[d].loops /\ q.ready = proc[d].ready
    BY <1>2, <2>1, Zenon DEF Processes
  <2>4. UNCHANGED <<host, sockFile, port, signalled, probe>>
    BY Zenon DEF Reconcile
  <2>5. Life(d, q)'
    <3>1. ASSUME host.fault[d] # "enumeration" PROVE units' = {} /\ ~orphan'
      BY <1>4, <3>1, Zenon DEF Fails
    <3>2. q.pc \notin Hooked /\ host' = host
      BY <2>3, <2>4, Zenon DEF Hooked
    <3>3. Swept(d, q)'
      BY <3>1, <3>2, Zenon DEF Swept, Fails
    <3>4. Listeners(q)' /\ Posture(q)' /\ Owned(d, q)'
      BY <1>1, <1>2, <2>3, <2>4, Zenon DEF Life, Listeners, Posture, Owned, Later,
         Looping, Hooked
    <3> QED
      BY <3>3, <3>4, Zenon DEF Life
  <2>6. units' \subseteq Daemons /\ orphan' \in BOOLEAN
    BY <1>2, <1>4, Zenon
  <2> QED
    BY <1>2, <1>4, <2>1, <2>2, <2>4, <2>5, <2>6, OthersRest, Zenon DEF Update, Goes
<1> QED
  BY <1>3, <1>4, Zenon DEF Reconcile

\* The pool is warmed after the sweep (Warm).
LEMMA WarmKeeps == ASSUME HostInv, NEW d \in Daemons, Warm(d) PROVE HostInv'
<1>1. proc[d].pc = "warm" /\ Running(d)
  BY RunsAt, Zenon DEF Warm, At
<1>2. /\ proc[d] \in Processes /\ Life(d, proc[d]) /\ \A e \in Daemons \ {d} : ~Running(e)
      /\ units \subseteq Daemons /\ orphan \in BOOLEAN /\ signalled \subseteq Daemons
  BY <1>1, RunsAlone, Zenon
<1>3. PICK q : q = Goes(d, "bindop")
  BY Zenon
<1>4. q \in Processes
  BY <1>2, <1>3, PutPc, PointNames, Zenon DEF Goes
<1>5. /\ q.pc = "bindop" /\ q.swept = proc[d].swept /\ q.op = proc[d].op /\ q.gw = proc[d].gw
      /\ q.loops = proc[d].loops /\ q.ready = proc[d].ready /\ q.pool = proc[d].pool
  BY <1>2, <1>3, Zenon DEF Processes, Goes
<1>6. /\ UNCHANGED <<host, sockFile, port, orphan, signalled, probe>>
      /\ units' = IF proc[d].pool THEN units \cup {d} ELSE units
      /\ proc' = [proc EXCEPT ![d] = q]
  BY <1>3, Zenon DEF Warm, Update
<1>7. Life(d, q)'
  BY <1>1, <1>2, <1>5, <1>6, Zenon DEF Life, Listeners, Posture, Swept, Owned, Later,
     Looping, Hooked, Fails
<1>8. units' \subseteq Daemons
  BY <1>2, <1>6, Zenon
<1> QED
  BY <1>2, <1>4, <1>6, <1>7, <1>8, OthersRest, Zenon

\* The operator socket replaces a stale one, or the boot fails (Bind,
\* removeStaleSocket).
LEMMA BindOperatorKeeps == ASSUME HostInv, NEW d \in Daemons, BindOperator(d) PROVE HostInv'
<1>1. proc[d].pc = "bindop" /\ Running(d)
  BY RunsAt, Zenon DEF BindOperator, At
<1>2. /\ proc[d] \in Processes /\ Life(d, proc[d]) /\ \A e \in Daemons \ {d} : ~Running(e)
      /\ units \subseteq Daemons /\ orphan \in BOOLEAN /\ signalled \subseteq Daemons
  BY <1>1, RunsAlone, Zenon
<1>3. UNCHANGED <<host, port, units, orphan, signalled, probe>>
  BY Zenon DEF BindOperator
<1>4. CASE Update(d, [Goes(d, "bindgw") EXCEPT !.op = "open"]) /\ sockFile' = d
  <2>1. PICK q : q = [proc[d] EXCEPT !.pc = "bindgw", !.op = "open"]
    BY Zenon
  <2>2. q \in Processes
    BY <1>2, <2>1, PutPc, PutOp, PointNames, Zenon
  <2>3. /\ q.pc = "bindgw" /\ q.swept = proc[d].swept /\ q.op = "open" /\ q.gw = proc[d].gw
        /\ q.loops = proc[d].loops /\ q.ready = proc[d].ready /\ q.pool = proc[d].pool
    BY <1>2, <2>1, Zenon DEF Processes
  <2>4. Life(d, q)'
    BY <1>1, <1>2, <1>3, <1>4, <2>3, Zenon DEF Life, Listeners, Posture, Swept, Owned,
       Later, Looping, Hooked, Fails
  <2> QED
    BY <1>2, <1>3, <1>4, <2>1, <2>2, <2>4, OthersRest, Zenon DEF Update, Goes
<1>5. CASE Update(d, Goes(d, "bootfail")) /\ sockFile' = RemoveStaleSocket.file
  <2>1. PICK q : q = Goes(d, "bootfail")
    BY Zenon
  <2>2. q \in Processes
    BY <1>2, <2>1, PutPc, PointNames, Zenon DEF Goes
  <2>3. q.pc = "bootfail" /\ q.op = proc[d].op /\ q.gw = proc[d].gw /\ q.loops = proc[d].loops
    BY <1>2, <2>1, Zenon DEF Goes, Processes
  <2>4. sockFile' \in {sockFile, Nothing} /\ sockFile' # d
    BY <1>5, HostAssumption, Zenon DEF RemoveStaleSocket
  <2>5. Life(d, q)'
    BY <1>1, <1>2, <1>3, <2>3, <2>4 DEF Life, Listeners, Posture, Swept, Owned, Later, Looping, Hooked, Fails
  <2> QED
    BY <1>2, <1>3, <1>5, <2>1, <2>2, <2>4, <2>5, OthersRest, Zenon DEF Update
<1> QED
  BY <1>4, <1>5, Zenon DEF BindOperator

\* A listener that is closed leaves the path and the port (Close).
LEMMA ClosesKeep ==
    ASSUME HostInv, NEW d \in Daemons, Running(d), NEW q \in Processes, Update(d, q),
           UNCHANGED <<host, units, orphan, signalled, probe>>,
           sockFile' \in {sockFile, Nothing}, port' \in {port, Nothing}, q.pc # "crashed",
           q.op = "open" => sockFile' = d, q.gw = "open" => port' = d,
           sockFile' = d => q.op = "open", port' = d => q.gw = "open",
           Listeners(q), Posture(q), Swept(d, q)
    PROVE  HostInv'
<1>1. /\ \A e \in Daemons \ {d} : ~Running(e)
      /\ units \subseteq Daemons /\ orphan \in BOOLEAN /\ signalled \subseteq Daemons
  BY RunsAlone, Zenon
<1>2. Listeners(q)' /\ Posture(q)'
  BY Zenon DEF Listeners, Posture
<1>3. Swept(d, q)'
  BY Zenon DEF Swept, Fails
<1>4. Life(d, q)'
  BY <1>2, <1>3, Zenon DEF Life, Owned
<1> QED
  BY <1>1, <1>4, OthersRest, Zenon DEF Update

\* A return that closes both listeners leaves nothing (serve, Close).
LEMMA ClosedExitKeeps ==
    ASSUME HostInv, NEW d \in Daemons, Running(d), NEW why \in Reasons,
           OperatorClose(d, Exited(proc[d], why, "exited")),
           port' = IF port = d THEN Nothing ELSE port,
           UNCHANGED <<host, units, orphan, signalled, probe>>
    PROVE  HostInv'
<1>1. proc[d] \in Processes /\ Life(d, proc[d])
  BY RunsAlone, Zenon
<1>2. PICK e : e = Exited(proc[d], why, "exited")
  BY Zenon
<1>3. /\ e \in Processes /\ e.pc = "exited" /\ e.op = Shut(proc[d].op) /\ e.op # "open"
      /\ e.gw # "open" /\ e.audit # "open" /\ e.loops["op"] = "idle" /\ e.loops["gw"] = "idle"
  BY <1>1, <1>2, ExitedIs
<1>4. PICK y, q : y = Shut(e.op) /\ q = [e EXCEPT !.op = y]
  BY Zenon
<1>5. y \in {"unbound", "open", "closed"} /\ y # "open"
  BY <1>3, <1>4, Zenon DEF Shut, Processes
<1>6. q \in Processes
  BY <1>3, <1>4, <1>5, PutOp, Zenon
<1>7. /\ q.pc = "exited" /\ q.op # "open" /\ q.gw # "open" /\ q.audit # "open"
      /\ q.loops["op"] = "idle" /\ q.loops["gw"] = "idle"
  BY <1>3, <1>4, <1>5, Zenon DEF Processes
<1>8. Update(d, q) /\ sockFile' = IF e.op = "unbound" THEN sockFile ELSE Nothing
  BY <1>2, <1>4, Zenon DEF OperatorClose
<1>9. sockFile' \in {sockFile, Nothing} /\ sockFile' # d /\ port' \in {port, Nothing} /\ port' # d
  BY <1>1, <1>3, <1>8, HostAssumption, Zenon DEF Life, Owned, Shut, Running, Ended
<1>10. Listeners(q) /\ Posture(q) /\ Swept(d, q) /\ q.pc # "crashed"
  BY <1>7, Zenon DEF Listeners, Posture, Swept, Later, Looping, Hooked
<1> QED
  BY <1>6, <1>7, <1>8, <1>9, <1>10, ClosesKeep, Zenon

\* The gateway is bound last; when it cannot be, the operator socket is closed
\* again (Bind).
LEMMA BindGatewayKeeps == ASSUME HostInv, NEW d \in Daemons, BindGateway(d) PROVE HostInv'
<1>1. proc[d].pc = "bindgw" /\ Running(d)
  BY RunsAt, Zenon DEF BindGateway, At
<1>2. /\ proc[d] \in Processes /\ Life(d, proc[d]) /\ \A e \in Daemons \ {d} : ~Running(e)
      /\ units \subseteq Daemons /\ orphan \in BOOLEAN /\ signalled \subseteq Daemons
  BY <1>1, RunsAlone, Zenon
<1>3. UNCHANGED <<host, units, orphan, signalled, probe>>
  BY Zenon DEF BindGateway
<1>4. CASE /\ Update(d, [Goes(d, "notify") EXCEPT !.gw = "open"]) /\ port' = d /\ UNCHANGED sockFile
  <2>1. PICK q : q = [proc[d] EXCEPT !.pc = "notify", !.gw = "open"]
    BY Zenon
  <2>2. q \in Processes
    BY <1>2, <2>1, PutPc, PutGw, PointNames, Zenon
  <2>3. /\ q.pc = "notify" /\ q.swept = proc[d].swept /\ q.op = proc[d].op /\ q.gw = "open"
        /\ q.loops = proc[d].loops /\ q.ready = proc[d].ready /\ q.pool = proc[d].pool
    BY <1>2, <2>1, Zenon DEF Processes
  <2>4. Life(d, q)'
    BY <1>1, <1>2, <1>3, <1>4, <2>3 DEF Life, Listeners, Posture, Swept, Owned, Later, Looping, Hooked, Fails
  <2> QED
    BY <1>2, <1>3, <1>4, <2>1, <2>2, <2>4, OthersRest, Zenon DEF Update, Goes
<1>5. CASE OperatorClose(d, Goes(d, "bootfail")) /\ UNCHANGED port
  <2>1. PICK y, q : y = Shut(proc[d].op) /\ q = [proc[d] EXCEPT !.pc = "bootfail", !.op = y]
    BY Zenon
  <2>2. y = "closed" /\ proc[d].op = "open"
    BY <1>1, <1>2, <2>1, Zenon DEF Life, Listeners, Shut
  <2>3. q \in Processes
    BY <1>2, <2>1, <2>2, PutPc, PutOp, PointNames, Zenon
  <2>4. /\ q.pc = "bootfail" /\ q.op = "closed" /\ q.gw = proc[d].gw /\ q.loops = proc[d].loops
    BY <1>2, <2>1, <2>2, Zenon DEF Processes
  <2>5. PICK g : g = Goes(d, "bootfail") /\ g.op = "open"
    <3>1. Goes(d, "bootfail").op = "open"
      BY <1>2, <2>2, Zenon DEF Processes, Goes
    <3> QED
      BY <3>1, Zenon
  <2>6. Update(d, q) /\ sockFile' = Nothing
    <3>1. Update(d, [g EXCEPT !.op = Shut(g.op)])
          /\ sockFile' = IF g.op = "unbound" THEN sockFile ELSE Nothing
      BY <1>5, <2>5, Zenon DEF OperatorClose
    <3>2. q = [g EXCEPT !.op = Shut(g.op)]
      BY <2>1, <2>2, <2>5, Zenon DEF Goes
    <3> QED
      BY <2>5, <3>1, <3>2, Zenon
  <2>7. Listeners(q) /\ Posture(q) /\ Swept(d, q) /\ q.pc # "crashed"
    BY <1>1, <1>2, <2>4, Zenon DEF Life, Listeners, Posture, Swept, Owned, Later,
       Looping, Hooked, Fails
  <2>8. port # d /\ Nothing # d
    BY <1>1, <1>2, HostAssumption, Zenon DEF Life, Listeners, Owned
  <2> QED
    <3>1. /\ sockFile' \in {sockFile, Nothing} /\ port' \in {port, Nothing} /\ sockFile' # d
          /\ port' # d /\ q.op # "open" /\ q.gw # "open"
      BY <1>1, <1>2, <1>5, <2>4, <2>6, <2>8 DEF Life, Listeners
    <3> QED
      BY <1>1, <1>3, <2>3, <2>6, <2>7, <3>1, ClosesKeep, Zenon
<1> QED
  BY <1>4, <1>5, Zenon DEF BindGateway

\* systemd is told and the hook is over (notifyReady).
LEMMA NotifyKeeps == ASSUME HostInv, NEW d \in Daemons, NotifyReady(d) PROVE HostInv'
<1>1. proc[d].pc = "notify" /\ Running(d)
  BY RunsAt, Zenon DEF NotifyReady, At
<1>2. /\ proc[d] \in Processes /\ Life(d, proc[d]) /\ \A e \in Daemons \ {d} : ~Running(e)
      /\ units \subseteq Daemons /\ orphan \in BOOLEAN /\ signalled \subseteq Daemons
  BY <1>1, RunsAlone, Zenon
<1>3. PICK x, q : /\ x = IF host.systemd THEN "READY" ELSE proc[d].systemd
                  /\ q = [proc[d] EXCEPT !.pc = "idle", !.systemd = x]
  BY Zenon
<1>4. x \in {"none", "READY", "STOPPING"} /\ (host.systemd => x # "none")
  BY <1>2, <1>3, Zenon DEF Processes
<1>5. q \in Processes
  BY <1>2, <1>3, <1>4, PutPc, PutSystemd, PointNames, Zenon
<1>6. /\ q.pc = "idle" /\ q.swept = proc[d].swept /\ q.op = proc[d].op /\ q.gw = proc[d].gw
      /\ q.loops = proc[d].loops /\ q.ready = proc[d].ready /\ q.pool = proc[d].pool
      /\ q.systemd = x
  BY <1>2, <1>3, Zenon DEF Processes
<1>7. Goes(d, "idle").systemd = proc[d].systemd
  BY <1>2, Zenon DEF Processes, Goes
<1>8. Update(d, q)
  BY <1>3, <1>7, Zenon DEF NotifyReady, Goes
<1>9. Listeners(q) /\ Posture(q) /\ Swept(d, q) /\ q.pc # "crashed"
  BY <1>1, <1>2, <1>4, <1>6, Zenon DEF Life, Listeners, Posture, Swept, Owned, Later,
     Looping, Hooked, Fails
<1> QED
  BY <1>1, <1>5, <1>6, <1>8, <1>9, MovesOn, Zenon DEF NotifyReady

\* A failed boot closes both listeners and returns (serve).
LEMMA BootFailedKeeps == ASSUME HostInv, NEW d \in Daemons, BootFailed(d) PROVE HostInv'
<1>1. proc[d].pc = "bootfail" /\ Running(d)
  BY RunsAt, Zenon DEF BootFailed, At
<1> QED
  BY <1>1, ClosedExitKeeps, PointNames, Zenon DEF BootFailed, Reasons

\* Both Serve loops start, or serve returns (serveListeners).
LEMMA StartServingKeeps == ASSUME HostInv, NEW d \in Daemons, StartServing(d) PROVE HostInv'
<1>1. proc[d].pc = "idle" /\ Running(d)
  BY RunsAt, Zenon DEF StartServing, At
<1>2. /\ proc[d] \in Processes /\ Life(d, proc[d]) /\ \A e \in Daemons \ {d} : ~Running(e)
      /\ units \subseteq Daemons /\ orphan \in BOOLEAN /\ signalled \subseteq Daemons
  BY <1>1, RunsAlone, Zenon
<1>3. CASE OperatorClose(d, Exited(proc[d], "idle", "exited"))
           /\ port' = IF port = d THEN Nothing ELSE port
  BY <1>1, <1>3, ClosedExitKeeps, PointNames, Zenon DEF StartServing, Reasons
<1>4. CASE ResolveIdleTTL(host.cfg).ok
  <2>1. PICK t, l, q :
          /\ t = ResolveIdleTTL(host.cfg).ttl /\ l = [m \in Plane |-> "run"]
          /\ q = [proc[d] EXCEPT !.pc = "select", !.reaper = t, !.loops = l]
    BY Zenon
  <2>2. host.cfg.idle \in Int /\ host.cfg.full \in BOOLEAN
    BY <1>1, RunsAlone, HostAssumption, Zenon
  <2>3. t \in Nat
    <3>1. host.cfg.idle >= 0 /\ t \in {15, host.cfg.idle}
      BY <1>4, <2>1, Zenon DEF ResolveIdleTTL, SessionIdleCeiling
    <3> QED
      BY <2>2, <3>1
  <2>4. l \in [Plane -> LoopStates] /\ l["op"] = "run" /\ l["gw"] = "run"
    BY <2>1, Zenon DEF LoopStates, Plane
  <2>5. q \in Processes
    <3>1. [proc[d] EXCEPT !.pc = "select", !.reaper = t] \in Processes
      BY <1>2, <2>3, PutPc, PutReaper, PointNames, Zenon
    <3> QED
      BY <2>1, <2>4, <3>1, PutLoops, Zenon
  <2>6. /\ q.pc = "select" /\ q.swept = proc[d].swept /\ q.op = proc[d].op /\ q.gw = proc[d].gw
        /\ q.loops = l /\ q.ready = proc[d].ready /\ q.pool = proc[d].pool
        /\ q.systemd = proc[d].systemd
    BY <1>2, <2>1, Zenon DEF Processes
  <2>7. Update(d, q) /\ UNCHANGED <<host, sockFile, port, units, orphan, signalled, probe>>
    BY <1>4, <2>1, Zenon DEF StartServing, Goes
  <2>8. Listeners(q) /\ Posture(q) /\ Swept(d, q) /\ q.pc # "crashed"
    BY <1>1, <1>2, <2>4, <2>6 DEF Life, Listeners, Posture, Swept, Owned, Later, Looping, Hooked, Fails
  <2> QED
    BY <1>1, <2>5, <2>6, <2>7, <2>8, MovesOn, Zenon
<1> QED
  BY <1>3, <1>4, Zenon DEF StartServing

\* The select leaves for the close, on a signal or on the first loop to return
\* (serveListeners).
LEMMA SelectKeeps ==
    ASSUME HostInv, NEW d \in Daemons, SelectSignal(d) \/ SelectReturn(d) PROVE HostInv'
<1>0. proc[d].pc = "select"
  BY Zenon DEF SelectSignal, SelectReturn, At
<1>1. proc[d].pc = "select" /\ Running(d)
  BY <1>0, RunsAt, Zenon
<1>2. /\ proc[d] \in Processes /\ Life(d, proc[d]) /\ \A e \in Daemons \ {d} : ~Running(e)
      /\ units \subseteq Daemons /\ orphan \in BOOLEAN /\ signalled \subseteq Daemons
  BY <1>1, RunsAlone, Zenon
<1>3. UNCHANGED <<host, sockFile, port, units, orphan, signalled, probe>>
  BY Zenon DEF SelectSignal, SelectReturn
<1>4. PICK q \in Processes :
        /\ Update(d, q) /\ q.pc = "closeop" /\ q.swept = proc[d].swept /\ q.op = proc[d].op
        /\ q.gw = proc[d].gw /\ q.ready = proc[d].ready /\ q.pool = proc[d].pool
        /\ q.systemd = proc[d].systemd \/ q.systemd # "none"
  <2>1. CASE SelectSignal(d)
    <3>1. PICK x, q : /\ x = IF host.systemd THEN "STOPPING" ELSE proc[d].systemd
                      /\ q = [proc[d] EXCEPT !.pc = "closeop", !.systemd = x]
      BY Zenon
    <3>2. x \in {"none", "READY", "STOPPING"} /\ x \in {"STOPPING", proc[d].systemd}
      BY <1>2, <3>1, Zenon DEF Processes
    <3>3. q \in Processes
      BY <1>2, <3>1, <3>2, PutPc, PutSystemd, PointNames, Zenon
    <3>4. /\ q.pc = "closeop" /\ q.swept = proc[d].swept /\ q.op = proc[d].op
          /\ q.gw = proc[d].gw /\ q.ready = proc[d].ready /\ q.pool = proc[d].pool
          /\ q.systemd = x
      BY <1>2, <3>1, Zenon DEF Processes
    <3>5. Goes(d, "closeop").systemd = proc[d].systemd
      BY <1>2, Zenon DEF Processes, Goes
    <3>6. Update(d, q)
      BY <2>1, <3>1, <3>5, Zenon DEF SelectSignal, Goes
    <3> QED
      BY <3>2, <3>3, <3>4, <3>6, Zenon
  <2>2. CASE SelectReturn(d)
    <3>1. PICK l \in Plane :
            Update(d, [proc[d] EXCEPT !.pc = "closeop", !.drained = 1, !.loops[l] = "drained"])
      BY <2>2, Zenon DEF SelectReturn, Returned, Goes
    <3>2. PICK a, m, q :
            /\ a = [proc[d] EXCEPT !.pc = "closeop", !.drained = 1]
            /\ m = [a.loops EXCEPT ![l] = "drained"] /\ q = [a EXCEPT !.loops = m]
      BY Zenon
    <3>3. a \in Processes
      <4>1. 1 \in 0 .. 2
        OBVIOUS
      <4> QED
        BY <1>2, <3>2, <4>1, PutPc, PutDrained, PointNames, Zenon
    <3>4. m \in [Plane -> LoopStates]
      <4>1. a.loops \in [Plane -> LoopStates] /\ "drained" \in LoopStates
        BY <3>3, Zenon DEF Processes, LoopStates
      <4> QED
        BY <3>1, <3>2, <4>1, Zenon
    <3>5. q \in Processes
      BY <3>2, <3>3, <3>4, PutLoops, Zenon
    <3>6. /\ q.pc = "closeop" /\ q.swept = proc[d].swept /\ q.op = proc[d].op
          /\ q.gw = proc[d].gw /\ q.ready = proc[d].ready /\ q.pool = proc[d].pool
          /\ q.systemd = proc[d].systemd
      BY <1>2, <3>2, Zenon DEF Processes
    <3>7. Update(d, q)
      BY <3>1, <3>2, Zenon
    <3> QED
      BY <3>5, <3>6, <3>7, Zenon
  <2> QED
    BY <2>1, <2>2, Zenon
<1>5. Listeners(q) /\ Posture(q) /\ Swept(d, q) /\ q.pc # "crashed"
  BY <1>1, <1>2, <1>4, Zenon DEF Life, Listeners, Posture, Swept, Owned, Later, Looping,
     Hooked, Fails
<1> QED
  BY <1>1, <1>3, <1>4, <1>5, MovesOn, Zenon

\* A Serve loop that returns closes its listener, and a closed unix listener
\* unlinks its path (Serve).
LEMMA LoopReturnsKeeps ==
    ASSUME HostInv, NEW d \in Daemons, NEW l \in Plane, LoopReturns(d, l) PROVE HostInv'
<1>1. proc[d].pc \in Looping /\ Running(d)
  <2>1. proc[d].loops[l] = "run" /\ l \in {"op", "gw"}
    BY Zenon DEF LoopReturns, Plane
  <2>2. Life(d, proc[d])
    BY Zenon DEF HostInv
  <2>3. proc[d].pc \in Looping
    BY <2>1, <2>2, Zenon DEF Life, Listeners
  <2> QED
    BY <2>3, RunsAt, Zenon DEF Looping
<1>2. /\ proc[d] \in Processes /\ Life(d, proc[d]) /\ \A e \in Daemons \ {d} : ~Running(e)
      /\ units \subseteq Daemons /\ orphan \in BOOLEAN /\ signalled \subseteq Daemons
  BY <1>1, RunsAlone, Zenon
<1>3. /\ UNCHANGED <<host, units, orphan, signalled, probe>>
      /\ Update(d, [proc[d] EXCEPT ![l] = "closed", !.loops[l] = "returned"])
      /\ sockFile' = IF l = "op" /\ proc[d].op = "open" THEN Nothing ELSE sockFile
      /\ port' = IF l = "gw" /\ port = d THEN Nothing ELSE port
  BY Zenon DEF LoopReturns
<1>4. CASE l = "op"
  <2>1. PICK a, m, q :
          /\ a = [proc[d] EXCEPT !.op = "closed"]
          /\ m = [a.loops EXCEPT !["op"] = "returned"] /\ q = [a EXCEPT !.loops = m]
    BY Zenon
  <2>2. a \in Processes
    BY <1>2, <2>1, PutOp, Zenon
  <2>3. a.loops \in [Plane -> LoopStates] /\ "returned" \in LoopStates /\ a.loops = proc[d].loops
    BY <1>2, <2>1, <2>2, Zenon DEF Processes, LoopStates
  <2>4. m \in [Plane -> LoopStates] /\ m["op"] = "returned" /\ m["gw"] = proc[d].loops["gw"]
    BY <2>1, <2>3, Zenon DEF Plane
  <2>5. q \in Processes
    BY <2>1, <2>2, <2>4, PutLoops, Zenon
  <2>6. /\ q.pc = proc[d].pc /\ q.swept = proc[d].swept /\ q.op = "closed" /\ q.gw = proc[d].gw
        /\ q.loops = m /\ q.ready = proc[d].ready /\ q.pool = proc[d].pool
        /\ q.systemd = proc[d].systemd
    BY <1>2, <2>1, Zenon DEF Processes
  <2>7. Update(d, q)
    BY <1>3, <1>4, <2>1, Zenon
  <2>8. Listeners(q) /\ Posture(q) /\ Swept(d, q) /\ q.pc # "crashed"
    BY <1>1, <1>2, <2>4, <2>6 DEF Life, Listeners, Posture, Swept, Owned, Later, Looping, Hooked, Fails
  <2>9. /\ sockFile' \in {sockFile, Nothing} /\ sockFile' # d /\ port' = port
        /\ q.op # "open" /\ (q.gw = "open" <=> port = d)
    <3>1. sockFile' = (IF proc[d].op = "open" THEN Nothing ELSE sockFile) /\ port' = port
      BY <1>3, <1>4, Zenon
    <3>2. Owned(d, proc[d]) /\ proc[d].pc # "crashed" /\ d # Nothing
      BY <1>1, <1>2, HostAssumption, Zenon DEF Life, Looping
    <3> QED
      BY <2>6, <3>1, <3>2 DEF Owned
  <2> QED
    BY <1>1, <1>3, <2>5, <2>7, <2>8, <2>9, ClosesKeep, Zenon
<1>5. CASE l = "gw"
  <2>1. PICK a, m, q :
          /\ a = [proc[d] EXCEPT !.gw = "closed"]
          /\ m = [a.loops EXCEPT !["gw"] = "returned"] /\ q = [a EXCEPT !.loops = m]
    BY Zenon
  <2>2. a \in Processes
    BY <1>2, <2>1, PutGw, Zenon
  <2>3. a.loops \in [Plane -> LoopStates] /\ "returned" \in LoopStates /\ a.loops = proc[d].loops
    BY <1>2, <2>1, <2>2, Zenon DEF Processes, LoopStates
  <2>4. m \in [Plane -> LoopStates] /\ m["gw"] = "returned" /\ m["op"] = proc[d].loops["op"]
    BY <2>1, <2>3, Zenon DEF Plane
  <2>5. q \in Processes
    BY <2>1, <2>2, <2>4, PutLoops, Zenon
  <2>6. /\ q.pc = proc[d].pc /\ q.swept = proc[d].swept /\ q.gw = "closed" /\ q.op = proc[d].op
        /\ q.loops = m /\ q.ready = proc[d].ready /\ q.pool = proc[d].pool
        /\ q.systemd = proc[d].systemd
    BY <1>2, <2>1, Zenon DEF Processes
  <2>7. Update(d, q)
    BY <1>3, <1>5, <2>1, Zenon
  <2>8. Listeners(q) /\ Posture(q) /\ Swept(d, q) /\ q.pc # "crashed"
    BY <1>1, <1>2, <2>4, <2>6 DEF Life, Listeners, Posture, Swept, Owned, Later, Looping, Hooked, Fails
  <2>9. /\ port' \in {port, Nothing} /\ port' # d /\ sockFile' = sockFile
        /\ q.gw # "open" /\ (q.op = "open" <=> sockFile = d)
    <3>1. port' = (IF port = d THEN Nothing ELSE port) /\ sockFile' = sockFile
      BY <1>3, <1>5, Zenon
    <3>2. Owned(d, proc[d]) /\ proc[d].pc # "crashed" /\ d # Nothing
      BY <1>1, <1>2, HostAssumption, Zenon DEF Life, Looping
    <3> QED
      BY <2>6, <3>1, <3>2, Zenon DEF Owned
  <2> QED
    BY <1>1, <1>3, <2>5, <2>7, <2>8, <2>9, ClosesKeep, Zenon
<1> QED
  BY <1>4, <1>5, Zenon DEF Plane

\* closeBoth: the operator socket and its path (Close).
LEMMA CloseOperatorKeeps == ASSUME HostInv, NEW d \in Daemons, CloseOperator(d) PROVE HostInv'
<1>1. proc[d].pc = "closeop" /\ Running(d)
  BY RunsAt, Zenon DEF CloseOperator, At
<1>2. /\ proc[d] \in Processes /\ Life(d, proc[d]) /\ \A e \in Daemons \ {d} : ~Running(e)
      /\ units \subseteq Daemons /\ orphan \in BOOLEAN /\ signalled \subseteq Daemons
  BY <1>1, RunsAlone, Zenon
<1>3. PICK g : g = Goes(d, "closegw")
  BY Zenon
<1>4. g \in Processes
  BY <1>2, <1>3, PutPc, PointNames, Zenon DEF Goes
<1>5. /\ g.pc = "closegw" /\ g.swept = proc[d].swept /\ g.op = proc[d].op /\ g.gw = proc[d].gw
      /\ g.ready = proc[d].ready /\ g.pool = proc[d].pool /\ g.systemd = proc[d].systemd
  BY <1>2, <1>3, Zenon DEF Goes, Processes
<1>6. PICK y, q : y = Shut(g.op) /\ q = [g EXCEPT !.op = y]
  BY Zenon
<1>7. g.op \in {"open", "closed"} /\ y = "closed"
  BY <1>1, <1>2, <1>4, <1>5, <1>6 DEF Life, Listeners, Shut, Processes, Looping
<1>8. q \in Processes
  BY <1>4, <1>6, <1>7, PutOp, Zenon
<1>9. /\ q.pc = "closegw" /\ q.swept = proc[d].swept /\ q.op = "closed" /\ q.gw = proc[d].gw
      /\ q.ready = proc[d].ready /\ q.pool = proc[d].pool /\ q.systemd = proc[d].systemd
  BY <1>4, <1>5, <1>6, <1>7, Zenon DEF Processes
<1>10. Update(d, q) /\ sockFile' = Nothing
       /\ UNCHANGED <<host, port, units, orphan, signalled, probe>>
  BY <1>3, <1>6, <1>7, Zenon DEF CloseOperator, OperatorClose
<1>11. Listeners(q) /\ Posture(q) /\ Swept(d, q) /\ q.pc # "crashed"
  BY <1>1, <1>2, <1>9, Zenon DEF Life, Listeners, Posture, Swept, Owned, Later, Looping,
     Hooked, Fails
<1>12. sockFile' # d /\ (q.gw = "open" <=> port = d)
  BY <1>2, <1>9, <1>10, HostAssumption DEF Life, Owned
<1> QED
  BY <1>1, <1>8, <1>9, <1>10, <1>11, <1>12, ClosesKeep

\* closeBoth: the gateway listener and its port (Close).
LEMMA CloseGatewayKeeps == ASSUME HostInv, NEW d \in Daemons, CloseGateway(d) PROVE HostInv'
<1>1. proc[d].pc = "closegw" /\ Running(d)
  BY RunsAt, Zenon DEF CloseGateway, At
<1>2. /\ proc[d] \in Processes /\ Life(d, proc[d]) /\ \A e \in Daemons \ {d} : ~Running(e)
      /\ units \subseteq Daemons /\ orphan \in BOOLEAN /\ signalled \subseteq Daemons
  BY <1>1, RunsAlone, Zenon
<1>3. PICK g : g = Goes(d, "drain")
  BY Zenon
<1>4. g \in Processes
  BY <1>2, <1>3, PutPc, PointNames, Zenon DEF Goes
<1>5. /\ g.pc = "drain" /\ g.swept = proc[d].swept /\ g.op = proc[d].op /\ g.gw = proc[d].gw
      /\ g.ready = proc[d].ready /\ g.pool = proc[d].pool /\ g.systemd = proc[d].systemd
  BY <1>2, <1>3, Zenon DEF Goes, Processes
<1>6. PICK y, q : y = Shut(g.gw) /\ q = [g EXCEPT !.gw = y]
  BY Zenon
<1>7. y = "closed"
  BY <1>1, <1>2, <1>4, <1>5, <1>6, Zenon DEF Life, Listeners, Shut, Processes, Looping
<1>8. q \in Processes
  BY <1>4, <1>6, <1>7, PutGw, Zenon
<1>9. /\ q.pc = "drain" /\ q.swept = proc[d].swept /\ q.gw = "closed" /\ q.op = proc[d].op
      /\ q.ready = proc[d].ready /\ q.pool = proc[d].pool /\ q.systemd = proc[d].systemd
  BY <1>4, <1>5, <1>6, <1>7 DEF Processes
<1>10. /\ Update(d, q) /\ port' \in {port, Nothing} /\ port' # d
       /\ UNCHANGED <<host, sockFile, units, orphan, signalled, probe>>
  BY <1>3, <1>6, HostAssumption, Zenon DEF CloseGateway
<1>11. Listeners(q) /\ Posture(q) /\ Swept(d, q) /\ q.pc # "crashed"
  BY <1>1, <1>2, <1>9, Zenon DEF Life, Listeners, Posture, Swept, Owned, Later, Looping,
     Hooked, Fails
<1>12. sockFile # d /\ q.op # "open" /\ q.gw # "open"
  BY <1>1, <1>2, <1>9, Zenon DEF Life, Owned, Listeners
<1> QED
  BY <1>1, <1>8, <1>10, <1>11, <1>12, ClosesKeep, Zenon

\* A returned loop is counted (serveListeners).
LEMMA DrainKeeps == ASSUME HostInv, NEW d \in Daemons, Drain(d) PROVE HostInv'
<1>1. proc[d].pc = "drain" /\ Running(d)
  BY RunsAt, Zenon DEF Drain, At
<1>2. /\ proc[d] \in Processes /\ Life(d, proc[d]) /\ \A e \in Daemons \ {d} : ~Running(e)
      /\ units \subseteq Daemons /\ orphan \in BOOLEAN /\ signalled \subseteq Daemons
  BY <1>1, RunsAlone, Zenon
<1>3. PICK l \in Plane :
        Update(d, [proc[d] EXCEPT !.drained = @ + 1, !.loops[l] = "drained"])
  BY Zenon DEF Drain, Returned
<1>4. PICK n, a, m, q :
        /\ n = proc[d].drained + 1 /\ a = [proc[d] EXCEPT !.drained = n]
        /\ m = [a.loops EXCEPT ![l] = "drained"] /\ q = [a EXCEPT !.loops = m]
  BY Zenon
<1>5. n \in 0 .. 2
  <2>1. proc[d].drained \in 0 .. 2 /\ proc[d].drained < 2
    BY <1>2, Zenon DEF Processes, Drain
  <2> QED
    BY <1>4, <2>1
<1>6. a \in Processes
  BY <1>2, <1>4, <1>5, PutDrained, Zenon
<1>7. a.loops \in [Plane -> LoopStates] /\ "drained" \in LoopStates
  BY <1>6, Zenon DEF Processes, LoopStates
<1>8. m \in [Plane -> LoopStates]
  BY <1>3, <1>4, <1>7, Zenon
<1>9. q \in Processes
  BY <1>4, <1>6, <1>8, PutLoops, Zenon
<1>10. /\ q.pc = "drain" /\ q.swept = proc[d].swept /\ q.op = proc[d].op /\ q.gw = proc[d].gw
       /\ q.ready = proc[d].ready /\ q.pool = proc[d].pool /\ q.systemd = proc[d].systemd
  BY <1>1, <1>2, <1>4 DEF Processes
<1>11. Update(d, q)
  BY <1>3, <1>4, Zenon
<1>12. Listeners(q) /\ Posture(q) /\ Swept(d, q) /\ q.pc # "crashed"
  BY <1>1, <1>2, <1>10, Zenon DEF Life, Listeners, Posture, Swept, Owned, Later,
     Looping, Hooked, Fails
<1> QED
  BY <1>1, <1>9, <1>10, <1>11, <1>12, MovesOn, Zenon DEF Drain

\* The drain ends and the process returns (drainTimeout).
LEMMA DrainEndsKeeps == ASSUME HostInv, NEW d \in Daemons, DrainEnds(d) PROVE HostInv'
<1>1. proc[d].pc = "drain" /\ Running(d)
  BY RunsAt, Zenon DEF DrainEnds, At
<1>2. Life(d, proc[d]) /\ orphan \in BOOLEAN /\ "drain" \in Reasons
  BY <1>1, RunsAlone, PointNames, Zenon DEF Reasons
<1>3. proc[d].op # "open"
  BY <1>1, <1>2, Zenon DEF Life, Listeners
<1> QED
  BY <1>1, <1>2, <1>3, ExitKeeps, Zenon DEF DrainEnds

\* A crash leaves the socket at the path and nothing else.
LEMMA CrashKeeps == ASSUME HostInv, NEW d \in Daemons, Crash(d) PROVE HostInv'
<1>1. Running(d)
  BY Zenon DEF Crash
<1>2. /\ proc[d] \in Processes /\ Life(d, proc[d]) /\ \A e \in Daemons \ {d} : ~Running(e)
      /\ units \subseteq Daemons /\ orphan \in BOOLEAN /\ signalled \subseteq Daemons
  BY <1>1, RunsAlone, Zenon
<1>3. PICK q : q = Exited(proc[d], "none", "crashed")
  BY Zenon
<1>4. "none" \in Reasons
  BY Zenon DEF Reasons
<1>5. /\ q \in Processes /\ q.pc = "crashed" /\ q.op # "open" /\ q.gw # "open" /\ q.audit # "open"
      /\ q.loops["op"] = "idle" /\ q.loops["gw"] = "idle"
  BY <1>2, <1>3, <1>4, ExitedIs
<1>6. /\ proc' = [proc EXCEPT ![d] = q] /\ port' \in {port, Nothing} /\ port' # d
      /\ UNCHANGED <<host, sockFile, units, orphan, signalled, probe>>
  BY <1>3, HostAssumption, Zenon DEF Crash, Update
<1>7. Life(d, q)'
  BY <1>5, <1>6, Zenon DEF Life, Listeners, Posture, Swept, Owned, Later, Looping,
     Hooked
<1> QED
  BY <1>2, <1>5, <1>6, <1>7, OthersRest, Zenon

\* A signal and a probe change no process.
LEMMA WatchersKeep ==
    ASSUME HostInv, (\E d \in Daemons : Signal(d)) \/ Probe \/ UNCHANGED daemonVars
    PROVE  HostInv'
<1>1. /\ DaemonType /\ ~host.overlap
      /\ \A d, e \in Daemons : Running(d) /\ Running(e) => d = e
      /\ \A d \in Daemons : Life(d, proc[d])
      /\ probe.state \in {"dialed", "green"} => probe.to \in Daemons
  BY Zenon DEF HostInv
<1>2. UNCHANGED <<host, proc, sockFile, port, units, orphan>>
  BY Zenon DEF Signal, Probe, ProbeDials, ProbeAnswered, ProbeFails, daemonVars
<1>3. signalled' \subseteq Daemons
  BY <1>1, Zenon DEF DaemonType, Signal, Probe, ProbeDials, ProbeAnswered, ProbeFails,
     daemonVars
<1>4. /\ probe' \in [state : {"idle", "dialed", "green", "red"}, to : Daemons \cup {Nothing}]
      /\ probe'.state \in {"dialed", "green"} => probe'.to \in Daemons
  <2>1. probe \in [state : {"idle", "dialed", "green", "red"}, to : Daemons \cup {Nothing}]
    BY <1>1, Zenon DEF DaemonType
  <2>2. CASE ProbeDials
    BY <2>2, Zenon DEF ProbeDials
  <2>3. CASE ProbeAnswered
    BY <1>1, <2>1, <2>3, Zenon DEF ProbeAnswered
  <2>4. CASE ProbeFails
    BY <2>4, Zenon DEF ProbeFails
  <2>5. CASE UNCHANGED probe
    BY <1>1, <2>1, <2>5, Zenon
  <2> QED
    BY <2>2, <2>3, <2>4, <2>5, Zenon DEF Signal, Probe, daemonVars
<1>5. DaemonType'
  BY <1>1, <1>2, <1>3, <1>4, Zenon DEF DaemonType
<1>6. \A d \in Daemons : Life(d, proc[d])'
  BY <1>1, <1>2 DEF Life, Listeners, Posture, Swept, Owned, Fails
<1> QED
  BY <1>1, <1>2, <1>4, <1>5, <1>6, Zenon DEF HostInv, Running, Ended

\* Every step of a process, a signal, a crash and a probe keep the invariant.
LEMMA HostStep == HostInv /\ [DaemonNext]_daemonVars => HostInv'
  BY StartKeeps, RunKeeps, ConstructKeeps, CreateOnStartKeeps, BootKeeps, ReconcileKeeps,
     WarmKeeps, BindOperatorKeeps, BindGatewayKeeps, NotifyKeeps, BootFailedKeeps,
     StartServingKeeps, SelectKeeps, LoopReturnsKeeps, CloseOperatorKeeps, CloseGatewayKeeps,
     DrainKeeps, DrainEndsKeeps, CrashKeeps, WatchersKeep, Zenon DEF DaemonNext, Step, Loops

\* No process has started.
LEMMA HostStart == DaemonInit({h \in Hosts : ~h.overlap}, {Nothing, RegularFile}) => HostInv
<1> SUFFICES ASSUME DaemonInit({h \in Hosts : ~h.overlap}, {Nothing, RegularFile}) PROVE HostInv
  BY Zenon
<1>1. Fresh \in Processes
  <2>1. "off" \in Points /\ Fresh.loops \in [Plane -> LoopStates]
    BY DEF Points, Fresh, Plane, LoopStates
  <2> QED
    BY <2>1 DEF Fresh, Processes
<1>2. \A d \in Daemons : proc[d] = Fresh
  BY Zenon DEF DaemonInit
<1>3. DaemonType /\ ~host.overlap
  <2>1. host \in Hosts /\ ~host.overlap
    BY Zenon DEF DaemonInit
  <2>2. host.cfg.full \in BOOLEAN
    BY <2>1, HostAssumption, Zenon DEF Hosts
  <2>3. orphan \in BOOLEAN
    BY <2>2, Zenon DEF DaemonInit
  <2>4. proc \in [Daemons -> Processes]
    BY <1>1, Zenon DEF DaemonInit
  <2>5. /\ sockFile \in Daemons \cup {Nothing, RegularFile} /\ port \in Daemons \cup {Nothing}
        /\ units \subseteq Daemons /\ signalled \subseteq Daemons
        /\ probe \in [state : {"idle", "dialed", "green", "red"}, to : Daemons \cup {Nothing}]
    BY Zenon DEF DaemonInit
  <2> QED
    BY <2>1, <2>3, <2>4, <2>5, Zenon DEF DaemonType
<1>4. \A d \in Daemons : ~Running(d)
  BY <1>2 DEF Running, Fresh
<1>5. \A d \in Daemons : Life(d, Fresh)
  BY HostAssumption, Zenon DEF DaemonInit, Fresh, Life, Listeners, Posture, Swept,
     Owned, Later, Looping, Hooked, Fails
<1> QED
  BY <1>2, <1>3, <1>4, <1>5, Zenon DEF HostInv, DaemonInit

\* The invariant holds of every succession of processes on a host.
LEMMA HostInvHolds == Successive => []HostInv
  BY HostStart, HostStep, PTL DEF Successive

\* Whatever fails, is signalled or crashes, a serving process is the one that the
\* socket and the port lead to, and one that returned has left neither (Bind,
\* removeStaleSocket, serveListeners).
THEOREM EndpointsAlwaysOwned == Successive => []EndpointsOwned
<1>1. HostInv => EndpointsOwned
  BY Zenon DEF HostInv, EndpointsOwned, ServingReachable, ReturnLeavesNothing, Serving,
     At, Plane, Life, Listeners, Owned
<1> QED
  BY <1>1, HostInvHolds, PTL

\* Nobody is served, or told that somebody is, before the posture is read and the
\* sweep is over, for every process of a succession (serve, SetOnReady,
\* healthCheck).
THEOREM AlwaysServesAfterSweep == Successive => ServesAfterSweep
<1>1. HostInv => BoundAfterPosture
  <2> SUFFICES ASSUME HostInv, NEW d \in Daemons, "open" \in {proc[d].op, proc[d].gw}
               PROVE  Ready(proc[d]) /\ proc[d].swept
    BY Zenon DEF BoundAfterPosture
  <2>1. Life(d, proc[d])
    BY Zenon DEF HostInv
  <2>2. proc[d].pc \in Hooked
    BY <2>1, Zenon DEF Life, Listeners, Later, Hooked
  <2> QED
    BY <2>1, <2>2, Zenon DEF Life, Posture, Ready
<1>2. HostInv => SweptBeforeServing
  BY Zenon DEF HostInv, SweptBeforeServing, Serving, At, Life, Swept, Hooked
<1>3. HostInv /\ [DaemonNext]_daemonVars => [GreenMeansServing]_daemonVars
  <2> SUFFICES ASSUME HostInv, DaemonNext, probe.state # "green", probe'.state = "green"
               PROVE  LET p == proc[probe.to] IN
                      /\ Ready(p) /\ p.swept /\ p.gw # "unbound"
                      /\ host.systemd => p.systemd # "none"
    BY Zenon DEF GreenMeansServing
  <2>1. ProbeAnswered
    <3>1. UNCHANGED probe \/ Probe
      BY Zenon DEF DaemonNext, Start, Step, Loops, Signal, Crash, Run, Construct,
         ServeCreateOnStart, Boot, Reconcile, Warm, BindOperator, BindGateway, NotifyReady,
         BootFailed, StartServing, SelectSignal, SelectReturn, CloseOperator, CloseGateway,
         DrainEnds, LoopReturns, Drain
    <3>2. ~ProbeDials /\ ~ProbeFails
      BY DEF ProbeDials, ProbeFails
    <3> QED
      BY <3>1, <3>2, Zenon DEF Probe
  <2>2. probe.to \in Daemons /\ proc[probe.to].loops["op"] = "run"
    BY <2>1, Zenon DEF ProbeAnswered, HostInv
  <2>3. Life(probe.to, proc[probe.to])
    BY <2>2, Zenon DEF HostInv
  <2>4. proc[probe.to].pc \in Looping
    BY <2>2, <2>3, Zenon DEF Life, Listeners
  <2> QED
    BY <2>3, <2>4, Zenon DEF Life, Listeners, Posture, Ready, Looping, Hooked
<1>4. HostInv /\ HostInv' /\ [DaemonNext]_daemonVars
      => [BoundAfterPosture' /\ SweptBeforeServing' /\ GreenMeansServing]_daemonVars
  <2>1. HostInv' => BoundAfterPosture' /\ SweptBeforeServing'
    BY <1>1, <1>2, PTL
  <2> QED
    BY <1>3, <2>1, Zenon
<1> QED
  BY <1>4, HostInvHolds, PTL DEF Successive, ServesAfterSweep

-----------------------------------------------------------------------------
(* The exec channel. *)

ChannelSpec(plans) == ChannelInit(plans) /\ [][ChannelNext]_channelVars

\* Plans that ask each exec for one of the sessions.
Plans(plans) == \A x \in plans : \A e \in Execs : x.exec[e].session \in Guests

InGuest == {"dial", "handshake", "drive"}

Calls == [pc : CallPoints, how : {"none", "refused", "error", "noDial", "exit", "timeout"},
          lock : Execs \cup {NoExec}, waited : Nat, cancelled : BOOLEAN, sent : Nat,
          out : [len : Nat, cut : BOOLEAN]]

ChannelShape == /\ \A e \in Execs : Session(e) \in Guests
                /\ call \in [Execs -> Calls]
                /\ lockOf \in [Guests -> Execs \cup {NoExec}]
                /\ holder \in [Execs -> Execs \cup {NoExec}]

\* An exec behind sessionLock has the session's one lock, and an exec in the
\* guest holds it.
LockInv == \A e \in Execs :
    /\ call[e].pc \in {"wait"} \cup InGuest => /\ call[e].lock \in Execs
                                               /\ call[e].lock = lockOf[Session(e)]
    /\ call[e].pc \in InGuest => holder[call[e].lock] = e

ExecInv == ChannelShape /\ LockInv /\ CaptureExact

-----------------------------------------------------------------------------
\* The updates Exec makes to its locals keep a call record well-formed.
LEMMA UpdatesTyped ==
    ASSUME NEW c \in Calls
    PROVE  /\ \A how \in {"refused", "error", "noDial", "exit", "timeout"} :
                [c EXCEPT !.pc = "done", !.how = how] \in Calls
           /\ \A l \in Execs : [c EXCEPT !.pc = "wait", !.lock = l] \in Calls
           /\ \A s \in Nat, x \in [len : Nat, cut : BOOLEAN] :
                [c EXCEPT !.sent = s, !.out = x] \in Calls
           /\ \A p \in CallPoints : [c EXCEPT !.pc = p] \in Calls
           /\ [c EXCEPT !.cancelled = TRUE] \in Calls
<1>1. ASSUME NEW how \in {"refused", "error", "noDial", "exit", "timeout"}
      PROVE  [c EXCEPT !.pc = "done", !.how = how] \in Calls
  BY Zenon DEF Calls, CallPoints
<1>2. ASSUME NEW l \in Execs PROVE [c EXCEPT !.pc = "wait", !.lock = l] \in Calls
  BY Zenon DEF Calls, CallPoints
<1>3. ASSUME NEW s \in Nat, NEW x \in [len : Nat, cut : BOOLEAN]
      PROVE  [c EXCEPT !.sent = s, !.out = x] \in Calls
  BY Zenon DEF Calls
<1>4. ASSUME NEW p \in CallPoints PROVE [c EXCEPT !.pc = p] \in Calls
  BY Zenon DEF Calls
<1>5. [c EXCEPT !.cancelled = TRUE] \in Calls
  BY Zenon DEF Calls
<1> QED BY <1>1, <1>2, <1>3, <1>4, <1>5, Zenon

\* A well-formed call record in the place of another keeps the shape.
LEMMA ShapeKept ==
    ASSUME ChannelShape, NEW e \in Execs, NEW c \in Calls, Set(e, c), plan' = plan,
           lockOf' \in [Guests -> Execs \cup {NoExec}],
           holder' \in [Execs -> Execs \cup {NoExec}]
    PROVE  ChannelShape' /\ call'[e] = c
  BY Zenon DEF ChannelShape, Set, Session

\* A step of one exec that leaves plan, the locks of the sessions and the
\* output alone keeps the invariant when it keeps the exec's hold on the lock.
LEMMA CallChanges ==
    ASSUME ExecInv, NEW e \in Execs, NEW c \in Calls,
           Set(e, c), UNCHANGED <<plan, lockOf, holder>>,
           c.lock = call[e].lock, c.sent = call[e].sent, c.out = call[e].out,
           c.pc = call[e].pc \/ c.pc \in {"idle", "lock"}
             \/ (call[e].pc \in InGuest /\ c.pc \in InGuest)
    PROVE  ExecInv'
<1>1. ChannelShape'
  BY ShapeKept, Zenon DEF ExecInv, ChannelShape
<1>2. LockInv'
  BY <1>1 DEF ExecInv, ChannelShape, LockInv, Set, Session, Calls, InGuest
<1>3. CaptureExact'
  BY Zenon DEF ExecInv, ChannelShape, CaptureExact, Set, Calls
<1> QED BY <1>1, <1>2, <1>3 DEF ExecInv

\* A return frees the lock of its own exec only (the deferred unlock of Exec).
LEMMA ReturnFrees ==
    ASSUME ExecInv, NEW e \in Execs, NEW how \in {"refused", "error", "noDial", "exit", "timeout"},
           Return(e, how, call[e]), UNCHANGED <<plan, lockOf>>
    PROVE  ExecInv'
<1> DEFINE c == [call[e] EXCEPT !.pc = "done", !.how = how]
<1>0. c \in Calls
  BY UpdatesTyped, Zenon DEF ExecInv, ChannelShape
<1>1. ChannelShape'
  <2>1. holder' \in [Execs -> Execs \cup {NoExec}]
    BY Zenon DEF Return, ExecInv, ChannelShape
  <2>2. Set(e, c)
    BY Zenon DEF Return
  <2> HIDE DEF c
  <2> QED BY <1>0, <2>1, <2>2, ShapeKept DEF ExecInv, ChannelShape
<1>2. ASSUME NEW f \in Execs, f # e, holder[call[f].lock] = f, call[f].lock \in Execs
      PROVE  holder'[call[f].lock] = f
  BY <1>2, Zenon DEF Return
<1>3. /\ call'[e].pc = "done"
      /\ \A f \in Execs : f # e => call'[f] = call[f]
      /\ \A f \in Execs : Session(f)' = Session(f)
  BY Zenon DEF ExecInv, ChannelShape, Return, Set, Session, Calls
<1>4. LockInv'
  BY <1>2, <1>3, Zenon DEF ExecInv, LockInv, InGuest
<1>5. CaptureExact'
  BY DEF ExecInv, ChannelShape, CaptureExact, Return, Set, Calls
<1> QED BY <1>1, <1>4, <1>5 DEF ExecInv

\* cappedWriter.Write goes on from an exact capture to an exact capture.
LEMMA WriteExact ==
    ASSUME NEW w \in [len : Nat, cut : BOOLEAN], NEW sent \in Nat, NEW n \in Nat,
           w.len = IF sent < StdioCap THEN sent ELSE StdioCap,
           w.cut <=> sent > StdioCap
    PROVE  LET x == CappedWrite(w, n) IN
           /\ x \in [len : Nat, cut : BOOLEAN]
           /\ x.len = IF sent + n < StdioCap THEN sent + n ELSE StdioCap
           /\ x.cut <=> sent + n > StdioCap
<1> DEFINE x == CappedWrite(w, n)
<1>1. StdioCap \in Nat
  BY BudgetAssumption, Zenon
<1>2. /\ x = [len |-> x.len, cut |-> x.cut]
      /\ x.len = IF n > StdioCap - w.len THEN StdioCap ELSE w.len + n
      /\ x.cut = (w.cut \/ n > StdioCap - w.len)
  BY Zenon DEF CappedWrite
<1>3. x.len = IF sent + n < StdioCap THEN sent + n ELSE StdioCap
  <2> HIDE DEF x
  <2> QED BY <1>1, <1>2
<1>4. (sent > StdioCap \/ n > StdioCap - w.len) <=> sent + n > StdioCap
  BY <1>1
<1>5. x.cut \in BOOLEAN /\ (x.cut <=> sent + n > StdioCap)
  <2> HIDE DEF x
  <2> QED BY <1>2, <1>4, Zenon
<1>6. x.len \in Nat
  <2> HIDE DEF x
  <2> QED BY <1>1, <1>3
<1>7. x \in [len : Nat, cut : BOOLEAN]
  <2> HIDE DEF x
  <2> QED BY <1>2, <1>5, <1>6, Zenon
<1> QED BY <1>3, <1>5, <1>7

\* Every step of an exec, of its guest, of the budget's clock and of a teardown
\* keeps the session lock and the captures exact (Driver.Exec).
LEMMA ExecInvHolds == ASSUME ExecInv, [ChannelNext]_channelVars PROVE ExecInv'
<1> USE BudgetAssumption
<1>1. CASE UNCHANGED channelVars
  BY <1>1, Zenon DEF ExecInv, ChannelShape, LockInv, CaptureExact, Session, channelVars
<1>2. ASSUME NEW e \in Execs, ExecBegin(e) PROVE ExecInv'
  <2>1. CASE Set(e, [call[e] EXCEPT !.pc = "lock"]) /\ UNCHANGED holder
    <3> DEFINE c == [call[e] EXCEPT !.pc = "lock"]
    <3>0. UNCHANGED <<plan, lockOf>>
      BY <1>2, Zenon DEF ExecBegin
    <3>1. call[e] \in Calls
      BY Zenon DEF ExecInv, ChannelShape
    <3>2. c \in Calls
      BY <3>1, UpdatesTyped, Zenon DEF CallPoints
    <3>3. c.lock = call[e].lock /\ c.sent = call[e].sent /\ c.out = call[e].out /\ c.pc = "lock"
      BY <3>1, Zenon DEF Calls
    <3>4. Set(e, c)
      BY <2>1, Zenon
    <3> HIDE DEF c
    <3> QED BY <2>1, <3>0, <3>1, <3>2, <3>3, <3>4, CallChanges
  <2>2. CASE Return(e, "refused", call[e])
    BY <1>2, <2>2, ReturnFrees, Zenon DEF ExecBegin
  <2> QED BY <1>2, <2>1, <2>2 DEF ExecBegin
<1>3. ASSUME NEW e \in Execs, SessionLock(e) PROVE ExecInv'
  <2> DEFINE l == IF lockOf[Session(e)] = NoExec THEN e ELSE lockOf[Session(e)]
             c == [call[e] EXCEPT !.pc = "wait", !.lock = l]
  <2>0. l \in Execs /\ Set(e, c) /\ lockOf' = [lockOf EXCEPT ![Session(e)] = l]
    BY <1>3, Zenon DEF ExecInv, ChannelShape, SessionLock
  <2>1. ChannelShape'
    <3> HIDE DEF l
    <3>1. c \in Calls
      BY <2>0, UpdatesTyped, Zenon DEF ExecInv, ChannelShape
    <3>2. lockOf' \in [Guests -> Execs \cup {NoExec}]
      BY <2>0, Zenon DEF ExecInv, ChannelShape
    <3>3. plan' = plan /\ holder' = holder
      BY <1>3, Zenon DEF SessionLock
    <3>4. ChannelShape /\ holder' \in [Execs -> Execs \cup {NoExec}]
      BY <3>3, Zenon DEF ExecInv, ChannelShape
    <3> HIDE DEF c
    <3> QED BY <2>0, <3>1, <3>2, <3>3, <3>4, ShapeKept, Zenon
  <2>2. /\ call'[e].pc = "wait" /\ call'[e].lock \in Execs
        /\ call'[e].lock = lockOf'[Session(e)]
        /\ \A f \in Execs : f # e => call'[f] = call[f]
        /\ \A f \in Execs : Session(f)' = Session(f)
        /\ holder' = holder
    BY <1>3, Zenon DEF ExecInv, ChannelShape, SessionLock, Set, Session, Calls
  <2>3. \A s \in Guests : lockOf[s] # NoExec => lockOf'[s] = lockOf[s]
    BY <1>3, Zenon DEF ExecInv, ChannelShape, SessionLock
  <2>4. LockInv'
    <3> SUFFICES ASSUME NEW f \in Execs
                 PROVE  /\ call'[f].pc \in {"wait"} \cup InGuest
                           => call'[f].lock \in Execs /\ call'[f].lock = lockOf'[Session(f)]
                        /\ call'[f].pc \in InGuest => holder[call'[f].lock] = f
      BY <2>2, Zenon DEF LockInv
    <3>1. CASE f = e
      BY <2>2, <3>1, Zenon DEF InGuest
    <3>2. CASE f # e
      BY <2>2, <2>3, <3>2, BudgetAssumption DEF ExecInv, ChannelShape, LockInv
    <3> QED BY <3>1, <3>2
  <2>5. CaptureExact'
    BY <1>3, Zenon DEF ExecInv, ChannelShape, CaptureExact, SessionLock, Set, Calls
  <2> QED BY <2>1, <2>4, <2>5 DEF ExecInv
<1>4. ASSUME NEW e \in Execs, Acquire(e) PROVE ExecInv'
  <2> DEFINE c == [call[e] EXCEPT !.pc = "dial"]
  <2>1. ChannelShape'
    <3>1. c \in Calls /\ Set(e, c)
      BY <1>4 DEF Acquire, ExecInv, ChannelShape, Calls, CallPoints
    <3>2. holder' \in [Execs -> Execs \cup {NoExec}]
      BY <1>4, Zenon DEF Acquire, ExecInv, ChannelShape
    <3>3. plan' = plan /\ lockOf' = lockOf
      BY <1>4, Zenon DEF Acquire
    <3> HIDE DEF c
    <3> QED BY <3>1, <3>2, <3>3, ShapeKept DEF ExecInv, ChannelShape
  <2>2. /\ call[e].pc = "wait" /\ holder[call[e].lock] = NoExec
        /\ call'[e].lock = call[e].lock
        /\ \A f \in Execs : f # e => call'[f] = call[f]
        /\ \A f \in Execs : Session(f)' = Session(f)
        /\ holder' = [holder EXCEPT ![call[e].lock] = e] /\ lockOf' = lockOf
    BY <1>4, Zenon DEF ExecInv, ChannelShape, Acquire, CallAt, Set, Session, Calls
  <2>3. LockInv'
    <3> SUFFICES ASSUME NEW f \in Execs
                 PROVE  /\ call'[f].pc \in {"wait"} \cup InGuest
                           => call'[f].lock \in Execs /\ call'[f].lock = lockOf[Session(f)]
                        /\ call'[f].pc \in InGuest => holder'[call'[f].lock] = f
      BY <2>2, Zenon DEF LockInv
    <3>1. CASE f = e
      BY <2>2, <3>1, Zenon DEF ExecInv, ChannelShape, LockInv
    <3>2. CASE f # e
      BY <2>2, <3>2, BudgetAssumption DEF ExecInv, ChannelShape, LockInv
    <3> QED BY <3>1, <3>2
  <2>4. CaptureExact'
    BY <1>4 DEF ExecInv, ChannelShape, CaptureExact, Acquire, Set, Calls
  <2> QED BY <2>1, <2>3, <2>4 DEF ExecInv
<1>5. ASSUME NEW e \in Execs, DialAttempt(e) PROVE ExecInv'
  <2> DEFINE next == AttemptEnds(e, call[e].waited) + RedialInterval
  <2>0. next \in Nat /\ call[e] \in Calls /\ call[e].pc = "dial" /\ UNCHANGED <<plan, lockOf>>
    BY <1>5 DEF DialAttempt, CallAt, AttemptEnds, ExecInv, ChannelShape, Calls
  <2>1. CASE Set(e, [call[e] EXCEPT !.pc = "handshake"]) /\ UNCHANGED holder
    BY <2>0, <2>1, CallChanges, Zenon DEF Calls, CallPoints, InGuest
  <2>2. CASE Set(e, [call[e] EXCEPT !.waited = next]) /\ UNCHANGED holder
    <3> HIDE DEF next
    <3> QED BY <2>0, <2>2, CallChanges DEF Calls
  <2>3. CASE \E how \in {"error", "noDial"} : Return(e, how, call[e])
    BY <2>0, <2>3, ReturnFrees, Zenon
  <2> QED BY <1>5, <2>1, <2>2, <2>3 DEF DialAttempt
<1>6. ASSUME NEW e \in Execs, Handshake(e) PROVE ExecInv'
  <2>0. call[e] \in Calls /\ call[e].pc = "handshake" /\ UNCHANGED <<plan, lockOf>>
    BY <1>6, Zenon DEF Handshake, CallAt, ExecInv, ChannelShape
  <2>1. CASE Set(e, [call[e] EXCEPT !.pc = "drive"]) /\ UNCHANGED holder
    BY <2>0, <2>1, CallChanges, Zenon DEF Calls, CallPoints, InGuest
  <2>2. CASE Return(e, "error", call[e])
    BY <2>0, <2>2, ReturnFrees, Zenon
  <2> QED BY <1>6, <2>1, <2>2 DEF Handshake
<1>7. ASSUME NEW e \in Execs, NEW cause \in {"exit", "deadline", "broken"}, DriveReturns(e, cause)
      PROVE  ExecInv'
  BY <1>7, ReturnFrees, Zenon DEF DriveReturns
<1>8. ASSUME NEW e \in Execs, Cancel(e) PROVE ExecInv'
  <2> DEFINE c == [call[e] EXCEPT !.cancelled = TRUE]
  <2>1. call[e] \in Calls /\ Set(e, c) /\ UNCHANGED <<plan, lockOf, holder>>
    BY <1>8, Zenon DEF Cancel, ExecInv, ChannelShape
  <2>2. c \in Calls
    BY <2>1, UpdatesTyped, Zenon
  <2>3. c.lock = call[e].lock /\ c.sent = call[e].sent /\ c.out = call[e].out /\ c.pc = call[e].pc
    BY <2>1, Zenon DEF Calls
  <2> HIDE DEF c
  <2> QED BY <2>1, <2>2, <2>3, CallChanges
<1>9. ASSUME NEW e \in Execs, NEW n \in 1 .. MaxSent, DriveOutput(e, n) PROVE ExecInv'
  <2>0. n \in Nat /\ call[e] \in Calls
    BY DEF ExecInv, ChannelShape
  <2>1. LET x == CappedWrite(call[e].out, n)  s == call[e].sent + n IN
        /\ x \in [len : Nat, cut : BOOLEAN]
        /\ x.len = IF s < StdioCap THEN s ELSE StdioCap
        /\ x.cut <=> s > StdioCap
    BY <2>0, WriteExact, Zenon DEF ExecInv, CaptureExact, Calls
  <2> DEFINE c == [call[e] EXCEPT !.sent = call[e].sent + n, !.out = CappedWrite(call[e].out, n)]
  <2>2. Set(e, c)
    BY <1>9, Zenon DEF DriveOutput
  <2>3. UNCHANGED <<plan, lockOf, holder>>
    BY <1>9, Zenon DEF DriveOutput
  <2> HIDE DEF CappedWrite
  <2>4. ChannelShape'
    <3>1. call[e].sent + n \in Nat
      BY <2>0 DEF Calls
    <3>2. c \in Calls
      BY <2>0, <2>1, <3>1, UpdatesTyped, Zenon
    <3> HIDE DEF c
    <3> QED BY <2>2, <2>3, <3>2, ShapeKept DEF ExecInv, ChannelShape
  <2>5. LockInv'
    BY <2>0, <2>2, <2>3, Zenon DEF ExecInv, ChannelShape, LockInv, Calls, Session, Set
  <2>6. /\ call'[e].sent = call[e].sent + n /\ call'[e].out = CappedWrite(call[e].out, n)
        /\ \A f \in Execs : f # e => call'[f] = call[f]
    BY <2>0, <2>2, Zenon DEF ExecInv, ChannelShape, Calls, Set
  <2>7. CaptureExact'
    <3> SUFFICES ASSUME NEW f \in Execs
                 PROVE  /\ call'[f].out.len = IF call'[f].sent < StdioCap THEN call'[f].sent ELSE StdioCap
                        /\ call'[f].out.cut <=> call'[f].sent > StdioCap
      BY Zenon DEF CaptureExact
    <3>1. CASE f = e
      BY <2>1, <2>6, <3>1, Zenon
    <3>2. CASE f # e
      BY <2>6, <3>2, Zenon DEF ExecInv, CaptureExact
    <3> QED BY <3>1, <3>2
  <2> QED BY <2>4, <2>5, <2>7 DEF ExecInv
<1>10. ASSUME NEW s \in Guests, ShutdownDial(s) \/ DestroyStep(s) PROVE ExecInv'
  BY <1>10, Zenon DEF ShutdownDial, DestroyStep, ShutdownReply, Finalized, ExecInv,
     ChannelShape, LockInv, CaptureExact, Session
<1> QED
  BY <1>1, <1>2, <1>3, <1>4, <1>5, <1>6, <1>7, <1>8, <1>9, <1>10, Zenon DEF ChannelNext,
     ExecStep

\* Whatever the plan, no exec holds a lock before it has begun.
LEMMA ExecInvInit == ASSUME NEW plans, Plans(plans), ChannelInit(plans) PROVE ExecInv
  BY BudgetAssumption
  DEF Plans, ChannelInit, ExecInv, ChannelShape, LockInv, CaptureExact, Session, Calls,
      CallPoints, InGuest

\* One exec at a time per session (Driver.Exec, sessionLock), for any number of
\* execs, sessions and withdrawals.
THEOREM ExecsSerialized ==
    ASSUME NEW CONSTANT plans, Plans(plans)
    PROVE  ChannelSpec(plans) => []OneExecPerSession
<1>1. ChannelInit(plans) => ExecInv
  BY ExecInvInit, Zenon
<1>2. ExecInv /\ [ChannelNext]_channelVars => ExecInv'
  BY ExecInvHolds, Zenon
<1>3. ExecInv => OneExecPerSession
  BY DEF ExecInv, LockInv, InGuest, OneExecPerSession
<1> QED BY <1>1, <1>2, <1>3, PTL DEF ChannelSpec

\* The bounded capture is exact (cappedWriter.Write), for every cap and every
\* sequence of writes.
THEOREM CapturesExact ==
    ASSUME NEW CONSTANT plans, Plans(plans)
    PROVE  ChannelSpec(plans) => []CaptureExact
<1>1. ChannelInit(plans) => ExecInv
  BY ExecInvInit, Zenon
<1>2. ExecInv /\ [ChannelNext]_channelVars => ExecInv'
  BY ExecInvHolds, Zenon
<1>3. ExecInv => CaptureExact
  BY Zenon DEF ExecInv
<1> QED BY <1>1, <1>2, <1>3, PTL DEF ChannelSpec

\* For every plan of the guests and every budget and cap, execs of a session are
\* alone in its guest and captured exactly (Exec, cappedWriter).
THEOREM ExecsAlwaysSound ==
    ASSUME NEW CONSTANT plans, Plans(plans)
    PROVE  ChannelSpec(plans) => []ExecsSound
<1>1. OneExecPerSession /\ CaptureExact => ExecsSound
  BY Zenon DEF ExecsSound
<1>2. ChannelSpec(plans) => []OneExecPerSession
  BY ExecsSerialized, Zenon
<1>3. ChannelSpec(plans) => []CaptureExact
  BY CapturesExact, Zenon
<1> QED BY <1>1, <1>2, <1>3, PTL

\* Requests with a window and a guest that comes up at some moment.
Timed(plans) == \A x \in plans : \A e \in Execs : x.exec[e] \in ExecRequests

LateInv == LateGuestReached /\ \A e \in Execs : plan.exec[e] \in ExecRequests

\* A dial is given up only when the next one would be past the window: the guest
\* was not up yet, or it has been destroyed (dialWithColdWait).
LEMMA GivesUpLate ==
    ASSUME ExecInv, NEW e \in Execs, plan.exec[e] \in ExecRequests, DialAttempt(e),
           call'[e].how = "noDial", call[e].how # "noDial"
    PROVE  \/ plan.exec[e].before = "broken"
           \/ Session(e) \notin live
           \/ plan.exec[e].readyAt + DialAttemptBudget + RedialInterval > Window(e)
<1> DEFINE now == call[e].waited
<1>1. call[e] \in Calls /\ now \in Nat /\ call \in [Execs -> Calls]
  BY Zenon DEF ExecInv, ChannelShape, Calls
<1>2. /\ plan.exec[e].readyAt \in Nat /\ plan.exec[e].timeout \in Nat
      /\ plan.exec[e].before \in {"absent", "refused", "silent", "broken"}
  BY Zenon DEF ExecRequests
<1>3. Window(e) \in Nat
  BY <1>2, BudgetAssumption, Zenon DEF Window, EffectiveTimeout
<1>4. Met(e, now) # "ready" /\ ~(Retried(e, now) /\ AttemptEnds(e, now) + RedialInterval < Window(e))
  <2> SUFFICES ASSUME \/ Met(e, now) = "ready"
                      \/ Retried(e, now) /\ AttemptEnds(e, now) + RedialInterval < Window(e)
               PROVE  FALSE
    BY Zenon
  <2>1. \/ Return(e, "error", call[e])
        \/ Set(e, [call[e] EXCEPT !.pc = "handshake"])
        \/ Set(e, [call[e] EXCEPT !.waited = AttemptEnds(e, now) + RedialInterval])
    BY Zenon DEF DialAttempt
  <2>2. ASSUME NEW c, Set(e, c) PROVE c.how = "noDial"
    BY <1>1, <2>2, Zenon DEF Set
  <2>3. [call[e] EXCEPT !.pc = "done", !.how = "error"].how = "error"
    BY <1>1, Zenon DEF Calls
  <2>4. [call[e] EXCEPT !.pc = "handshake"].how = call[e].how
    BY <1>1, Zenon DEF Calls
  <2>5. \A n : [call[e] EXCEPT !.waited = n].how = call[e].how
    BY <1>1, Zenon DEF Calls
  <2>6. ~Return(e, "error", call[e])
    BY <2>2, <2>3, Zenon DEF Return
  <2> QED
    BY <2>1, <2>2, <2>4, <2>5, <2>6, Zenon
<1>5. \/ plan.exec[e].before = "broken"
      \/ Session(e) \notin live
      \/ now < plan.exec[e].readyAt /\ Retried(e, now)
  BY <1>1, <1>2, <1>4 DEF Met, Retried
<1>6. AttemptEnds(e, now) \in Nat /\ AttemptEnds(e, now) <= now + DialAttemptBudget
  BY <1>1, BudgetAssumption DEF AttemptEnds
<1> HIDE DEF now
<1> QED
  BY <1>1, <1>2, <1>3, <1>4, <1>5, <1>6, BudgetAssumption

\* Nothing but a dial gives a dial up, and what the guests do is planned.
LEMMA LateStep == ASSUME ExecInv, LateInv, [ChannelNext]_channelVars PROVE LateInv'
<1>1. plan' = plan /\ live' \subseteq live
  BY Zenon DEF ChannelNext, ExecStep, ExecBegin, SessionLock, Acquire, DialAttempt,
     Handshake, DriveReturns, Cancel, DriveOutput, ShutdownDial, DestroyStep,
     ShutdownReply, Finalized, channelVars
<1>2. call \in [Execs -> Calls]
  BY Zenon DEF ExecInv, ChannelShape
<1>3. ASSUME NEW f \in Execs, call'[f].how = "noDial", call[f].how # "noDial"
      PROVE  DialAttempt(f)
  <2>1. ASSUME NEW e \in Execs, NEW c, Set(e, c), c.how # "noDial" \/ c.how = call[e].how PROVE FALSE
    BY <1>2, <1>3, <2>1, Zenon DEF Set
  <2>2. ASSUME NEW e \in Execs, NEW how, how # "noDial", Return(e, how, call[e]) PROVE FALSE
    <3>1. PICK c : c = [call[e] EXCEPT !.pc = "done", !.how = how]
      BY Zenon
    <3>2. c.how = how
      BY <1>2, <3>1, Zenon DEF Calls
    <3> QED
      BY <2>1, <2>2, <3>1, <3>2, Zenon DEF Return
  <2>3. ASSUME NEW e \in Execs PROVE ~ExecBegin(e)
    <3>1. [call[e] EXCEPT !.pc = "lock"].how = call[e].how
      BY <1>2, Zenon DEF Calls
    <3> QED
      BY <2>1, <2>2, <3>1, Zenon DEF ExecBegin
  <2>4. ASSUME NEW e \in Execs PROVE ~SessionLock(e)
    <3>1. \A l : [call[e] EXCEPT !.pc = "wait", !.lock = l].how = call[e].how
      BY <1>2, Zenon DEF Calls
    <3> SUFFICES ASSUME SessionLock(e) PROVE FALSE
      BY Zenon
    <3>2. PICK l : Set(e, [call[e] EXCEPT !.pc = "wait", !.lock = l])
      BY Zenon DEF SessionLock
    <3> QED
      BY <2>1, <3>1, <3>2, Zenon
  <2>5. ASSUME NEW e \in Execs PROVE ~Acquire(e)
    <3>1. [call[e] EXCEPT !.pc = "dial"].how = call[e].how
      BY <1>2, Zenon DEF Calls
    <3> QED
      BY <2>1, <3>1, Zenon DEF Acquire
  <2>6. ASSUME NEW e \in Execs PROVE ~Handshake(e)
    <3>1. [call[e] EXCEPT !.pc = "drive"].how = call[e].how
      BY <1>2, Zenon DEF Calls
    <3> QED
      BY <2>1, <2>2, <3>1, Zenon DEF Handshake
  <2>7. ASSUME NEW e \in Execs, NEW cause PROVE ~DriveReturns(e, cause)
    BY <2>2, Zenon DEF DriveReturns
  <2>8. ASSUME NEW e \in Execs PROVE ~Cancel(e)
    <3>1. [call[e] EXCEPT !.cancelled = TRUE].how = call[e].how
      BY <1>2, Zenon DEF Calls
    <3> QED
      BY <2>1, <3>1, Zenon DEF Cancel
  <2>9. ASSUME NEW e \in Execs, NEW n PROVE ~DriveOutput(e, n)
    <3>1. \A x, y : [call[e] EXCEPT !.sent = x, !.out = y].how = call[e].how
      BY <1>2, Zenon DEF Calls
    <3> QED
      BY <2>1, <3>1, Zenon DEF DriveOutput
  <2>10. call' # call
    BY <1>3, Zenon
  <2>11. PICK e \in Execs : DialAttempt(e)
    BY <2>3, <2>4, <2>5, <2>6, <2>7, <2>8, <2>9, <2>10, Zenon DEF ChannelNext, ExecStep,
       ShutdownDial, DestroyStep, ShutdownReply, Finalized, channelVars
  <2>12. e = f
    <3>1. \E c : call' = [call EXCEPT ![e] = c]
      BY <2>11, Zenon DEF DialAttempt, Return, Set
    <3> QED
      BY <1>2, <1>3, <3>1, Zenon
  <2> QED
    BY <2>11, <2>12, Zenon
<1>4. LateGuestReached'
  <2> SUFFICES ASSUME NEW f \in Execs, call'[f].how = "noDial"
               PROVE  \/ plan.exec[f].before = "broken"
                      \/ Session(f) \notin live
                      \/ plan.exec[f].readyAt + DialAttemptBudget + RedialInterval > Window(f)
    BY <1>1, Zenon DEF LateGuestReached, Session, Window
  <2>1. CASE call[f].how = "noDial"
    BY <2>1, Zenon DEF LateInv, LateGuestReached
  <2>2. CASE call[f].how # "noDial"
    BY <1>3, <2>2, GivesUpLate, Zenon DEF LateInv
  <2> QED
    BY <2>1, <2>2, Zenon
<1> QED
  BY <1>1, <1>4, Zenon DEF LateInv

\* For every plan of the guests and every budget a guest that is up one attempt
\* and one pause before the window closes is reached (dialWithColdWait).
THEOREM LateGuestsReached ==
    ASSUME NEW CONSTANT plans, Timed(plans)
    PROVE  ChannelSpec(plans) => []LateGuestReached
<1>1. ChannelInit(plans) => ExecInv /\ LateInv
  <2> SUFFICES ASSUME ChannelInit(plans) PROVE ExecInv /\ LateInv
    BY Zenon
  <2>1. Plans(plans)
    BY Zenon DEF Plans, Timed, ExecRequests
  <2>2. \A e \in Execs : plan.exec[e] \in ExecRequests /\ call[e].how = "none"
    BY Zenon DEF ChannelInit, Timed
  <2> QED
    BY <2>1, <2>2, ExecInvInit, Zenon DEF LateInv, LateGuestReached
<1>2. ExecInv /\ LateInv /\ [ChannelNext]_channelVars => ExecInv' /\ LateInv'
  BY ExecInvHolds, LateStep, Zenon
<1>3. LateInv => LateGuestReached
  BY Zenon DEF LateInv
<1> QED BY <1>1, <1>2, <1>3, PTL DEF ChannelSpec

=============================================================================
