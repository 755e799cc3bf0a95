------------------------------- MODULE Daemon -------------------------------
(***************************************************************************)
(* The ocu-controld process (cmd/ocu-controld) with the boot sequencer     *)
(* (internal/boot) and the life of its two listeners: validation of the    *)
(* flags, construction, kill-switch-first boot, binding, readiness,        *)
(* serving, the bounded stop, and the next process on the same host.       *)
(***************************************************************************)
EXTENDS Integers, Sequences, FiniteSets, Functions

CONSTANTS Daemons,       \* the processes started one after another on a host
          Configs,       \* the invocations a host is started with
          Nothing,       \* no file at the socket path, no holder of the port
          RegularFile    \* a file at the socket path that is not a socket

ASSUME HostAssumption ==
    /\ Nothing # RegularFile /\ {Nothing, RegularFile} \cap Daemons = {}
    /\ \A c \in Configs : c.idle \in Int /\ c.full \in BOOLEAN

VARIABLES host,      \* the host: flags, durable deny, what may happen to it
          proc,      \* each process
          sockFile,  \* the inode at the operator socket path, by its creator
          port,      \* the holder of the gateway's TCP port
          units,     \* the processes whose warmed placeholders are on the host
          orphan,    \* a RESERVED row of no live create is in the durable store
          signalled, \* the processes SIGINT or SIGTERM was sent to
          probe      \* the -health-check client

daemonVars == <<host, proc, sockFile, port, units, orphan, signalled, probe>>

-----------------------------------------------------------------------------
(* The flags. *)

SessionIdleCeiling == 15  \* minutes

Known == [tier |-> {"runc", "gvisor", "firecracker"},
          provider |-> {"docker", "k8s"},
          profile |-> {"trusted_operator", "internal_workforce", "untrusted"},
          alg |-> {"eddsa", "es256"},
          intent |-> {"read", "write", "preview"}]

\* resolveIdleTTL: the shelf is full when -state-dsn is set.
ResolveIdleTTL(c) ==
    [ok |-> c.idle >= 0 /\ (c.full => c.idle <= SessionIdleCeiling),
     ttl |-> IF c.full /\ c.idle = 0 THEN SessionIdleCeiling ELSE c.idle]

\* resolveGrantedIntents: c.intents is "unset" or the non-blank fields named.
ResolveGrantedIntents(c) ==
    c.intents # {"unset"} => c.intents # {} /\ c.intents \subseteq Known.intent

RuntimeTierOf(c) == c.tier \in Known.tier
WorkloadProfileOf(c) == c.profile \in Known.profile
AlgOf(c) == c.alg \in Known.alg

\* requiredFlags: the enum flags by value, the others by c.missing.
RequiredFlags(c) == ~c.missing /\ "" \notin {c.tier, c.provider, c.profile}

\* validate.  c.central: which of url, cert, key are set; c.tls: which of cert,
\* key, client-ca.
Validate(c) ==
    /\ RequiredFlags(c)
    /\ RuntimeTierOf(c)
    /\ c.provider \in Known.provider
    /\ c.provider = "k8s" => c.namespace
    /\ c.warm >= 0 /\ c.general >= 0 /\ c.reserved >= 0
    /\ c.warm > 0 => c.provider = "docker"
    /\ WorkloadProfileOf(c)
    /\ "url" \in c.central => {"cert", "key"} \subseteq c.central
    /\ c.central # {} => "url" \in c.central
    /\ AlgOf(c)
    /\ Cardinality(c.tls) \in {0, 3}
    /\ ResolveIdleTTL(c).ok
    /\ ResolveGrantedIntents(c)

-----------------------------------------------------------------------------
(* A process. *)

\* The construction steps of serve() up to the sequencer, each of which may
\* fail; every failure returns, and with it the deferred audit close runs.
Stages == <<"store", "profile", "signer", "execkey", "cacert", "jwks", "rotate",
            "audit", "chain", "provider", "compose", "mcpkeys", "soar", "tls">>

\* The points of the boot sequence and of serving after them that may fail.
BootPoints == {"loaddeny", "reconcile", "bindop", "bindgw", "accept"}

\* "enumeration": the store cannot list live sessions, which is tolerated.
Faults == (Range(Stages) \ {"profile", "compose"}) \cup BootPoints \cup {"none", "enumeration"}

\* Where a process is: the stage it runs next, or one of these.
Points == Range(Stages) \cup
          {"off", "parse", "create", "loaddeny", "reconcile", "warm", "bindop", "bindgw",
           "notify", "bootfail", "idle", "select", "closeop", "closegw", "drain",
           "exited", "crashed"}

Ended(d) == proc[d].pc \in {"exited", "crashed"}
Running(d) == proc[d].pc # "off" /\ ~Ended(d)

Fresh == [pc |-> "off", why |-> "none", ready |-> "notLoaded", swept |-> FALSE,
          pool |-> FALSE, audit |-> "none", op |-> "unbound", gw |-> "unbound",
          loops |-> [op |-> "idle", gw |-> "idle"], systemd |-> "none",
          reaper |-> 0, drained |-> 0]

Plane == {"op", "gw"}
LoopStates == {"idle", "run", "returned", "drained"}

Processes == [pc : Points, why : Points \cup {"none", "killswitch", "denied", "earlyAdmit"},
              ready : {"notLoaded", "ready", "storeUnavailable"}, swept : BOOLEAN,
              pool : BOOLEAN, audit : {"none", "open", "closed"},
              op : {"unbound", "open", "closed"}, gw : {"unbound", "open", "closed"},
              loops : [Plane -> LoopStates], systemd : {"none", "READY", "STOPPING"},
              reaper : Nat, drained : 0 .. 2]

\* What the deployment makes of a failing step.
Fails(d, point) == host.fault[d] = point

Update(d, fields) == proc' = [proc EXCEPT ![d] = fields]

At(d, point) == proc[d].pc = point
Goes(d, point) == [proc[d] EXCEPT !.pc = point]

\* A return from run(): the deferred close of the audit writer, then the exit;
\* the kernel closes what is still open and unlinks nothing.
Shut(state) == IF state = "open" THEN "closed" ELSE state
Exited(p, why, pc) ==
    [p EXCEPT !.pc = pc, !.why = why, !.audit = Shut(@),
              !.op = Shut(@), !.gw = Shut(@),
              !.loops = [l \in Plane |-> "idle"]]
Exit(d, why) == /\ Update(d, Exited(proc[d], why, "exited"))
                /\ port' = IF port = d THEN Nothing ELSE port

\* The process starts: a second one only where the host lets lives overlap.
Start(d) ==
    /\ At(d, "off")
    /\ \A e \in Daemons : Running(e) => host.overlap
    /\ Update(d, Goes(d, "parse"))
    /\ UNCHANGED <<host, sockFile, port, units, orphan, signalled, probe>>

\* run: parse, the -version mode, validate, then serve.
Run(d) ==
    /\ At(d, "parse")
    /\ IF host.cfg.mode = "version" \/ ~Validate(host.cfg)
       THEN Exit(d, "parse")
       ELSE Update(d, Goes(d, "store")) /\ UNCHANGED port
    /\ UNCHANGED <<host, sockFile, units, orphan, signalled, probe>>

\* What the construction step i leaves in the process.
Built(d, i) ==
    [proc[d] EXCEPT !.pc = CASE Stages[i] = "store" /\ host.cfg.create -> "create"
                             [] i = Len(Stages) -> "loaddeny"
                             [] OTHER -> Stages[i + 1],
                    !.audit = IF Stages[i] = "audit" THEN "open" ELSE @,
                    !.pool = @ \/ (Stages[i] = "compose" /\ host.cfg.warm > 0
                                    /\ host.cfg.provider = "docker")]

\* Construction steps that read a file or a service only where a flag names it:
\* openStore, LoadExecSignerFromMount, readCACertPEM, rotateAuditAtBoot,
\* LoadKeyring, buildGatewayTLSConfig.  c.paths: the optional paths that are set.
OpenStore(d) == host.cfg.full => ~Fails(d, "store")
LoadExecSignerFromMount(d) == "exec" \in host.cfg.paths => ~Fails(d, "execkey")
ReadCACertPEM(d) == "ca" \in host.cfg.paths => ~Fails(d, "cacert")
RotateAuditAtBoot(d) == "cold" \in host.cfg.paths => ~Fails(d, "rotate")
LoadKeyring(d) == "soar" \in host.cfg.paths => ~Fails(d, "soar")
BuildGatewayTLSConfig(d) == host.cfg.tls # {} => ~Fails(d, "tls")

\* The re-checks of values validate() has already accepted.
Rechecked(stage) ==
    CASE stage = "profile" -> RuntimeTierOf(host.cfg) /\ WorkloadProfileOf(host.cfg)
      [] stage = "signer" -> AlgOf(host.cfg)
      [] stage = "compose" -> ResolveGrantedIntents(host.cfg)
      [] stage = "provider" -> host.cfg.provider \in Known.provider
      [] OTHER -> TRUE

Succeeds(d, stage) ==
    CASE stage = "store" -> OpenStore(d)
      [] stage = "execkey" -> LoadExecSignerFromMount(d)
      [] stage = "cacert" -> ReadCACertPEM(d)
      [] stage = "rotate" -> RotateAuditAtBoot(d)
      [] stage = "soar" -> LoadKeyring(d)
      [] stage = "tls" -> BuildGatewayTLSConfig(d)
      [] OTHER -> ~Fails(d, stage) /\ Rechecked(stage)

\* One construction step of serve().
Construct(d) ==
    /\ \E i \in 1 .. Len(Stages) :
         /\ At(d, Stages[i])
         /\ IF Succeeds(d, Stages[i])
            THEN Update(d, Built(d, i)) /\ UNCHANGED port
            ELSE Exit(d, Stages[i])
    /\ UNCHANGED <<host, sockFile, units, orphan, signalled, probe>>

-----------------------------------------------------------------------------
(* boot.Sequencer. *)

\* Ready.
Ready(p) == p.ready = "ready"

\* LoadDeny within Boot: readiness follows the durable read.
Loaded(p, failed) == [p EXCEPT !.ready = IF failed THEN "storeUnavailable" ELSE "ready"]

\* How a call that takes the process context may end: a cancelled context may
\* fail it.
Outcomes(d, point) == {Fails(d, point), Fails(d, point) \/ d \in signalled}

\* AdmitCreate: refused before the load; afterwards Reserve decides.
AdmitCreate(p) == CASE ~Ready(p) -> "notReady"
                    [] Ready(p) /\ host.deny -> "denied"
                    [] OTHER -> "admitted"

\* serveCreateOnStart: a create before the load, Boot with no hook, a create
\* after it; whatever the outcome the process returns and binds nothing.  An
\* admitted create leaves its row, which outlives the process on the full shelf.
ServeCreateOnStart(d) ==
    /\ At(d, "create")
    /\ \E failed \in Outcomes(d, "loaddeny") :
         LET early == AdmitCreate(proc[d])
             late == AdmitCreate(Loaded(proc[d], failed)) IN
         /\ Exit(d, CASE early # "notReady" -> "earlyAdmit"
                      [] early = "notReady" /\ failed -> "loaddeny"
                      [] late = "denied" -> "denied"
                      [] OTHER -> "killswitch")
         /\ orphan' = (orphan \/ (early = "notReady" /\ late = "admitted" /\ host.cfg.full))
    /\ UNCHANGED <<host, sockFile, units, signalled, probe>>

\* Boot, up to the hook: readiness flips before the hook runs.
Boot(d) ==
    /\ At(d, "loaddeny")
    /\ \E failed \in Outcomes(d, "loaddeny") :
         Update(d, [Loaded(proc[d], failed) EXCEPT
                      !.pc = IF failed THEN "bootfail" ELSE "reconcile"])
    /\ UNCHANGED <<host, sockFile, port, units, orphan, signalled, probe>>

-----------------------------------------------------------------------------
(* The readiness hook. *)

\* Mutant of Reconcile: placeholders of an earlier pool are spared.
ReconcileSparesPool(d) ==
    /\ At(d, "reconcile")
    /\ Update(d, IF Fails(d, "reconcile") THEN Goes(d, "bootfail")
                 ELSE [Goes(d, "warm") EXCEPT !.swept = TRUE])
    /\ orphan' = FALSE
    /\ UNCHANGED <<host, sockFile, port, units, signalled, probe>>

\* Reconcile: RESERVED rows are reclaimed and every managed container without a
\* row is killed, placeholders of any pool included.  A store that cannot list
\* its sessions skips the sweep; any other failure ends the boot.
Reconcile(d) ==
    /\ At(d, "reconcile")
    /\ \E failed \in Outcomes(d, "reconcile") :
         IF failed
         THEN Update(d, Goes(d, "bootfail")) /\ UNCHANGED <<units, orphan>>
         ELSE /\ Update(d, [Goes(d, "warm") EXCEPT !.swept = TRUE])
              /\ units' = IF Fails(d, "enumeration") THEN units ELSE {}
              /\ orphan' = (orphan /\ Fails(d, "enumeration"))
    /\ UNCHANGED <<host, sockFile, port, signalled, probe>>

\* warmPool.Warm, when there is a pool.
Warm(d) ==
    /\ At(d, "warm")
    /\ Update(d, Goes(d, "bindop"))
    /\ units' = IF proc[d].pool THEN units \cup {d} ELSE units
    /\ UNCHANGED <<host, sockFile, port, orphan, signalled, probe>>

\* removeStaleSocket: the absent path and a socket are fine; any other file is
\* refused and stays.
RemoveStaleSocket == [ok |-> sockFile # RegularFile,
                      file |-> IF sockFile = RegularFile THEN RegularFile ELSE Nothing]

\* Mutant of BindOperator: a socket that is there is taken for the own one.
BindOperatorReuses(d) ==
    /\ At(d, "bindop")
    /\ IF RemoveStaleSocket.ok /\ ~Fails(d, "bindop")
       THEN /\ Update(d, [Goes(d, "bindgw") EXCEPT !.op = "open"])
            /\ sockFile' = IF sockFile = Nothing THEN d ELSE sockFile
       ELSE Update(d, Goes(d, "bootfail")) /\ UNCHANGED sockFile
    /\ UNCHANGED <<host, port, units, orphan, signalled, probe>>

\* operator Bind: directory, stale socket, listen.
BindOperator(d) ==
    /\ At(d, "bindop")
    /\ IF RemoveStaleSocket.ok /\ ~Fails(d, "bindop")
       THEN /\ Update(d, [Goes(d, "bindgw") EXCEPT !.op = "open"])
            /\ sockFile' = d
       ELSE /\ Update(d, Goes(d, "bootfail"))
            /\ sockFile' = RemoveStaleSocket.file
    /\ UNCHANGED <<host, port, units, orphan, signalled, probe>>

\* operator Close: nothing on a listener never bound; otherwise whatever is at
\* the path is removed, a second time when the listener is closed already.
OperatorClose(d, p) ==
    /\ Update(d, [p EXCEPT !.op = Shut(@)])
    /\ sockFile' = IF p.op = "unbound" THEN sockFile ELSE Nothing

\* gateway Bind; its failure closes the operator listener within the hook.
BindGateway(d) ==
    /\ At(d, "bindgw")
    /\ IF port = Nothing /\ ~Fails(d, "bindgw")
       THEN /\ Update(d, [Goes(d, "notify") EXCEPT !.gw = "open"])
            /\ port' = d
            /\ UNCHANGED sockFile
       ELSE OperatorClose(d, Goes(d, "bootfail")) /\ UNCHANGED port
    /\ UNCHANGED <<host, units, orphan, signalled, probe>>

\* notifyReady, the hook's last step.  sdNotify does nothing without a socket
\* of systemd and never fails its caller.
NotifyReady(d) ==
    /\ At(d, "notify")
    /\ Update(d, [Goes(d, "idle") EXCEPT !.systemd = IF host.systemd THEN "READY" ELSE @])
    /\ UNCHANGED <<host, sockFile, port, units, orphan, signalled, probe>>

\* serve() after a failed Boot: both listeners are closed and it returns.
BootFailed(d) ==
    /\ At(d, "bootfail")
    /\ OperatorClose(d, Exited(proc[d], "bootfail", "exited"))
    /\ port' = IF port = d THEN Nothing ELSE port
    /\ UNCHANGED <<host, units, orphan, signalled, probe>>

\* The window is resolved again and the reaper started when it is positive;
\* then serveListeners starts both Serve loops.
StartServing(d) ==
    /\ At(d, "idle")
    /\ IF ResolveIdleTTL(host.cfg).ok
       THEN /\ Update(d, [Goes(d, "select") EXCEPT
                             !.reaper = ResolveIdleTTL(host.cfg).ttl,
                             !.loops = [l \in Plane |-> "run"]])
            /\ UNCHANGED <<sockFile, port>>
       ELSE /\ OperatorClose(d, Exited(proc[d], "idle", "exited"))
            /\ port' = IF port = d THEN Nothing ELSE port
    /\ UNCHANGED <<host, units, orphan, signalled, probe>>

-----------------------------------------------------------------------------
(* Serving and the stop. *)

\* SIGINT or SIGTERM cancels the process context, at any moment of its life.
Signal(d) ==
    /\ host.stops /\ Running(d) /\ d \notin signalled
    /\ signalled' = signalled \cup {d}
    /\ UNCHANGED <<host, proc, sockFile, port, units, orphan, probe>>

\* A Serve loop returns: its server is closed by the cancelled context, its
\* listener by closeBoth, or accept fails.  Its listener is closed with it and
\* a closed unix listener unlinks its path.
LoopReturns(d, l) ==
    /\ proc[d].loops[l] = "run"
    /\ \/ d \in signalled
       \/ proc[d][l] = "closed"
       \/ Fails(d, "accept")
    /\ Update(d, [proc[d] EXCEPT ![l] = "closed", !.loops[l] = "returned"])
    /\ sockFile' = IF l = "op" /\ proc[d].op = "open" THEN Nothing ELSE sockFile
    /\ port' = IF l = "gw" /\ port = d THEN Nothing ELSE port
    /\ UNCHANGED <<host, units, orphan, signalled, probe>>

Returned(d) == {l \in Plane : proc[d].loops[l] = "returned"}

\* The select of serveListeners: the signal, or the first loop to return.
SelectSignal(d) ==
    /\ At(d, "select") /\ d \in signalled
    /\ Update(d, [Goes(d, "closeop") EXCEPT
                     !.systemd = IF host.systemd THEN "STOPPING" ELSE @])
    /\ UNCHANGED <<host, sockFile, port, units, orphan, signalled, probe>>

SelectReturn(d) ==
    /\ At(d, "select")
    /\ \E l \in Returned(d) :
         Update(d, [Goes(d, "closeop") EXCEPT !.drained = 1, !.loops[l] = "drained"])
    /\ UNCHANGED <<host, sockFile, port, units, orphan, signalled, probe>>

\* closeBoth: operator first.
CloseOperator(d) ==
    /\ At(d, "closeop")
    /\ OperatorClose(d, Goes(d, "closegw"))
    /\ UNCHANGED <<host, port, units, orphan, signalled, probe>>

CloseGateway(d) ==
    /\ At(d, "closegw")
    /\ Update(d, [Goes(d, "drain") EXCEPT !.gw = Shut(@)])
    /\ port' = IF port = d THEN Nothing ELSE port
    /\ UNCHANGED <<host, sockFile, units, orphan, signalled, probe>>

\* The drain: a returned loop is counted ...
Drain(d) ==
    /\ At(d, "drain") /\ proc[d].drained < 2
    /\ \E l \in Returned(d) :
         Update(d, [proc[d] EXCEPT !.drained = @ + 1, !.loops[l] = "drained"])
    /\ UNCHANGED <<host, sockFile, port, units, orphan, signalled, probe>>

\* Mutant of DrainEnds: no drainTimeout.
DrainUnbounded(d) ==
    /\ At(d, "drain") /\ proc[d].drained = 2
    /\ Exit(d, "drain")
    /\ UNCHANGED <<host, sockFile, units, orphan, signalled, probe>>

\* ... until both are, or drainTimeout passes (at any count).
DrainEnds(d) ==
    /\ At(d, "drain")
    /\ Exit(d, "drain")
    /\ UNCHANGED <<host, sockFile, units, orphan, signalled, probe>>

\* The process dies; only the kernel cleans up, so its socket file stays.
Crash(d) ==
    /\ Running(d) /\ host.crashes
    /\ Update(d, Exited(proc[d], "none", "crashed"))
    /\ port' = IF port = d THEN Nothing ELSE port
    /\ UNCHANGED <<host, sockFile, units, orphan, signalled, probe>>

-----------------------------------------------------------------------------
(* The -health-check client. *)

\* healthCheck dials the path: a listener there takes the connection into its
\* backlog, served or not; otherwise the verdict is red.
ProbeDials ==
    /\ host.probed /\ probe.state # "dialed"
    /\ \E d \in Daemons : Running(d)
    /\ probe' = IF sockFile \in Daemons /\ proc[sockFile].op = "open"
                THEN [state |-> "dialed", to |-> sockFile]
                ELSE [state |-> "red", to |-> Nothing]
    /\ UNCHANGED <<host, proc, sockFile, port, units, orphan, signalled>>

\* The Healthz handler answers from a running Serve loop: 200 when Ready.
ProbeAnswered ==
    /\ probe.state = "dialed" /\ proc[probe.to].loops.op = "run"
    /\ probe' = [probe EXCEPT !.state = IF Ready(proc[probe.to]) THEN "green" ELSE "red"]
    /\ UNCHANGED <<host, proc, sockFile, port, units, orphan, signalled>>

\* healthCheckTimeout, or the connection is reset with its listener.
ProbeFails ==
    /\ probe.state = "dialed"
    /\ probe' = [state |-> "red", to |-> Nothing]
    /\ UNCHANGED <<host, proc, sockFile, port, units, orphan, signalled>>

-----------------------------------------------------------------------------
Hosts == [cfg : Configs, deny : BOOLEAN, fault : [Daemons -> Faults],
          overlap : BOOLEAN, stops : BOOLEAN, crashes : BOOLEAN, systemd : BOOLEAN, probed : BOOLEAN]

DaemonInit(hosts, files) ==
    /\ host \in hosts
    /\ proc = [d \in Daemons |-> Fresh]
    /\ sockFile \in files
    /\ port = Nothing
    /\ units = {}
    /\ orphan \in {FALSE, host.cfg.full}
    /\ signalled = {}
    /\ probe = [state |-> "idle", to |-> Nothing]

\* One step of a process that its own code takes.
Step(d) == \/ Run(d) \/ Construct(d) \/ ServeCreateOnStart(d) \/ Boot(d)
           \/ Reconcile(d) \/ Warm(d) \/ BindOperator(d) \/ BindGateway(d)
           \/ NotifyReady(d) \/ BootFailed(d) \/ StartServing(d)
           \/ SelectSignal(d) \/ SelectReturn(d) \/ CloseOperator(d) \/ CloseGateway(d)
           \/ DrainEnds(d)

Loops(d) == \/ \E l \in Plane : LoopReturns(d, l)
            \/ Drain(d)

Probe == ProbeDials \/ ProbeAnswered \/ ProbeFails

DaemonNext == \/ \E d \in Daemons : Start(d) \/ Step(d) \/ Loops(d) \/ Signal(d) \/ Crash(d)
              \/ Probe

\* The Go scheduler and the drain timer run a process that can step; a Serve
\* loop may be wedged, so nothing is assumed of it.
DaemonFairness == \A d \in Daemons : WF_daemonVars(Step(d))

-----------------------------------------------------------------------------
(* Properties. *)

DaemonType ==
    /\ host \in Hosts
    /\ proc \in [Daemons -> Processes]
    /\ sockFile \in Daemons \cup {Nothing, RegularFile}
    /\ port \in Daemons \cup {Nothing}
    /\ units \subseteq Daemons
    /\ orphan \in BOOLEAN
    /\ signalled \subseteq Daemons
    /\ probe \in [state : {"idle", "dialed", "green", "red"}, to : Daemons \cup {Nothing}]

Serving(d) == At(d, "select") /\ \A l \in Plane : proc[d].loops[l] = "run"

\* No socket before the posture (serve, SetOnReady): whenever a listener of a
\* process is open, that process has read the durable deny posture and finished
\* the sweep, whatever failed or was cancelled on the way.
BoundAfterPosture ==
    \A d \in Daemons : "open" \in {proc[d].op, proc[d].gw} =>
        Ready(proc[d]) /\ proc[d].swept

\* A process that returns leaves nothing (serve, serveListeners): however it
\* ended, its port is free, its socket is gone from the path and its audit
\* writer is closed.
ReturnLeavesNothing ==
    \A d \in Daemons : At(d, "exited") =>
        /\ port # d /\ sockFile # d
        /\ proc[d].audit # "open"
        /\ "open" \notin {proc[d].op, proc[d].gw}

\* A serving process is the one clients reach (Bind, removeStaleSocket): its
\* socket is the one at the path and the port is its own, after a crash that
\* left the socket of an earlier process behind too.
ServingReachable == \A d \in Daemons : Serving(d) => sockFile = d /\ port = d

\* Port and socket belong to the process that serves (Bind, removeStaleSocket,
\* serveListeners): a serving one is reached through both, a process that returned
\* has left neither behind.
EndpointsOwned == ServingReachable /\ ReturnLeavesNothing

\* The hook's order (Reconcile, then Warm): a process serves with its own warm
\* units alive, none of an earlier process beside them, and no row left by an
\* earlier create; only a store that cannot list sessions escapes this.
SweptBeforeServing ==
    \A d \in Daemons : Serving(d) /\ ~Fails(d, "enumeration") =>
        /\ units = IF proc[d].pool THEN {d} ELSE {}
        /\ ~orphan

\* A green verdict (healthCheck, Healthz): the answer comes from a process that
\* has loaded the posture, swept, bound both planes and, under systemd, said so.
GreenMeansServing ==
    probe.state # "green" /\ probe'.state = "green" =>
        LET p == proc[probe.to] IN
        /\ Ready(p) /\ p.swept /\ p.gw # "unbound"
        /\ host.systemd => p.systemd # "none"

\* Nobody is served, or told that somebody is, before the posture is read and the
\* sweep is over (serve, SetOnReady, healthCheck).
ServesAfterSweep ==
    [][BoundAfterPosture' /\ SweptBeforeServing' /\ GreenMeansServing]_daemonVars

\* The stop is bounded (serveListeners, drainTimeout): a process sent SIGTERM
\* ends, a wedged Serve loop notwithstanding.
StopEnds == \A d \in Daemons : d \in signalled ~> Ended(d)

\* The boot is not inert: a process started ends or comes to serve, and on a
\* host where nothing fails, or only what no flag names, it serves unless it is
\* stopped.
BootDecides ==
    \A d \in Daemons :
        /\ At(d, "parse") ~> Ended(d) \/ At(d, "select")
        /\ At(d, "parse") /\ Validate(host.cfg)
             /\ \/ Fails(d, "none")
                \/ host.fault[d] \in {"execkey", "cacert", "rotate", "soar"} /\ host.cfg.paths = {}
             /\ host.cfg.mode = "serve" /\ ~host.cfg.create /\ sockFile # RegularFile
           ~> d \in signalled \/ At(d, "crashed") \/ Serving(d)

\* A process gets somewhere (serve, serveListeners): a boot ends or serves, and a
\* stop ends.
ProcessesDecide == StopEnds /\ BootDecides
=============================================================================
