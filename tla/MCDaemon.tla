------------------------------ MODULE MCDaemon ------------------------------
(***************************************************************************)
(* Two processes of the daemon, one after the other on a host, and the     *)
(* channels of one process into two guests, on small instances.            *)
(***************************************************************************)
EXTENDS Daemon, GuestChannel

\* A valid invocation on the minimal shelf.
Minimal == [mode |-> "serve", create |-> FALSE, missing |-> FALSE, tier |-> "runc",
            provider |-> "docker", namespace |-> FALSE, warm |-> 0, general |-> 0,
            reserved |-> 0, profile |-> "untrusted", central |-> {}, alg |-> "eddsa",
            tls |-> {}, full |-> FALSE, paths |-> {}, idle |-> 0, intents |-> {"unset"}]
Full == [Minimal EXCEPT !.full = TRUE, !.warm = 1, !.tls = {"cert", "key", "ca"},
                        !.paths = {"exec", "ca", "cold", "soar"}, !.central = {"url", "cert", "key"}, !.intents = {"read"}]

\* The invocations one flag away from those two.
Edited(c) ==
    {[c EXCEPT !.mode = "version"], [c EXCEPT !.create = TRUE], [c EXCEPT !.missing = TRUE],
     [c EXCEPT !.provider = "k8s"], [c EXCEPT !.provider = "k8s", !.namespace = TRUE],
     [c EXCEPT !.provider = "k8s", !.namespace = TRUE, !.warm = 0],
     [c EXCEPT !.provider = "nomad"],
     [c EXCEPT !.tier = ""], [c EXCEPT !.tier = "kata"], [c EXCEPT !.profile = "other"],
     [c EXCEPT !.alg = "rs256"], [c EXCEPT !.general = -1], [c EXCEPT !.reserved = -1]}
    \cup {[c EXCEPT !.warm = w] : w \in -1 .. 1}
    \cup {[c EXCEPT !.central = x] : x \in SUBSET {"url", "cert", "key"}}
    \cup {[c EXCEPT !.tls = x] : x \in SUBSET {"cert", "key", "ca"}}
    \cup {[c EXCEPT !.idle = i] : i \in {-1, 0, 1, 15, 16}}
    \cup {[c EXCEPT !.intents = x] : x \in {{}, {"read", "write"}, {"read", "append"}}}

AllConfigs == Edited(Minimal) \cup Edited(Full)

Calm == [d \in Daemons |-> "none"]
Quiet == [cfg |-> Full, deny |-> FALSE, fault |-> Calm, overlap |-> FALSE, stops |-> FALSE,
          crashes |-> FALSE, systemd |-> TRUE, probed |-> FALSE]

\* Every invocation on a host where nothing fails.
Flags == {[Quiet EXCEPT !.cfg = c, !.deny = b, !.systemd = b] :
            c \in AllConfigs, b \in BOOLEAN}

\* Any one point failing in one of two lives, with stops at any moment; crashes
\* at any moment; a probe beside a life that is stopped or whose accept fails.
OneFault == {f \in [Daemons -> Faults] : \E d \in Daemons : f[d] = "none"}
Failing == {[Quiet EXCEPT !.cfg = c, !.fault = f, !.stops = TRUE] :
              c \in {Minimal, [Full EXCEPT !.create = TRUE]}, f \in OneFault}
Crashing == {[Quiet EXCEPT !.crashes = TRUE, !.cfg = c] :
               c \in {Minimal, [Full EXCEPT !.create = TRUE]}}
Probed == {[Quiet EXCEPT !.probed = TRUE, !.stops = TRUE,
                         !.fault = [d \in Daemons |-> f]] :
             f \in {"none", "accept", "bindgw"}}

-----------------------------------------------------------------------------
Exec(s, t, before, at, cancels) ==
    [session |-> s, wellFormed |-> TRUE, timeout |-> t, cancels |-> cancels,
     before |-> before, readyAt |-> at]
Staged == [leafOwned |-> TRUE, parentOwned |-> TRUE, parentPrivate |-> TRUE]

P(execs, dirs, destroys, breaks, answer) ==
    [exec |-> execs, dir |-> dirs, destroys |-> destroys, breaks |-> breaks, answer |-> answer]

AnyGuest == CHOOSE s \in Guests : TRUE
AllStaged == [s \in Guests |-> Staged]
Plain(e) == Exec(AnyGuest, 0, "absent", 0, FALSE)
Calls == [e \in Execs |-> Plain(e)]
Some == CHOOSE e \in Execs : TRUE

\* Every guest that comes up late, every requested window.
Cold == {P([Calls EXCEPT ![Some] = Exec(AnyGuest, t, b, at, FALSE)], AllStaged, {}, FALSE,
           EncodeReply("error")) :
           t \in {0, 2, TotalExecCap + 1}, b \in {"absent", "refused", "silent", "broken"},
           at \in {0, 1, 3, 4, 8} \cup DialWaitBudget - 1 .. DialWaitBudget + 1}

\* Queues: the execs of one session or of two, withdrawals and broken channels,
\* destroys.
Shared == [e \in Execs |-> AnyGuest]
Apart == [Shared EXCEPT ![Some] = CHOOSE s \in Guests : s # AnyGuest]
Queued == {P([e \in Execs |-> Exec(f[e], 0, "absent", 0, c)], AllStaged, d, c, EncodeReply("accepted")) :
             f \in {Shared, Apart}, c \in BOOLEAN, d \in {{}, {AnyGuest}}}

\* Every layout of the directory; every frame a guest may answer with.
Layouts == {P(Calls, [s \in Guests |-> l], {}, FALSE, EncodeReply("error")) : l \in Directory}
           \cup {P([e \in Execs |-> [Plain(e) EXCEPT !.wellFormed = FALSE]], AllStaged, {}, FALSE,
                   EncodeReply("error"))}
Answers == {P([e \in Execs |-> [Plain(e) EXCEPT !.wellFormed = FALSE]], AllStaged, {AnyGuest}, FALSE, a) :
              a \in Frames}

-----------------------------------------------------------------------------
VARIABLE part  \* which of the two a behaviour is about

vars == <<daemonVars, channelVars, part>>

OneOf(S) == {CHOOSE x \in S : TRUE}

Init == \/ /\ part = "daemon"
           /\ DaemonInit(Flags \cup Failing \cup Crashing \cup Probed, {Nothing, RegularFile})
           /\ ChannelInit(OneOf(Layouts))
        \/ /\ part = "guest"
           /\ DaemonInit({Quiet}, {Nothing}) /\ orphan = FALSE
           /\ ChannelInit(Cold \cup Queued \cup Layouts \cup Answers)

Next == \/ part = "daemon" /\ DaemonNext /\ UNCHANGED <<channelVars, part>>
        \/ part = "guest" /\ ChannelNext /\ UNCHANGED <<daemonVars, part>>

\* DaemonFairness and ChannelFairness of the part a behaviour is about.
Spec == /\ Init /\ [][Next]_vars
        /\ \A d \in Daemons : WF_vars(part = "daemon" /\ Step(d) /\ UNCHANGED <<channelVars, part>>)
        /\ \A e \in Execs : WF_vars(part = "guest" /\ ExecStep(e) /\ UNCHANGED <<daemonVars, part>>)
        /\ \A s \in Guests : WF_vars(part = "guest" /\ DestroyStep(s) /\ UNCHANGED <<daemonVars, part>>)

TypeOK == DaemonType /\ ChannelType
=============================================================================
