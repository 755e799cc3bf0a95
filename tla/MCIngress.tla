------------------------------ MODULE MCIngress ------------------------------
(* The ingress planes, the replay guard and the quota gate on small loads.    *)
EXTENDS Ingress, ReplayGuard, QuotaGate

Q(c, t, b) == [conn |-> c, route |-> t, body |-> b]
L(p, cs, qs, h, d, k, t) == [plane |-> p, conns |-> cs, reqs |-> qs, hangups |-> h,
                             drops |-> d, keys |-> k, ticks |-> t]

T(sans) == [verified |-> TRUE, leaf |-> sans]
Bare == [verified |-> FALSE, leaf |-> <<"t/a">>]

MCLoads ==
    {\* two callers fill the general pool while the kill switch is pulled twice
     L("operator", <<"u1", "u2", "u1", "u2">>,
       <<Q(1, "create", "ok"), Q(2, "destroy", "ok"), Q(3, "revoke_one", "ok"),
         Q(4, "revoke_all", "ok")>>, FALSE, FALSE, TRUE, FALSE),
     \* one caller over its rate, on two connections, one of them late
     L("operator", <<"u1", "u1">>,
       <<Q(1, "create", "ok"), Q(1, "list", "none"), Q(1, "mcp_create", "ok"),
         Q(2, "list", "none")>>, FALSE, FALSE, FALSE, TRUE),
     \* probes and an unattested connection, with clients that hang up
     L("operator", <<"unattested", "u1", "u2">>,
       <<Q(1, "create", "ok"), Q(1, "deployment", "none"), Q(2, "healthz", "none"),
         Q(3, "metrics", "none")>>, TRUE, TRUE, FALSE, FALSE),
     \* requests in turn on one connection while the trail refuses records
     L("operator", <<"u1", "u2">>,
       <<Q(1, "resume_all", "ok"), Q(1, "mcp_revoke", "ok"), Q(1, "create", "large"),
         Q(2, "create", "invalid")>>, TRUE, TRUE, TRUE, FALSE),
     \* h2: concurrent requests of one connection
     L("gateway", <<T(<<"dns", "t/a">>), T(<<"dns">>)>>,
       <<Q(1, "create", "ok"), Q(1, "exec", "ok"), Q(2, "rpc_create", "ok")>>, FALSE, TRUE, FALSE, FALSE),
     L("gateway", <<T(<<"t/a">>), Bare>>,
       <<Q(1, "rpc_create", "invalid"), Q(1, "rpc_route", "ok"), Q(1, "rpc_destroy", "ok"),
         Q(2, "destroy", "malformed")>>, FALSE, TRUE, FALSE, FALSE),
     L("gateway", <<T(<<"t/a">>), Bare>>,
       <<Q(1, "create", "large"), Q(1, "exec", "invalid"), Q(1, "destroy", "ok"),
         Q(2, "status", "ok")>>, FALSE, FALSE, FALSE, FALSE)}

MCCallers == {"u1", "u2", "unattested"}
MCRequests == 1 .. 4

Ring == {[name |-> "soar", keys |-> {"k1", "k2"}]}

MCDesks ==
    {[keyring |-> Ring, issued |-> <<1, 2>>, of |-> <<1, 1, 2>>, signer |-> <<"k1", "k1", "k2">>],
     [keyring |-> Ring, issued |-> <<3, 0>>, of |-> <<1, 2, 2>>, signer |-> <<"k1", "forged", "k2">>],
     [keyring |-> {}, issued |-> <<0, 0>>, of |-> <<1, 1, 1>>, signer |-> <<"k1", "k1", "k1">>]}

MCOwners == {<<"t1", "u1">>, <<"t1", "u2">>, <<"t2", "u1">>}

ByOwner == <<<<"t1", "u1">>, <<"t1", "u2">>, <<"t2", "u1">>>>

P(b, r, l, f, back, ovr) == [backend |-> b, rate |-> r, level |-> l, owner |-> ByOwner,
                             faults |-> f, setback |-> back, overrides |-> ovr]

MCPolicies ==
    {\* a tenant of two callers and a caller of two tenants, each over a limit
     P("postgres", 1, 2, {"unanswered", "refund"}, FALSE, {}),
     P("postgres", 2, 1, {"stage"}, TRUE, {}),
     P("memory", 1, 1, {"charge"}, FALSE, {}),
     \* an operator changes the counters meanwhile
     P("postgres", 2, 1, {"audit"}, FALSE, {"level"})}

VARIABLE part  \* which of the three a behaviour is about

mcVars == <<ingressVars, gateVars, replayVars, quotaVars, part>>

\* One part moves; the others rest in one initial state.
PlanesRest == IngressInit /\ load = CHOOSE l \in Loads : l.plane = "operator"
SoarRests == ReplayInit /\ desk = CHOOSE d \in Desks : KeyringOK(d)
QuotaRests == QuotaInit /\ policy = CHOOSE p \in Policies : TRUE

MCInit == \/ part = "planes" /\ IngressInit /\ SoarRests /\ QuotaRests
          \/ part = "soar" /\ PlanesRest /\ ReplayInit /\ QuotaRests
          \/ part = "quota" /\ PlanesRest /\ SoarRests /\ QuotaInit

MCNext == \/ part = "planes" /\ IngressNext /\ UNCHANGED <<replayVars, quotaVars, part>>
          \/ part = "soar" /\ ReplayNext /\ UNCHANGED <<ingressVars, gateVars, quotaVars, part>>
          \/ part = "quota" /\ QuotaNext /\ UNCHANGED <<ingressVars, gateVars, replayVars, part>>

MCFair == \A r \in Requests : IngressFair(r)

MCSpec == MCInit /\ [][MCNext]_mcVars /\ MCFair

\* The types of the state of the three parts.
PlanesType == IngressType /\ ReplayType /\ QuotaType
=============================================================================
