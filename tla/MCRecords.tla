------------------------------ MODULE MCRecords ------------------------------
(* What the daemon keeps on record, on small instances: the audit trail, the  *)
(* caller keys and the storage signing keys.                                  *)
EXTENDS AuditTrail, MCPKeys, Signing, TLC

Shelf(b, f, s, x, r, vs, faults) ==
    [backend |-> b, file |-> f, serial |-> s, expiring |-> x, expiry |-> 1,
     restarts |-> r, verbs |-> vs, faults |-> faults]

Three(a, b, c) == <<a, b, c>>
New(k) == <<"create", k>>
Old(k) == <<"revoke", k>>

MCShelves ==
    {Shelf(b, f, TRUE, {}, 1, Three(New(1), New(2), Old(1)), {"audit", "write"}) :
        b \in {"memory", "postgres"}, f \in BOOLEAN}
    \cup {Shelf("memory", TRUE, TRUE, {2}, 0, Three(New(1), New(2), Old(1)), {"store", "mint"}),
          Shelf("postgres", TRUE, FALSE, {}, 0, Three(New(1), Old(1), New(2)), {"audit"}),
          Shelf("memory", TRUE, TRUE, {}, 1, Three(New(1), Old(1), Old(1)), {"write", "store"})}

RaceShelves == {Shelf("memory", TRUE, FALSE, {}, 0, Three(New(1), Old(1), New(2)), {})}

Req(fs, i, down, scoped) == [filesystem |-> fs, intent |-> i, downloadable |-> down, scoped |-> scoped]
Good == Req(TRUE, "write", FALSE, FALSE)

B(k, a, pinned, req, early, r) == [key |-> k, alg |-> a, pinned |-> pinned, req |-> req,
                                   early |-> early, restarts |-> r]

MCBenches == {B("eddsa", "eddsa", TRUE, Good, TRUE, FALSE),
              B("es256", "es256", TRUE, Good, FALSE, TRUE),
              B("eddsa", "es256", TRUE, Good, TRUE, FALSE),
              B("rsa", "rsa", TRUE, Good, TRUE, FALSE),
              B("eddsa", "eddsa", FALSE, Good, TRUE, FALSE),
              B("eddsa", "eddsa", TRUE, Req(TRUE, "read", TRUE, FALSE), TRUE, FALSE)}

VARIABLE service  \* which of the three a behaviour is about

allVars == <<vars, mcpVars, signVars, service>>

\* One service moves; the others rest in one initial state.
TrailRests == Init /\ ~coldDir /\ ~fanIn
ShelfRests == MCPInit /\ shelf = CHOOSE s \in Shelves : TRUE
BenchRests == SignInit /\ bench = CHOOSE b \in Benches : TRUE

RecordsInit ==
    \/ service = "trail" /\ Init /\ ShelfRests /\ BenchRests
    \/ service = "mcp" /\ TrailRests /\ MCPInit /\ BenchRests
    \/ service = "storage" /\ TrailRests /\ ShelfRests /\ SignInit

RecordsNext ==
    \/ service = "trail" /\ Next /\ UNCHANGED <<mcpVars, signVars, service>>
    \/ service = "mcp" /\ MCPNext /\ UNCHANGED <<vars, signVars, service>>
    \/ service = "storage" /\ SignNext /\ UNCHANGED <<vars, mcpVars, service>>

RecordsSpec == RecordsInit /\ [][RecordsNext]_allVars

\* The types of the state of the three services.
RecordsType == TypeOK /\ MCPType /\ SignType

\* The sessions that tokens are minted for are interchangeable.
HolderSymmetry == Permutations(Holders)
=============================================================================
