------------------------------ MODULE MCAutoFix ------------------------------
EXTENDS AutoFix

CONSTANTS ui, a, b, db, gate

\* Two services (b's name is like a database's), a user interface, a database that is only a
\* service entry, and a "bff" that only links name.
MCTypes == [w \in Words |-> CASE w = db -> "database" [] w = gate -> "api_gateway"
                              [] w = "bff" -> "none" [] OTHER -> "service"]

\* Every call between two nodes but those of the database; services may call themselves,
\* and each other without waiting; the "bff" is between the user interface and the services.
MCLinks ==
    ({<<f, t, TRUE>> : f \in Words \ {db, "bff"}, t \in Words \ {"bff"}} \ {<<w, w, TRUE>> : w \in {ui, gate}})
    \cup {<<a, b, FALSE>>, <<b, a, FALSE>>}
    \cup {l \in {<<ui, "bff", TRUE>>, <<"bff", a, TRUE>>, <<"bff", b, TRUE>>} : "bff" \in Words}
=============================================================================
