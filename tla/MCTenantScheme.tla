-------------------------- MODULE MCTenantScheme --------------------------
(* Instances of TenantScheme: a service g with a general host, a public    *)
(* service s, the shopping service, one or two child namespaces.           *)
EXTENDS TenantScheme, TLC

G1 == Host("g1", "cloud")
G2 == Host("g2", "cloud")
A == Host("a", "own")
B == Host("b", "own")

MCServiceId == [s |-> "", g |-> "gid"] @@ (Shopping :> "")
MCPublic == [home |-> {"s"}, n1 |-> {"g", Shopping}, n2 |-> {}]
MCNames == <<"tenant-t", "tenant-t1">>
MCGeneralRoutes ==
    {[ns |-> "home", service |-> "s", host |-> G1, id |-> ""],
     [ns |-> "n1", service |-> "g", host |-> G2, id |-> "gid"]}

Parents(p1, p2) == [home |-> "missing", n1 |-> p1, n2 |-> p2]
MCParentMaps ==
    {Parents("missing", "missing"), Parents("home", "n1"), Parents("home", "")}

Lists == {<<A>>, <<G1>>, <<G1, A>>, <<A, G2>>, <<A, G1, B>>, <<G1, G2, A>>}
MCSites ==
    {[default |-> [s |-> l]] : l \in Lists}
    \union {[other |-> [s |-> <<A, B>>], default |-> (Shopping :> <<A>>)],
            [default |-> (Shopping :> <<G1, B>>) @@ [s |-> <<A>>]], <<>>}

Body(sites, active, namespaces, domain, service) ==
    [sites |-> sites, active |-> active, namespaces |-> namespaces,
     domain |-> domain, service |-> service, name |-> "t"]

MCBodies ==
    {Body(sites, status[1], namespaces, status[2], "")
        : sites \in MCSites, namespaces \in {<<>>, <<"home", "n1">>},
          status \in {<<TRUE, "">>, <<FALSE, "">>, <<FALSE, "d">>}}
    \union {Body([default |-> (Shopping :> <<A>>)], TRUE, namespaces, "", "shop-t")
        : namespaces \in {<<"home", "n1", "n2">>, <<"n1", "home">>, <<"n1", "n2">>}}
    \union {Body([default |-> (Shopping :> <<A>>) @@ [s |-> <<B>>]], TRUE, <<"home", "home", "n1">>,
                 "", service) : service \in {"s", Shopping}}
    \union {Body([other |-> (Shopping :> <<B>>), default |-> [s |-> <<A>>]], FALSE,
                 <<"home", "n1">>, domain, "") : domain \in {"", "d"}}
=============================================================================
