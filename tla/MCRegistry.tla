----------------------------- MODULE MCRegistry -----------------------------
(* A small instance of Registry for TLC: all sequences of up to three of    *)
(* these sources, in the order Kubernetes, monitoring, Flux.                *)
EXTENDS Registry

Source(family, id, kind, caps) ==
    [family |-> family, nil |-> FALSE, id |-> id, kind |-> kind, caps |-> caps]

MCSources ==
    {[family |-> "flux", nil |-> TRUE, id |-> "a", kind |-> "flux", caps |-> <<>>],
     Source("kubernetes", "a", "flux", <<"flux.unhealthy-reconciliations">>),
     Source("monitoring", "bad", "monitoring", <<"monitoring.scrape-health">>),
     Source("kubernetes", "a", "kubernetes", <<"monitoring.scrape-health">>),
     Source("kubernetes", "a", "kubernetes",
            <<"kubernetes.cluster-health", "kubernetes.cluster-health">>)}
    \cup {Source("flux", id, "flux", caps) : id \in {"a", "b"},
            caps \in {<<>>, <<"flux.unhealthy-reconciliations">>,
                      <<"kubernetes.cluster-health">>}}
    \cup {Source("kubernetes", id, "kubernetes", caps) : id \in {"a", "b"},
            caps \in {<<"kubernetes.cluster-health">>,
                      <<"kubernetes.unhealthy-workloads",
                        "kubernetes.cluster-health">>}}
    \cup {Source("monitoring", id, "monitoring", caps) : id \in {"a", "b"},
            caps \in {<<"monitoring.active-alerts">>,
                      <<"monitoring.active-alerts", "monitoring.scrape-health">>}}

Rank(s) == CASE s.family = "kubernetes" -> 1
             [] s.family = "monitoring" -> 2
             [] s.family = "flux" -> 3

MCSourceSets ==
    {s \in UNION {[1 .. n -> MCSources] : n \in 0 .. 3} :
        \A i, j \in DOMAIN s : i < j => Rank(s[i]) <= Rank(s[j])}

=============================================================================
