------------------------ MODULE MCMonitoringObserve ------------------------
(* A small instance of MonitoringObserve.  The name "unknown" is mapped to  *)
(* a component, labels contain NUL where that could make two series look    *)
(* alike, and times lie on both sides of those that can be encoded.         *)
EXTENDS MonitoringObserve

Scr(id, job, instance) == [id |-> id, job |-> job, instance |-> instance]
Cmp(alert, component) == [alert |-> alert, component |-> component]
UpTo(n, S) == UNION {[1 .. k -> S] : k \in 0 .. n}

MCScrapes == {Scr("a", <<1>>, <<>>), Scr("b", <<1>>, <<2>>),
              Scr("b", <<1, NUL, 2>>, <<>>), Scr("c", <<1, 2>>, <<>>),
              Scr("invalid", <<1>>, <<>>), Scr("d", <<1, 1, 1, 1>>, <<>>)}
MCConfigs ==
    {[scrapes |-> s, components |-> <<Cmp(2, "db")>>] : s \in UpTo(3, MCScrapes)}
    \cup {[scrapes |-> <<Scr("a", <<1>>, <<>>)>>, components |-> c] :
             c \in UpTo(2, {Cmp(1, "web"), Cmp(2, "web"), Cmp(2, "db"), Cmp(0, "db"),
                            Cmp(1, "invalid")})}

MCRawLimits == {-1, 0, 2, 3}

Alert(name, severity, startsAt) ==
    [name |-> name, severity |-> severity, startsAt |-> startsAt]
MCAlertBodies ==
    UpTo(3, {Alert(0, "warn", 2), Alert(2, "warning", 2), Alert(2, "warning", Nil),
             Alert(1, "critical", 4), Alert(1, "free text", 1),
             Alert(2, "info", 5)})

Sample(job, instance, at, value) ==
    [job |-> job, instance |-> instance, at |-> at, value |-> value]
MCSampleBodies ==
    UpTo(3, {Sample(<<1>>, <<>>, 1, "1"), Sample(<<1>>, <<2>>, 1, "-0"),
             Sample(<<1>>, <<2, NUL>>, 1, "1.0"), Sample(<<1, 2>>, <<>>, 2, "1"),
             Sample(<<1, NUL, 2>>, <<>>, 1, "NaN"), Sample(<<2>>, <<>>, -1, "2")})

=============================================================================
