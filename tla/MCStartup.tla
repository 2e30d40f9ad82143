----------------------------- MODULE MCStartup -----------------------------
(* A small instance of Startup: configurations that are accepted, and one   *)
(* for each reason to refuse one.                                           *)
EXTENDS Startup

Args(mode, valid, version, config) ==
    [mode |-> mode, valid |-> valid, version |-> version, config |-> config]
MCArguments ==
    {Args("serve-http", TRUE, FALSE, TRUE), Args("serve-http", TRUE, FALSE, FALSE),
     Args("serve-http", FALSE, FALSE, TRUE), Args("stdio", TRUE, TRUE, FALSE),
     Args("stdio", TRUE, FALSE, FALSE), Args("stdio", TRUE, FALSE, TRUE)}

Scope(id, namespace) == [id |-> id, namespace |-> namespace]
Kubernetes ==
    [id |-> "a", kind |-> "kubernetes", httpsOrigin |-> TRUE, token |-> FALSE,
     ca |-> "none", timeout |-> Unset, scopes |-> <<Scope("s", "n")>>,
     services |-> {}, series |-> "none"]
Flux == [Kubernetes EXCEPT !.id = "b", !.kind = "flux", !.token = TRUE,
                           !.timeout = MaxRequestTimeout, !.ca = "valid"]
Monitoring == [Kubernetes EXCEPT !.id = "c", !.kind = "monitoring",
                 !.scopes = <<>>, !.services = {"prometheus", "alertmanager"},
                 !.series = "valid", !.timeout = 0]

Refused ==
    {[Kubernetes EXCEPT !.id = "bad"], [Kubernetes EXCEPT !.kind = "other"],
     [Kubernetes EXCEPT !.httpsOrigin = FALSE], [Kubernetes EXCEPT !.ca = "invalid"],
     [Kubernetes EXCEPT !.timeout = Unparsable], [Kubernetes EXCEPT !.timeout = -1],
     [Kubernetes EXCEPT !.timeout = MaxRequestTimeout + 1],
     [Flux EXCEPT !.scopes = <<>>], [Flux EXCEPT !.scopes = <<Scope("bad", "n")>>],
     [Flux EXCEPT !.scopes = <<Scope("s", "n"), Scope("s", "m")>>],
     [Flux EXCEPT !.scopes = <<Scope("s", "n"), Scope("t", "n")>>],
     [Flux EXCEPT !.services = {"prometheus"}],
     [Monitoring EXCEPT !.services = {"prometheus"}],
     [Kubernetes EXCEPT !.series = "invalid"], [Flux EXCEPT !.series = "valid"],
     [Monitoring EXCEPT !.series = "none"], [Monitoring EXCEPT !.series = "invalid"],
     [Monitoring EXCEPT !.scopes = <<Scope("s", "n")>>]}

OneObject(list) == [form |-> "one object", targets |-> list]
MCFiles ==
    {[form |-> "other", targets |-> <<>>], OneObject(<<>>),
     OneObject(<<Kubernetes, Flux, Monitoring, [Kubernetes EXCEPT !.id = "d"]>>),
     OneObject(<<Flux, [Kubernetes EXCEPT !.id = "b"]>>),
     OneObject(<<Flux, Monitoring, Kubernetes>>),
     OneObject(<<Monitoring, [Kubernetes EXCEPT !.id = "d"], Kubernetes>>)}
    \cup {OneObject(<<Kubernetes, t>>) : t \in Refused}

MCForeignAnswers ==
    {[status |-> s, body |-> b] : s \in {200, 302},
        b \in {<<"o", "k">>, OK, OK \o <<"!">>, OK \o <<"!", "!">>}}
    \ {[status |-> 200, body |-> OK]}

=============================================================================
