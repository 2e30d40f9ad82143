----------------------------- MODULE MCToolCall -----------------------------
(* Small instances of ToolCall for TLC. *)
EXTENDS ToolCall

MCConfigured == [kubernetes |-> {"cluster"}, monitoring |-> {"mon"},
                 flux |-> {"flux"}]

Request(tool, target, scope, decodes, limitOK, strict) ==
    [tool |-> tool, target |-> target, scope |-> scope, decodes |-> decodes,
     limitOK |-> limitOK, strict |-> strict]

(* Every tool, with targets of its own family, of another one, of none, and *)
(* malformed, and every way in which the rest of the input can be wrong.    *)
AllInputs ==
    {Request(tool, target, scope, decodes, limitOK, strict) :
        tool \in Tools \cup {"unsupported"},
        target \in {"cluster", "mon", "flux", "other", "bad"},
        scope \in {"", "system", "bad"}, decodes \in BOOLEAN,
        limitOK \in BOOLEAN, strict \in BOOLEAN}

(* A request answered without a source, for the interleavings of calls that *)
(* contend for the audit log.                                               *)
LogInputs ==
    {Request("kubernetes_get_cluster_health", "other", "", TRUE, TRUE, TRUE)}

(* One request to a source. *)
OneInput ==
    {Request("kubernetes_get_cluster_health", "cluster", "", TRUE, TRUE, TRUE)}

=============================================================================
