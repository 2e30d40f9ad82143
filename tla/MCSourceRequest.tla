-------------------------- MODULE MCSourceRequest --------------------------
(* A small instance of SourceRequest for TLC: a client of each package, one *)
(* with a token file and one without.                                       *)
EXTENDS SourceRequest

MCClients == {[adapter |-> "sourcehttp", credential |-> TRUE],
              [adapter |-> "kubernetes", credential |-> FALSE]}

=============================================================================
