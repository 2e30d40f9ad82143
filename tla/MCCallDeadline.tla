--------------------------- MODULE MCCallDeadline ---------------------------
(* A small instance of CallDeadline.  The unit of time is 7 s: 5 units of   *)
(* the connection against a request timeout of 2 units (14 s), for tools    *)
(* that make one get and tools that make three (a list of one scope).  Each *)
(* client may take up to 5 units over its body.                             *)
EXTENDS CallDeadline

=============================================================================
