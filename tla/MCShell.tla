------------------------------- MODULE MCShell ------------------------------
(* Commands of one or two letters, the echo command among them, and lines  *)
(* that fill the buffer.                                                   *)
EXTENDS Shell

MCCommand ==
  <<[name |-> <<"a">>, fn |-> "app"], [name |-> <<"a", "a">>, fn |-> "text"],
    [name |-> <<"e">>, fn |-> "echo"], [name |-> <<"e", "a">>, fn |-> "halt"]>>
=============================================================================
