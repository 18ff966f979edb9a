------------------------------ MODULE MCConsole ------------------------------
(* The commands of MCShell, and a screen of three rows and three columns   *)
(* on which most lines wrap and scroll.                                    *)
EXTENDS Console

MCCommand ==
  <<[name |-> <<"a">>, fn |-> "app"], [name |-> <<"a", "a">>, fn |-> "text"],
    [name |-> <<"e">>, fn |-> "echo"], [name |-> <<"e", "a">>, fn |-> "halt"],
    [name |-> <<"a", "e">>, fn |-> "clear"]>>

MCPROMPT == <<">">>
MCWords == <<"e">>
MCAppScreen == {[clears |-> TRUE, text |-> <<"e">>], [clears |-> FALSE, text |-> <<"a">>]}
=============================================================================
