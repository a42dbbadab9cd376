------------------------------- MODULE MCValet -------------------------------
(***************************************************************************)
(* A model of Valet: a pack that looks for a web server, with one runbook, *)
(* one session and one HTTP client, and three boots.                       *)
(***************************************************************************)
EXTENDS Valet

CONSTANTS nginx, webserver, web_service

MCPackOf == [s \in Seed |-> webserver]
MCSignsOf == [p \in Pack |-> {web_service}]

MCBody ==
  {<<"system", "user", "assistant", "user">>, <<"user", "assistant">>}
==============================================================================
