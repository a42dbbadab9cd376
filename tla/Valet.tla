-------------------------------- MODULE Valet --------------------------------
(***************************************************************************)
(* The whole process: sessions connect while the WebSocket server listens, *)
(* requests come while the HTTP server does, and when the process ends,    *)
(* by a crash or because one server failed, what the sessions held in      *)
(* memory goes with it.                                                    *)
(***************************************************************************)
EXTENDS Startup, Conversation

valetVars == <<startupVars, conversationVars>>

ValetInit == StartupInit /\ ConversationInit

Runs == process = "up"

\* What happens before the servers listen, and beside them.
Housekeeping ==
  /\ \/ BootProcess \/ SeedTask
     \/ KeepToken \/ ReadToken \/ GenerateToken \/ WriteToken
     \/ GatherServers \/ ScanFinds
     \/ \E t \in Server : ServerStarts(t)
  /\ UNCHANGED conversationVars

Arrival ==
  /\ Runs
  /\ \/ server["ws"] = "listening" /\ \E s \in Session : Connect(s)
     \/ server["http"] = "listening" /\ \E r \in Request : Ask(r)
  /\ UNCHANGED startupVars

Turns ==
  /\ Runs
  /\ ConversationStep
  /\ UNCHANGED startupVars

Crash == ProcessEnds /\ Forgotten

ServersEnd == GatherRaises /\ Forgotten

ValetNext == Housekeeping \/ Arrival \/ Turns \/ Crash \/ ServersEnd

ValetSpec == ValetInit /\ [][ValetNext]_valetVars

------------------------------------------------------------------------------
\* Type invariant of the composition.
ValetTypeOK == StartupTypeOK /\ ConversationTypeOK
==============================================================================
