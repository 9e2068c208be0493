------------------------------- MODULE Server --------------------------------
(* The player-facing services on one roster.  The engine's connects and         *)
(* disconnects reach all of them; a plugin uses one family of services at a     *)
(* time, chosen in the beginning: per-slot state and movement, chat commands    *)
(* and menu actions, or services that come back through a timer.                *)
EXTENDS Movement, Commands, SlotTimers

CONSTANTS
  Seats,    \* [service -> the pairs <<slot, SteamID>> that connect]
  Home      \* [Slot -> the objects made for clients of that slot]

ASSUME HomeAssumption == Home \in [Slot -> SUBSET Object]

VARIABLE uses      \* the services the plugin uses

serverVars == <<playerVars, movementVars, commandVars, slotTimerVars, uses>>

\* Objects are told apart only while something refers to them.
FreshObject(s) == CHOOSE obj \in Home[s] : obj \notin Referenced

ServerInit ==
  /\ uses \in DOMAIN Seats
  /\ Init
  /\ \A s \in Slot : client[s] # None => 
       /\ uses = "state" /\ <<s, client[s].steamId>> \in Seats[uses]
       /\ client[s].id = CHOOSE obj \in Home[s] : TRUE
  /\ MovementInit /\ CommandsInit /\ SlotTimersInit

\* The engine's hooks; a slot's controller and its pawn's flags go with its client.
Connect(s, id) ==
  /\ <<s, id>> \in Seats[uses] /\ Home[s] \ Referenced # {}
  /\ Hook_OnClientConnected(s, id, FreshObject(s))
  /\ controller' = [controller EXCEPT ![s] = None]
  /\ PawnReplaced(s)

Disconnect(s) ==
  /\ Hook_ClientDisconnect(s)
  /\ controller' = [controller EXCEPT ![s] = None]
  /\ PawnReplaced(s)

RosterStep ==
  /\ running = None /\ did = NothingDone
  /\ \E s \in Slot : Disconnect(s) \/ \E id \in SteamId : Connect(s, id)
  /\ UNCHANGED <<movementVars, commands, did, panelVars, uses>>

StateStep ==
  /\ uses = "state"
  /\ \/ /\ running = None
        /\ \/ BindReset \/ Unbind \/ Renew \/ Clear
           \/ \E s \in Slot : Store(s)
           \/ \E d \in Depths : Enable(d)
        /\ UNCHANGED movementVars
     \/ MovementNext
  /\ UNCHANGED <<commandVars, slotTimerVars, uses>>

\* The outcome of a line or an action is told before anything else happens.
CommandStep ==
  /\ uses = "commands"
  /\ \/ did = NothingDone /\ CommandsNext
     \/ did # NothingDone /\ did' = NothingDone /\ UNCHANGED <<commands, controller>>
  /\ UNCHANGED <<playerVars, movementVars, slotTimerVars, uses>>

TimerStep ==
  /\ uses = "timers"
  /\ SlotTimersNext
  /\ UNCHANGED <<playerVars, movementVars, commandVars, uses>>

ServerNext == RosterStep \/ StateStep \/ CommandStep \/ TimerStep

ServerSpec == ServerInit /\ [][ServerNext]_serverVars

=============================================================================
