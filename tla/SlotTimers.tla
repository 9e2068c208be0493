----------------------------- MODULE SlotTimers ------------------------------
(* The two services that act on a player later, through a timer that remembers  *)
(* only his slot: the fall protection of Sdk::PawnOps::Slap and the refreshed   *)
(* panels of Sdk::PersistentCenterHtml.  The timers are Core::Scheduler's.      *)
EXTENDS Players

CONSTANTS
  Panel,        \* identities of refresh timers
  RenderVerbs   \* what a render callback may do: "stop" or "show" its own slot's panel

ASSUME RenderVerbsAssumption == RenderVerbs \subseteq {"stop", "show"}

MaxClears == 2     \* bound: delayed clears under way for a slot

VARIABLES
  god,       \* the FL_GODMODE bit of the pawn in each slot
  granted,   \* history: whether somebody other than Slap set that bit while no clear was on its way
  clears,    \* delayed clears under way, by slot
  handle,    \* PersistentCenterHtml::_timers
  alive,     \* refresh timers the scheduler still has, by slot
  shown      \* whether a panel is on each slot's screen

slotTimerVars == <<god, granted, clears, handle, alive, shown>>
pawnVars == <<god, granted, clears>>
panelVars == <<handle, alive, shown>>

SetGodmode(s, enable) ==
  /\ client[s] # None
  /\ god' = [god EXCEPT ![s] = enable]
  /\ granted' = [granted EXCEPT ![s] = enable /\ clears[s] = 0]
  /\ UNCHANGED clears

ToggleGodmode(s) == SetGodmode(s, ~god[s])

\* Protection is lent only to a pawn that has none, and a timer is to take it back.
Slap(s) ==
  /\ client[s] # None /\ clears[s] < MaxClears
  /\ IF ~god[s] THEN /\ god' = [god EXCEPT ![s] = TRUE]
                     /\ granted' = [granted EXCEPT ![s] = FALSE]
                     /\ clears' = [clears EXCEPT ![s] = @ + 1]
     ELSE UNCHANGED pawnVars

\* Mutant of FallProtectionEnds: the clear toggles what it finds.
FallProtectionToggles(s) ==
  /\ clears[s] > 0
  /\ clears' = [clears EXCEPT ![s] = @ - 1]
  /\ god' = [god EXCEPT ![s] = IF client[s] # None THEN ~@ ELSE @]
  /\ UNCHANGED granted

\* The delayed clear: whoever is in the slot by now.
FallProtectionEnds(s) ==
  /\ clears[s] > 0
  /\ clears' = [clears EXCEPT ![s] = @ - 1]
  /\ god' = [god EXCEPT ![s] = IF client[s] # None THEN FALSE ELSE @]
  /\ UNCHANGED granted

\* A new client has a new pawn.
PawnReplaced(s) ==
  /\ god' = [god EXCEPT ![s] = FALSE]
  /\ granted' = [granted EXCEPT ![s] = FALSE]
  /\ UNCHANGED clears

-------------------------------------------------------------------------------
\* The panels after Stop(s), as [handle, alive, shown] of the slot.
Screen(s) == [handle |-> handle[s], alive |-> alive[s], shown |-> shown[s]]

Stopped(screen) ==
  IF screen.handle = None THEN screen
  ELSE [handle |-> None, alive |-> screen.alive \ {screen.handle}, shown |-> FALSE]

Started(screen, t) == [handle |-> t, alive |-> screen.alive \cup {t}, shown |-> TRUE]

\* One send: the render callback runs, then its text goes to the screen.
Sent(screen, verb, t) ==
  LET after == CASE verb = "stop" -> Stopped(screen)
                 [] verb = "show" -> Started(Stopped(screen), t)
                 [] OTHER -> screen
  IN [after EXCEPT !.shown = TRUE]

SetScreen(s, screen) ==
  /\ handle' = [handle EXCEPT ![s] = screen.handle]
  /\ alive' = [alive EXCEPT ![s] = screen.alive]
  /\ shown' = [shown EXCEPT ![s] = screen.shown]

\* The first text goes out before the refresh timer exists.
Show(s, verb, t, u) ==
  /\ t # u /\ {t, u} \cap UNION {alive[r] : r \in Slot} = {}
  /\ SetScreen(s, Started(Sent(Stopped(Screen(s)), verb, u), t))

Stop(s) == SetScreen(s, Stopped(Screen(s)))

Refresh(s, verb, u) ==
  /\ alive[s] # {}
  /\ u \notin UNION {alive[r] : r \in Slot}
  /\ SetScreen(s, Sent(Screen(s), verb, u))

StopAll ==
  /\ handle' = [s \in Slot |-> None]
  /\ alive' = [s \in Slot |-> alive[s] \ {handle[s]}]
  /\ shown' = [s \in Slot |-> shown[s] /\ handle[s] = None]

SlotTimersInit ==
  /\ god = [s \in Slot |-> FALSE] /\ granted = god /\ clears = [s \in Slot |-> 0]
  /\ handle = [s \in Slot |-> None] /\ alive = [s \in Slot |-> {}] /\ shown = [s \in Slot |-> FALSE]

SlotTimersNext ==
  \/ /\ \E s \in Slot :
          \/ \E enable \in BOOLEAN : SetGodmode(s, enable)
          \/ ToggleGodmode(s) \/ Slap(s) \/ FallProtectionEnds(s)
     /\ UNCHANGED panelVars
  \/ /\ \/ \E s \in Slot, verb \in RenderVerbs \cup {"none"}, t, u \in Panel :
             Show(s, verb, t, u) \/ Refresh(s, verb, u)
        \/ \E s \in Slot : Stop(s)
        \/ StopAll
     /\ UNCHANGED pawnVars

-------------------------------------------------------------------------------
\* What Slap lends is always due back: a pawn in godmode that nobody else put there has a
\* delayed clear on the way, whatever slaps, toggles, deaths and reconnects came between.
ProtectionIsLent ==
  \A s \in Slot : god[s] /\ ~granted[s] => clears[s] > 0

\* "Stop re-sending": a slot has at most the one refresh timer its handle names, so that Stop
\* ends the panel: Show sends before it stores the timer, and the callback it sends may stop
\* the panel.  One that shows its own slot's panel anew leaves a timer that no handle names.
StopEndsThePanel ==
  \A s \in Slot : alive[s] = {handle[s]} \ {None}

\* Slap leaves a pawn in godmode alone: "otherwise the delayed clear below would silently strip
\* an externally applied godmode".  One applied when no clear is on its way stands until somebody
\* takes it back, whatever slaps follow.  One applied between a slap and its clear is stripped,
\* from the same pawn or from the next client's.
GrantsStand ==
  \A s \in Slot : granted[s] => god[s]

\* Every delayed act on a slot is accounted for: protection that Slap lent by the clear that
\* takes it back, which takes nothing that was granted before the slap, and a refresh by the
\* handle that stops it.  Whom a clear under way will find in the slot is not promised.
DelayedActsAreAccounted == ProtectionIsLent /\ GrantsStand /\ StopEndsThePanel

=============================================================================
