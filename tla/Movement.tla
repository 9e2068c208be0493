------------------------------ MODULE Movement -------------------------------
(* Sdk::MovementHook: the hook around CPlayer_MovementServices::RunCommand that *)
(* dispatches each player's movement to the plugin's listeners, decoding his    *)
(* command at most once, and Sdk::InputHistoryService as its permanent          *)
(* customer.  A decoded command is known by the client who sent it; None is a   *)
(* view whose Valid flag is false.                                              *)
EXTENDS Players

CONSTANTS
  Decodes,     \* whether gamedata has the UserCmdPB offset
  PreVerbs     \* what a pre listener may do inside the dispatch: "history" enables the history

ASSUME DecodesAssumption == Decodes \in BOOLEAN
ASSUME PreVerbsAssumption == PreVerbs \subseteq {"history"}

NoSlot == -1

VARIABLES
  installed,   \* _installed
  others,      \* whether a post-cmd listener or a filter is registered
  view,        \* _cmdView
  running      \* the client whose command is between its pre and its post hook, or None

movementVars == <<installed, others, view, running>>

\* A live pawn is needed to find the vtable to patch.
Install ==
  /\ ~installed
  /\ \E s \in Slot : client[s] # None
  /\ installed' = TRUE
  /\ UNCHANGED <<others, view, running>>
  /\ UNCHANGED playerVars

RemoveHook ==
  /\ installed /\ running = None
  /\ installed' = FALSE
  /\ UNCHANGED <<others, view, running>>
  /\ UNCHANGED playerVars

\* Listeners come and go between two commands.
Listen ==
  /\ running = None
  /\ others' = ~others
  /\ UNCHANGED <<installed, view, running>>
  /\ UNCHANGED playerVars

\* The slot whose pawn owns the movement services, if the entity system still knows one.
SlotsFromMovementServices(c) == {c.slot, NoSlot}

\* The history's listener exists once it was enabled.
Listening == depth > 0 \/ others

\* Mutant of DecodeUserCmd: the view is reset only when the offset is known to be readable.
DecodeUserCmdKeeps(c, readable) == IF readable /\ Decodes THEN c ELSE view

DecodeUserCmd(c, readable) == IF readable /\ Decodes THEN c ELSE None

\* Pre listeners run after the decision to decode and before the cmd listeners are told.
DepthsAfterPre ==
  {depth} \cup (IF "history" \in PreVerbs THEN {d \in Depths : d > depth} ELSE {})

Hook_RunCommandPre(c, readable) ==
  /\ installed /\ running = None
  /\ running' = c
  /\ view' = IF Listening THEN DecodeUserCmd(c, readable) ELSE view
  /\ \E s \in SlotsFromMovementServices(c), d \in DepthsAfterPre :
       /\ depth' = d
       /\ rings' = Recorded(Grown(d), d, s, view')
  /\ UNCHANGED <<installed, others>>
  /\ UNCHANGED <<client, bySlot, bySteamId, bound, valueVars>>

\* The post listeners are told the slot and the view the pre hook left.
Hook_RunCommandPost ==
  /\ running # None
  /\ running' = None
  /\ UNCHANGED <<installed, others, view>>
  /\ UNCHANGED playerVars

MovementInit ==
  /\ installed = FALSE
  /\ others = FALSE
  /\ view = None
  /\ running = None

MovementNext ==
  \/ Install
  \/ RemoveHook
  \/ Listen
  \/ \E s \in Slot, readable \in BOOLEAN : client[s] # None /\ Hook_RunCommandPre(client[s], readable)
  \/ Hook_RunCommandPost

-------------------------------------------------------------------------------
\* What the cmd listeners are told of a command, before and after it runs, is what that command
\* said or that nothing is known of it: the view kept between the two hooks is never one left
\* over from another player's command, though it is decoded only while somebody listens.
CommandsAreTheirOwn ==
  running # None /\ Listening => view \in {None, running}

=============================================================================
