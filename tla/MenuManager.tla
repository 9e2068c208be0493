---------------------------- MODULE MenuManager ----------------------------
(***************************************************************************)
(* Menu::MenuManager for one slot: the stack of open menus, the cursor,    *)
(* the keys read every frame, the freeze of the player's movement, and     *)
(* plugin code that opens and closes menus from inside a row's callback or *)
(* a menu's OnClose.  Slots share only the freeze switch.  ChatInput is    *)
(* seen through IsCapturing.  A menu is the sequence of the kinds of its   *)
(* rows; one tick of time passes per frame.                                *)
(***************************************************************************)
EXTENDS Integers, Sequences, FiniteSetsExt

CONSTANTS
  Menus,         \* the menus plugin code opens: a set of sequences of row kinds
  ItemsPerPage,
  InputDebounce, \* InputDebounceMs, in frames
  MoveTypes,     \* the movement types pawns have when no menu is open
  KeySets,       \* the sets of keys a player can hold
  FreezeAnytime, \* TRUE: SetFreezePlayer is called while menus are open
  MaxDepth,      \* bound: menus on the stack
  MaxCalls       \* bound: nested calls

RowKinds == {"button", "value", "text", "disabled"}
Keys == {"W", "S", "A", "D", "E", "R"}

ASSUME MenusAssumption == Menus \subseteq Seq(RowKinds)
ASSUME PageAssumption == ItemsPerPage \in Nat \ {0}
ASSUME DebounceAssumption == InputDebounce \in Nat \ {0, 1}
ASSUME MoveTypesAssumption == {"walk", "none"} \cap MoveTypes = {"walk"}
ASSUME KeySetsAssumption == KeySets \subseteq SUBSET Keys /\ {} \in KeySets
ASSUME DepthAssumption == MaxDepth \in Nat

VARIABLES
  stack,     \* MenuStack, the current menu last
  cursor,    \* SelectedIndex
  since,     \* frames since LastInputTime, up to InputDebounce
  prev,      \* PrevButtons
  frozen,    \* MovementFrozen
  prevMove,  \* PrevMoveType
  freeze,    \* _freezePlayer
  capturing, \* ChatInput.IsCapturing(slot)
  calls,     \* what is on the call stack, innermost first: "close", "input"
  held,      \* the keys the player holds (external)
  body,      \* "gone": no controller, "bare": one without a pawn, "pawn" (external)
  move,      \* the pawn's MoveType (external); "walk" while there is none
  \* History:
  original,  \* the MoveType the pawn had when the first menu opened, or has been given since
  kept,      \* the pawn is the one that first menu was opened on
  stale      \* keys held since before the last menu was opened

stateVars == <<stack, cursor, since, prev, frozen, prevMove>>
bodyVars == <<body, move, original, kept>>
vars == <<stateVars, freeze, capturing, calls, held, bodyVars, stale>>

Selectable(kind) == kind \in {"button", "value"}
Top == stack[Len(stack)]
Idle == calls = <<>>

-----------------------------------------------------------------------------
(* The cursor.                                                             *)

\* The next selectable row in the direction of step, around the whole menu.
StepCursor(rows, idx, step) ==
  LET At(k) == (idx + step * k) % Len(rows)
      hits == {k \in 1 .. Len(rows) : Selectable(rows[At(k) + 1])}
  IN  IF hits = {} THEN idx ELSE At(Min(hits))

\* Mutant of JumpPage: the last page is taken to be full.
JumpPageFull(rows, idx, delta) ==
  LET pages == (Len(rows) + ItemsPerPage - 1) \div ItemsPerPage
  IN  ((idx \div ItemsPerPage + delta) % pages) * ItemsPerPage + (idx % ItemsPerPage)

\* The same place on another page, then forward within the page.
JumpPage(rows, idx, delta) ==
  LET pages == (Len(rows) + ItemsPerPage - 1) \div ItemsPerPage
      start == ((idx \div ItemsPerPage + delta) % pages) * ItemsPerPage
      size == Min({ItemsPerPage, Len(rows) - start})
      offset == Min({idx % ItemsPerPage, size - 1})
      At(k) == start + ((offset + k) % size)
      hits == {k \in 0 .. size - 1 : Selectable(rows[At(k) + 1])}
  IN  At(IF hits = {} THEN size - 1 ELSE Min(hits))

\* Where the cursor stands when a menu becomes the current one.
FirstRow(rows) ==
  IF rows # <<>> /\ ~Selectable(rows[1]) THEN StepCursor(rows, 0, 1) ELSE 0

-----------------------------------------------------------------------------
(* Opening and closing.  Plugin code calls these between frames and from    *)
(* inside row callbacks and OnClose.                                       *)

\* SetPlayerFrozen(slot, true): nothing without a controller; without a pawn the type read is
\* None, and the one written goes nowhere.
Freeze ==
  IF freeze /\ ~frozen /\ body # "gone"
  THEN /\ frozen' = TRUE
       /\ prevMove' = IF body = "pawn" THEN move ELSE "none"
       /\ move' = IF body = "pawn" THEN "none" ELSE move
  ELSE UNCHANGED <<frozen, prevMove, move>>

\* Mutant of Dismiss: the state is reset before the player is released.
DismissUnreleased ==
  /\ stack' = <<>> /\ cursor' = 0 /\ since' = InputDebounce /\ prev' = {}
  /\ frozen' = FALSE /\ prevMove' = "walk"
  /\ UNCHANGED move

\* SetPlayerFrozen(slot, false), which writes to the pawn there is by now, and
\* PlayerMenuState::Reset.
Dismiss ==
  /\ stack' = <<>> /\ cursor' = 0 /\ since' = InputDebounce /\ prev' = {}
  /\ frozen' = FALSE /\ prevMove' = "walk"
  /\ move' = IF freeze /\ frozen /\ body = "pawn" THEN prevMove ELSE move

OpenMenu(menu) ==
  /\ Len(stack) < MaxDepth
  /\ stack' = Append(stack, menu)
  /\ cursor' = FirstRow(menu)
  /\ since' = 0
  /\ IF stack = <<>> THEN Freeze ELSE UNCHANGED <<frozen, prevMove, move>>
  /\ stale' = held
  /\ IF stack = <<>> /\ ~frozen
     THEN original' = move /\ kept' = (body = "pawn")
     ELSE UNCHANGED <<original, kept>>
  /\ UNCHANGED <<prev, freeze, capturing, calls, held, body>>

\* CloseMenu up to the menu's OnClose, which is plugin code.
CloseMenu ==
  /\ stack # <<>>
  /\ Len(calls) < MaxCalls
  /\ stack' = SubSeq(stack, 1, Len(stack) - 1)
  /\ calls' = <<"close">> \o calls
  /\ UNCHANGED <<cursor, since, prev, frozen, prevMove, freeze, capturing, held, bodyVars, stale>>

\* CloseMenu after OnClose: what is on the stack by then decides.
CloseReturns ==
  /\ ~Idle /\ Head(calls) = "close"
  /\ calls' = Tail(calls)
  /\ IF stack = <<>>
     THEN Dismiss
     ELSE cursor' = FirstRow(Top) /\ UNCHANGED <<stack, since, prev, frozen, prevMove, move>>
  /\ UNCHANGED <<freeze, capturing, held, body, original, kept, stale>>

CloseAllMenus ==
  /\ Dismiss
  /\ UNCHANGED <<freeze, capturing, calls, held, body, original, kept, stale>>

SetFreezePlayer(enabled) ==
  /\ FreezeAnytime \/ (stack = <<>> /\ ~frozen)
  /\ freeze' = enabled
  /\ UNCHANGED <<stateVars, capturing, calls, held, bodyVars, stale>>

\* A capture begins; it is answered or times out.
SetCapturing(b) ==
  /\ capturing' = b
  /\ UNCHANGED <<stateVars, freeze, calls, held, bodyVars, stale>>

\* CS2Kit::OnPlayerDisconnect; the controller goes, and the next player has one of his own.
OnPlayerDisconnect ==
  /\ Idle
  /\ stack' = <<>> /\ cursor' = 0 /\ since' = InputDebounce /\ prev' = {}
  /\ frozen' = FALSE /\ prevMove' = "walk"
  /\ capturing' = FALSE
  /\ held' = {} /\ stale' = {}
  /\ body' = "gone" /\ move' = "walk" /\ original' = "walk" /\ kept' = TRUE
  /\ UNCHANGED <<freeze, calls>>

-----------------------------------------------------------------------------
(* OnGameFrame: one frame of HandleInput.                                  *)

Pressed == held \ prev
Elapsed == Min({since + 1, InputDebounce})
Listens == Idle /\ stack # <<>> /\ Pressed # {} /\ Elapsed = InputDebounce

\* The else-if chain: the first pressed key of the order W S A D E R.
Chosen(key) ==
  LET order == <<"W", "S", "A", "D", "E", "R">>
      n == Min({i \in 1 .. 6 : order[i] \in Pressed})
  IN  key = order[n]

\* Mutant of Acts: the menu is driven while the player types.
ActsWhileTyping(key) == Listens /\ Chosen(key) /\ Top # <<>>

\* A key that HandleInput acts on: while a capture is active only R, and that
\* cancels the capture; on a menu without rows none.
Acts(key) == Listens /\ ~capturing /\ Top # <<>> /\ Chosen(key)

Row == Top[cursor + 1]
Sideways(key) == IF key = "A" THEN -1 ELSE 1

CancelByKey ==
  /\ Listens /\ capturing /\ "R" \in Pressed
  /\ capturing' = FALSE
  /\ prev' = held /\ since' = 0
  /\ UNCHANGED <<stack, cursor, frozen, prevMove, freeze, calls, held, bodyVars, stale>>

MoveCursor ==
  /\ \E key \in {"W", "S"} :
       Acts(key) /\ cursor' = StepCursor(Top, cursor, IF key = "W" THEN -1 ELSE 1)
  /\ prev' = held /\ since' = 0
  /\ UNCHANGED <<stack, frozen, prevMove, freeze, capturing, calls, held, bodyVars, stale>>

TurnPage ==
  /\ \E key \in {"A", "D"} :
       Acts(key) /\ Row # "value" /\ cursor' = JumpPage(Top, cursor, Sideways(key))
  /\ Len(Top) > ItemsPerPage
  /\ prev' = held /\ since' = 0
  /\ UNCHANGED <<stack, frozen, prevMove, freeze, capturing, calls, held, bodyVars, stale>>

\* OnHorizontal of a value row, OnActivate of a selectable one: plugin code.
CallRow ==
  /\ \/ \E key \in {"A", "D"} : Acts(key) /\ Row = "value"
     \/ Acts("E") /\ Selectable(Row)
  /\ prev' = held
  /\ since' = Elapsed
  /\ calls' = <<"input">>
  /\ UNCHANGED <<stack, cursor, frozen, prevMove, freeze, capturing, held, bodyVars, stale>>

\* E on a row that cannot be activated still counts as input.
UseNothing ==
  /\ Acts("E") /\ ~Selectable(Row)
  /\ prev' = held /\ since' = 0
  /\ UNCHANGED <<stack, cursor, frozen, prevMove, freeze, capturing, calls, held, bodyVars, stale>>

\* R: CloseMenu, whose OnClose is plugin code.
Back ==
  /\ Acts("R")
  /\ prev' = held
  /\ since' = Elapsed
  /\ stack' = SubSeq(stack, 1, Len(stack) - 1)
  /\ calls' = <<"close", "input">>
  /\ UNCHANGED <<cursor, frozen, prevMove, freeze, capturing, held, bodyVars, stale>>

\* The rest of HandleInput after plugin code has returned: LastInputTime = now.
InputReturns ==
  /\ ~Idle /\ Head(calls) = "input"
  /\ calls' = Tail(calls)
  /\ since' = 0
  /\ UNCHANGED <<stack, cursor, prev, frozen, prevMove, freeze, capturing, held, bodyVars, stale>>

\* A frame that does nothing but read the buttons, and only for an open menu.
QuietFrame ==
  /\ Idle
  /\ \A key \in Keys :
       Acts(key) => key \in {"A", "D"} /\ Row # "value" /\ Len(Top) <= ItemsPerPage
  /\ ~(Listens /\ capturing /\ "R" \in Pressed)
  /\ since' = Elapsed
  /\ prev' = IF stack = <<>> THEN prev ELSE held
  /\ UNCHANGED <<stack, cursor, frozen, prevMove, freeze, capturing, calls, held, bodyVars, stale>>

-----------------------------------------------------------------------------
(* The player.                                                             *)

Hold(keys) ==
  /\ Idle
  /\ body # "gone"
  /\ held' = keys
  /\ stale' = stale \cap keys
  /\ UNCHANGED <<stateVars, freeze, capturing, calls, bodyVars>>

\* The game: a controller comes, its pawn goes, or it gets a pawn, which moves as any new one
\* does; under an open menu, too.
Embody(new) ==
  /\ Idle
  /\ new = "pawn" \/ (new = "bare" /\ body # "bare")
  /\ body' = new /\ move' = "walk" /\ original' = "walk"
  /\ kept' = (stack = <<>>)
  /\ UNCHANGED <<stateVars, freeze, capturing, calls, held, stale>>

\* Without menus the game and other plugin code give the pawn a MoveType.
SetMove(type) ==
  /\ stack = <<>> /\ Idle
  /\ body = "pawn"
  /\ move' = type /\ original' = type
  /\ kept' = TRUE
  /\ UNCHANGED <<stateVars, freeze, capturing, calls, held, body, stale>>

Init ==
  /\ stack = <<>> /\ cursor = 0 /\ since = InputDebounce /\ prev = {}
  /\ frozen = FALSE /\ prevMove = "walk"
  /\ freeze = FALSE /\ capturing = FALSE /\ calls = <<>>
  /\ held = {} /\ stale = {}
  /\ body = "gone" /\ move = "walk" /\ original = "walk" /\ kept = TRUE

PluginStep ==
  \/ \E menu \in Menus : OpenMenu(menu)
  \/ CloseMenu \/ CloseAllMenus
  \/ \E b \in BOOLEAN : SetFreezePlayer(b) \/ SetCapturing(b)

FrameStep == CancelByKey \/ MoveCursor \/ TurnPage \/ CallRow \/ UseNothing \/ Back \/ QuietFrame

Next ==
  \/ PluginStep \/ CloseReturns \/ InputReturns
  \/ FrameStep
  \/ \E keys \in KeySets : Hold(keys)
  \/ \E new \in {"bare", "pawn"} : Embody(new)
  \/ \E type \in MoveTypes : SetMove(type)
  \/ OnPlayerDisconnect

Spec == Init /\ [][Next]_vars

-----------------------------------------------------------------------------

\* Types.
TypeOK ==
  /\ stack \in Seq(Menus) /\ Len(stack) <= MaxDepth
  /\ cursor \in Nat
  /\ since \in 0 .. InputDebounce
  /\ prev \subseteq Keys /\ held \subseteq Keys /\ stale \subseteq Keys
  /\ frozen \in BOOLEAN /\ freeze \in BOOLEAN /\ capturing \in BOOLEAN
  /\ {prevMove, original, move} \subseteq MoveTypes \cup {"none"}
  /\ body \in {"gone", "bare", "pawn"} /\ kept \in BOOLEAN
  /\ calls \in Seq({"close", "input"})

\* Between calls the cursor is on a row of the current menu (HandleInput
\* indexes with it unchecked), and on one that can be selected unless the
\* whole page has none.
CursorOnRow ==
  Idle /\ stack # <<>> /\ Top # <<>> =>
    /\ cursor < Len(Top)
    /\ \/ Selectable(Row)
       \/ \A i \in 1 .. Len(Top) :
            (i - 1) \div ItemsPerPage = cursor \div ItemsPerPage => ~Selectable(Top[i])

\* Types, and the row that HandleInput would act on.
SessionInv == TypeOK /\ CursorOnRow

\* "The player's movement is frozen for as long as a menu is open", whatever
\* OnClose and row callbacks open and close, for the pawn it was opened on.
FrozenWhileOpen == Idle /\ kept /\ freeze /\ stack # <<>> => move = "none"

\* "The original MoveType is restored when the last menu closes."  Not for a
\* pawn that spawned while a menu was open: it gets what SetPlayerFrozen read
\* of the one before it, and None when there was no pawn to read.
MoveRestored == Idle /\ stack = <<>> => move = original

\* Movement is taken with the first menu and given back with the last one, to
\* a pawn that has been there all along.
MovementIsLent == FrozenWhileOpen /\ (kept => MoveRestored)

\* A key acts only when it was meant for the menu.  One that was down when a
\* menu was opened does nothing in that menu until it is released, as long as
\* frames come faster than the debounce; and "during a chat-input capture only
\* R is honored": no key but R has an effect while the player types, and R
\* leaves the menus alone.
KeysAreMeant ==
  [][/\ \A key \in Keys : Acts(key) => key \notin stale
     /\ capturing /\ Idle /\ FrameStep => UNCHANGED <<stack, cursor, calls, move>>]_vars

=============================================================================
