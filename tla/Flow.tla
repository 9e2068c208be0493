-------------------------------- MODULE Flow --------------------------------
(***************************************************************************)
(* Menu::Flow for one player: wizards whose steps are menus on the         *)
(* player's stack, with a custom row per step that captures a line of      *)
(* chat, an optional confirm dialog and a validation before every step and *)
(* before finishing.  The stack and the capture are those of MenuManager   *)
(* and ChatInput; every press of a key is one step.  _stepIndex counts     *)
(* from 1 here.                                                            *)
(***************************************************************************)
EXTENDS Naturals, Sequences, FiniteSetsExt

CONSTANTS
  Flows, NoFlow, \* the flows of the player; the owner of any other menu
  Steps,         \* number of steps added to a flow
  Values,        \* what a step's row can write into the state
  Skips,         \* step -> first answers for which its predicate is false
  WithConfirm,   \* the flows that end with a confirm dialog
  MaxDepth       \* bound: menus on the stack

Step == 1 .. Steps
Unset == "unset"

ASSUME FlowsAssumption == NoFlow \notin Flows /\ WithConfirm \subseteq Flows
ASSUME DepthAssumption == MaxDepth \in Nat
ASSUME StepsAssumption == Steps \in Nat \ {0}
ASSUME SkipsAssumption == Skips \in [Step -> SUBSET Values] /\ Unset \notin Values /\ Skips[1] = {}

VARIABLES
  stack,    \* open menus: [flow, step, shown]; step Steps + 1 is the confirm dialog
  capture,  \* the pending capture: [flow, step], or NoPrompt
  at,       \* flow -> _stepIndex
  answers,  \* flow -> _state, as the values of its steps
  started,  \* flows that have been started
  valid,    \* flows whose OnValidate passes
  finished  \* flow -> how often OnFinish has run (history)

flowVars == <<stack, capture, at, answers, started, valid, finished>>

NoPrompt == [flow |-> NoFlow, step |-> 0]
ConfirmStep == Steps + 1
Top == stack[Len(stack)]

\* Mutant of OnStep: rows act while the player types.
OnStepWhileTyping(f) == stack # <<>> /\ Top.flow = f /\ Top.step \in Step

\* The menu rows act on keys: no capture is pending and a menu is open.
Listens == capture = NoPrompt /\ stack # <<>>
OnStep(f) == Listens /\ Top.flow = f /\ Top.step \in Step
OnConfirm(f) == Listens /\ Top.flow = f /\ Top.step = ConfirmStep

-----------------------------------------------------------------------------

Push(f, step, state) ==
  /\ Len(stack) < MaxDepth
  /\ stack' = Append(stack, [flow |-> f, step |-> step, shown |-> state])

\* The steps from one on whose predicate holds over the current state.
Applicable(state, from) == {i \in from .. Steps : state[1] \notin Skips[i]}

\* Mutant of RunFinish: no last validation.
RunFinishUnchecked(f) ==
  /\ finished' = [finished EXCEPT ![f] = @ + 1]
  /\ stack' = <<>>

\* Finished or refused, all menus of the player close.
RunFinish(f) ==
  /\ finished' = IF f \in valid THEN [finished EXCEPT ![f] = @ + 1] ELSE finished
  /\ stack' = <<>>

\* RunValidation, then the first applicable step, the confirm dialog or the end.
OpenFrom(f, state, from) ==
  LET next == Applicable(state, from) IN
  \/ f \notin valid /\ stack' = <<>> /\ UNCHANGED <<at, finished>>
  \/ /\ f \in valid /\ next # {}
     /\ Push(f, Min(next), state) /\ at' = [at EXCEPT ![f] = Min(next)]
     /\ UNCHANGED finished
  \/ /\ f \in valid /\ next = {} /\ f \in WithConfirm
     /\ Push(f, ConfirmStep, state) /\ UNCHANGED <<at, finished>>
  \/ /\ f \in valid /\ next = {} /\ f \notin WithConfirm
     /\ RunFinish(f) /\ UNCHANGED at

\* A row or a validator writes its step's value and advances.
Answer(f, step, value) ==
  LET state == [answers[f] EXCEPT ![step] = value] IN
  /\ answers' = [answers EXCEPT ![f] = state]
  /\ OpenFrom(f, state, at[f] + 1)

Start(f) ==
  /\ f \notin started
  /\ started' = started \cup {f}
  /\ OpenFrom(f, answers[f], 1)
  /\ UNCHANGED <<capture, answers, valid>>

Pick(f, value) ==
  /\ OnStep(f)
  /\ Answer(f, Top.step, value)
  /\ UNCHANGED <<capture, started, valid>>

\* The custom row: InputOption::OnActivate begins a capture.
PickCustom(f) ==
  /\ OnStep(f)
  /\ capture' = [flow |-> f, step |-> Top.step]
  /\ UNCHANGED <<stack, at, answers, started, valid, finished>>

\* A line the validator accepts.  A line it refuses changes nothing.
Say(value) ==
  /\ capture # NoPrompt
  /\ Answer(capture.flow, capture.step, value)
  /\ capture' = NoPrompt
  /\ UNCHANGED <<started, valid>>

\* R during a capture, its timeout, or CancelCapture.
CaptureEnds ==
  /\ capture # NoPrompt
  /\ capture' = NoPrompt
  /\ UNCHANGED <<stack, at, answers, started, valid, finished>>

\* R, or CloseMenu by the plugin: back to the menu below.
Back ==
  /\ Listens
  /\ stack' = SubSeq(stack, 1, Len(stack) - 1)
  /\ UNCHANGED <<capture, at, answers, started, valid, finished>>

Confirm(f) ==
  /\ OnConfirm(f)
  /\ RunFinish(f)
  /\ UNCHANGED <<capture, at, answers, started, valid>>

\* The dialog's cancel row, or CloseAllMenus by the plugin at any time.
CloseAllMenus ==
  /\ stack' = <<>>
  /\ UNCHANGED <<capture, at, answers, started, valid, finished>>

\* The plugin opens some other menu over the wizard.
OpenOther ==
  /\ Push(NoFlow, 0, <<>>)
  /\ UNCHANGED <<capture, at, answers, started, valid, finished>>

\* The target leaves, or a permission is revoked.
Invalidate(f) ==
  /\ valid' = valid \ {f}
  /\ UNCHANGED <<stack, capture, at, answers, started, finished>>

Disconnects ==
  /\ stack' = <<>> /\ capture' = NoPrompt
  /\ UNCHANGED <<at, answers, started, valid, finished>>

FlowInit ==
  /\ stack = <<>> /\ capture = NoPrompt
  /\ at = [f \in Flows |-> 1]
  /\ answers = [f \in Flows |-> [i \in Step |-> Unset]]
  /\ started = {} /\ valid = Flows
  /\ finished = [f \in Flows |-> 0]

FlowNext ==
  \/ \E f \in Flows :
       \/ Start(f) \/ PickCustom(f) \/ Confirm(f) \/ Invalidate(f)
       \/ \E value \in Values : Pick(f, value)
  \/ \E value \in Values : Say(value)
  \/ CaptureEnds \/ Back \/ CloseAllMenus \/ OpenOther \/ Disconnects

FlowSpec == FlowInit /\ [][FlowNext]_flowVars

-----------------------------------------------------------------------------

State == [Step -> Values \cup {Unset}]

FlowTypeOK ==
  /\ \A n \in 1 .. Len(stack) :
       IF stack[n].flow = NoFlow THEN stack[n].step = 0
       ELSE stack[n].flow \in started /\ stack[n].step \in 1 .. ConfirmStep /\ stack[n].shown \in State
  /\ Len(stack) <= MaxDepth
  /\ capture = NoPrompt \/ (capture.flow \in started /\ capture.step \in Step)
  /\ at \in [Flows -> Step] /\ answers \in [Flows -> State]
  /\ started \subseteq Flows /\ valid \subseteq Flows
  /\ finished \in [Flows -> Nat]

\* The confirm dialog on screen shows the state that confirming would act on.
ConfirmShowsState ==
  stack # <<>> /\ Top.step = ConfirmStep => Top.shown = answers[Top.flow]

\* No step is on the stack that the current state says to skip.
StepsApply ==
  \A n \in 1 .. Len(stack) :
    stack[n].step \in Step => answers[stack[n].flow][1] \notin Skips[stack[n].step]

\* The screens of one flow lie on the stack in the order of its steps, none of
\* them beyond _stepIndex: going back never leaves a later one under an earlier.
StepsInOrder ==
  /\ \A m, n \in 1 .. Len(stack) :
       m < n /\ stack[m].flow = stack[n].flow /\ stack[m].flow # NoFlow => stack[m].step < stack[n].step
  /\ \A n \in 1 .. Len(stack) : stack[n].step \in Step => stack[n].step <= at[stack[n].flow]

\* While a line of chat is awaited, no screen of its flow is open that is later
\* than the step it will answer.
InputIsCurrent ==
  capture # NoPrompt =>
    \A n \in 1 .. Len(stack) : stack[n].flow = capture.flow => stack[n].step <= capture.step

\* Types, the order of the screens and the awaited input, and screens that agree
\* with the state the flow acts on.
ScreensAgree ==
  FlowTypeOK /\ StepsInOrder /\ InputIsCurrent /\ ConfirmShowsState /\ StepsApply

\* A flow acts at most once, whatever is typed, picked or closed after that, and
\* only while it is valid ("re-run before every step and before finish"): one
\* whose target has left does not act, also when the dialog was already open.
FinishIsJustified ==
  [][\A f \in Flows : finished'[f] # finished[f] => finished[f] = 0 /\ f \in valid]_flowVars

\* "Opens each applicable step in order": when a flow acts, every step that
\* applies has been answered.
FinishAnswered ==
  [][\A f \in Flows : finished'[f] # finished[f] =>
       \A i \in Applicable(answers'[f], 1) : answers'[f][i] # Unset]_flowVars

=============================================================================
