------------------------------- MODULE Effects ------------------------------
(***************************************************************************)
(* ScheduledEffect, EffectManager and EffectDispatch over the scheduler.   *)
(*                                                                         *)
(* Everything runs on the game thread; what makes it hard is re-entrancy:  *)
(* OnTick and OnStop are plugin code and may call the manager again while  *)
(* an Apply, a sweep or a scheduler frame is half done.  The call stack is *)
(* therefore explicit: "stack" holds the activation records, innermost     *)
(* first, and the record on top decides which action is enabled.  An empty *)
(* stack is the plugin's own code between frames (commands, menus, death,  *)
(* round end, disconnect, unload).                                         *)
(***************************************************************************)
EXTENDS Timers, Sequences

CONSTANTS
  Slot,        \* player slots, naturals
  EffectId,    \* the plugin's effect ids
  Specs,       \* the effect descriptors in play
  None,        \* "no effect": an absent map entry, an untouched player
  GameVerbs,   \* what plugin code calls between frames,
  TickVerbs,   \*   from OnTick,
  StopVerbs,   \*   and from OnStop
  StopSparesAssigned,  \* TRUE: no OnStop touches a key being assigned over
  MaxEffects,  \* bound: effects a behaviour may start
  MaxClock     \* bound: the clock stops here

Verbs == {"apply", "toggle", "clear", "cancel", "sweep"}
Scopes == {"Persistent", "Round", "Session"}
DescriptorType == [tick : Nat, duration : Nat, scope : Scopes, undo : BOOLEAN]

ASSUME SlotAssumption == Slot \subseteq Nat
ASSUME SpecsAssumption == Specs \subseteq DescriptorType
ASSUME BoundsAssumption == MaxEffects \in Nat /\ MaxClock \in Nat
ASSUME NoneAssumption == None \notin Nat
ASSUME VerbsAssumption == GameVerbs \cup TickVerbs \cup StopVerbs \subseteq Verbs

VARIABLES
  timers, nextTimer, clock,        \* the scheduler's registry and clock
  now, toFire, current, interval,  \* OnGameFrame's locals
  stack,     \* activation records, innermost first
  inst,      \* constructed ScheduledEffect states, by instance number
  nextInst,  \* next instance number: one per Setup body that ran
  effects,   \* EffectManager::_effects: key -> instance owned by the entry
  applied,   \* what OnStop undoes: key -> instance whose Setup shows on the player
  stops,     \* instance -> number of times its OnStop has been called
  dangling   \* a move-assignment wrote into an erased map node

sched == <<timers, nextTimer, now, toFire, current, interval>>
vars == <<timers, nextTimer, clock, now, toFire, current, interval,
          stack, inst, nextInst, effects, applied, stops, dangling>>

Key == Slot \X EffectId
Instance == 1 .. MaxEffects

-----------------------------------------------------------------------------
(* Activation records.                                                     *)

InFrame == [fn |-> "Frame"]
InOnTick(i) == [fn |-> "OnTick", inst |-> i]
InOnStop(i) == [fn |-> "OnStop", inst |-> i]
InApply(k, spec, i) == [fn |-> "Apply", key |-> k, spec |-> spec, inst |-> i]
InStore(k, i) == [fn |-> "Store", key |-> k, inst |-> i]
InAssign(k, i, old) == [fn |-> "Assign", key |-> k, inst |-> i, old |-> old]
InSweep(which, slots, slot, ids, victims, others) ==
  [fn |-> "Sweep", which |-> which, slots |-> slots, slot |-> slot, ids |-> ids,
   victims |-> victims, others |-> others]

Push(record, below) == <<record>> \o below
Top == Head(stack)
Running(fn) == stack # <<>> /\ Top.fn = fn

\* Plugin code is running and calls this verb from where it runs.
Calls(verb) ==
  /\ ~dangling
  /\ \/ stack = <<>> /\ verb \in GameVerbs
     \/ Running("OnTick") /\ verb \in TickVerbs
     \/ Running("OnStop") /\ verb \in StopVerbs

\* Under StopSparesAssigned plugin code leaves a key alone while
\* insert_or_assign is assigning over its entry.
MayTouch(keys) ==
  StopSparesAssigned =>
    \A n \in 1 .. Len(stack) : stack[n].fn = "Assign" => stack[n].key \notin keys

-----------------------------------------------------------------------------
(* ScheduledEffect.                                                        *)

Live(i) == ~inst[i].stopped

\* Mutant of Stop: OnStop of an ended effect runs again.
StopAgain(i, below, marks) ==
  /\ inst' = [inst EXCEPT ![i].stopped = TRUE]
  /\ timers' = Remove(timers, {inst[i].tickTimer, inst[i].stopTimer})
  /\ stack' = IF inst[i].spec.undo THEN Push(InOnStop(i), below) ELSE below
  /\ applied' = [marks EXCEPT ![inst[i].key] = None]
  /\ stops' = [stops EXCEPT ![i] = @ + 1]

\* State::Stop: once only, both timers cancelled before OnStop runs.  "below"
\* is the stack OnStop returns to, "marks" the players' state it undoes from.
Stop(i, below, marks) ==
  IF inst[i].stopped
  THEN /\ stack' = below
       /\ applied' = marks
       /\ UNCHANGED <<inst, timers, stops>>
  ELSE /\ inst' = [inst EXCEPT ![i].stopped = TRUE,
                               ![i].tickTimer = NoHandle, ![i].stopTimer = NoHandle]
       /\ timers' = Remove(timers, {inst[i].tickTimer, inst[i].stopTimer})
       /\ IF inst[i].spec.undo
          THEN /\ stack' = Push(InOnStop(i), below)
               /\ applied' = [marks EXCEPT ![inst[i].key] = None]
               /\ stops' = [stops EXCEPT ![i] = @ + 1]
          ELSE /\ stack' = below
               /\ applied' = marks
               /\ UNCHANGED stops

\* The timers the constructor registers, tick first.
TickTimer(spec, i) ==
  [next |-> clock + spec.tick, interval |-> spec.tick, inst |-> i, kind |-> "tick"]
StopTimer(spec, i) ==
  [next |-> clock + spec.duration, interval |-> OneShot, inst |-> i, kind |-> "stop"]

Ticks(spec) == spec.tick > 0
Expires(spec) == spec.duration > 0

TickHandle(spec) == IF Ticks(spec) THEN nextTimer ELSE NoHandle
StopHandle(spec) ==
  IF ~Expires(spec) THEN NoHandle ELSE IF Ticks(spec) THEN nextTimer + 1 ELSE nextTimer

\* The constructor, run while Apply builds the entry it is about to store.
Construct ==
  /\ Running("Apply")
  /\ LET spec == Top.spec
         i == Top.inst
         ticking == IF Ticks(spec) THEN Add(timers, TickHandle(spec), TickTimer(spec, i))
                                   ELSE timers
     IN  /\ timers' = IF Expires(spec) THEN Add(ticking, StopHandle(spec), StopTimer(spec, i))
                                       ELSE ticking
         /\ nextTimer' = nextTimer + (IF Ticks(spec) THEN 1 ELSE 0)
                                   + (IF Expires(spec) THEN 1 ELSE 0)
         /\ inst' = Add(inst, i, [key |-> Top.key, spec |-> spec, stopped |-> FALSE,
                                  tickTimer |-> TickHandle(spec),
                                  stopTimer |-> StopHandle(spec)])
         /\ stack' = Push(InStore(Top.key, i), Tail(stack))
  /\ UNCHANGED <<clock, now, toFire, current, interval, nextInst, effects, applied, stops,
                 dangling>>

-----------------------------------------------------------------------------
(* EffectManager.                                                          *)

IsActive(k) == effects[k] # None /\ Live(effects[k])

\* Cancel(slot, id): the entry leaves the map before Stop runs OnStop.
Cancel(k, below, marks) ==
  IF effects[k] = None
  THEN /\ stack' = below
       /\ applied' = marks
       /\ UNCHANGED <<effects, inst, timers, stops>>
  ELSE /\ effects' = [effects EXCEPT ![k] = None]
       /\ Stop(effects[k], below, marks)

\* Mutant of Store: an entry found there is overwritten without being stopped.
StoreOverwrites ==
  /\ Running("Store")
  /\ effects' = [effects EXCEPT ![Top.key] = Top.inst]
  /\ stack' = Tail(stack)
  /\ UNCHANGED <<sched, clock, inst, nextInst, applied, stops, dangling>>

\* insert_or_assign: a fresh node takes the new effect; an entry that a
\* re-entrant Apply left there is move-assigned over, which stops it first.
Store ==
  /\ Running("Store")
  /\ LET k == Top.key
         old == effects[k]
     IN  \/ /\ old = None
            /\ effects' = [effects EXCEPT ![k] = Top.inst]
            /\ stack' = Tail(stack)
            /\ UNCHANGED <<inst, timers, applied, stops>>
         \/ /\ old # None
            /\ Stop(old, Push(InAssign(k, Top.inst, old), Tail(stack)), applied)
            /\ UNCHANGED effects
  /\ UNCHANGED <<clock, nextTimer, now, toFire, current, interval, nextInst, dangling>>

\* operator= goes on after the old state's Stop.  If OnStop erased the node,
\* the assignment writes to freed memory: nothing is modelled beyond that.
FinishAssign ==
  /\ Running("Assign")
  /\ stack' = Tail(stack)
  /\ IF effects[Top.key] = Top.old
     THEN effects' = [effects EXCEPT ![Top.key] = Top.inst] /\ UNCHANGED dangling
     ELSE dangling' = TRUE /\ UNCHANGED effects
  /\ UNCHANGED <<sched, clock, inst, nextInst, applied, stops>>

\* The ids CancelWhere snapshots on one slot.
Matches(which, i) ==
  CASE which = "all" -> TRUE
    [] which = "perLife" -> inst[i].spec.scope # "Session"
    [] which = "round" -> inst[i].spec.scope = "Round"

\* Mutant of Selected: the scope is not looked at.
SelectedAll(which, s) == {e \in EffectId : effects[<<s, e>>] # None}

Selected(which, s) ==
  {e \in EffectId : effects[<<s, e>>] # None /\ Matches(which, effects[<<s, e>>])}

\* History, for the properties of sweeps: the active effects a sweep selects
\* when it starts, and the live ones it does not.
Victims(which, slots) ==
  {effects[k] : k \in {k \in Key : k[1] \in slots /\ k[2] \in Selected(which, k[1]) /\ IsActive(k)}}

Others(which, slots) ==
  {i \in DOMAIN inst : Live(i) /\ ~(inst[i].key[1] \in slots /\ Matches(which, i))}

\* CancelAllForSlot, CancelPerLife (one slot), CancelRoundScoped, CancelAll
\* (every slot).  A sweep that selects nothing changes nothing.
Sweep(which, slots) ==
  /\ Calls("sweep")
  /\ MayTouch({k \in Key : k[1] \in slots})
  /\ \E s \in slots : Selected(which, s) # {}
  /\ stack' = Push(InSweep(which, slots, None, {}, Victims(which, slots), Others(which, slots)),
                    stack)
  /\ UNCHANGED <<sched, clock, inst, nextInst, effects, applied, stops, dangling>>

SweepSlot ==
  /\ Running("Sweep")
  /\ Top.ids = {} /\ Top.slots # {}
  /\ LET s == CHOOSE s \in Top.slots : \A t \in Top.slots : s <= t
     IN  stack' = Push([Top EXCEPT !.slots = @ \ {s}, !.slot = s, !.ids = Selected(Top.which, s)],
                       Tail(stack))
  /\ UNCHANGED <<sched, clock, inst, nextInst, effects, applied, stops, dangling>>

\* Mutant of SweepCancel: the sweep of a slot ends with its first effect.
SweepCancelFirst(e) ==
  /\ Running("Sweep")
  /\ e \in Top.ids
  /\ Cancel(<<Top.slot, e>>, Push([Top EXCEPT !.ids = {}], Tail(stack)), applied)
  /\ UNCHANGED <<clock, nextTimer, now, toFire, current, interval, nextInst, dangling>>

SweepCancel(e) ==
  /\ Running("Sweep")
  /\ e \in Top.ids
  /\ Cancel(<<Top.slot, e>>,
            Push([Top EXCEPT !.ids = @ \ {e}], Tail(stack)), applied)
  /\ UNCHANGED <<clock, nextTimer, now, toFire, current, interval, nextInst, dangling>>

SweepDone ==
  /\ Running("Sweep")
  /\ Top.ids = {} /\ Top.slots = {}
  /\ stack' = Tail(stack)
  /\ UNCHANGED <<sched, clock, inst, nextInst, effects, applied, stops, dangling>>

-----------------------------------------------------------------------------
(* EffectDispatch.  A call whose permission, immunity or alive check fails *)
(* returns early and changes nothing; so does a descriptor with neither a  *)
(* tick, an undo nor a duration, which is never registered.                *)

Tracked(spec) == Ticks(spec) \/ spec.undo \/ Expires(spec)

\* ApplyEffect: Setup applies the new state to the player, then
\* EffectManager::Apply cancels the previous instance.
ApplyBody(k, spec) ==
  /\ nextInst <= MaxEffects
  /\ Tracked(spec)
  /\ nextInst' = nextInst + 1
  /\ Cancel(k, Push(InApply(k, spec, nextInst), stack), [applied EXCEPT ![k] = nextInst])
  /\ UNCHANGED <<clock, nextTimer, now, toFire, current, interval, dangling>>

CancelBody(k) ==
  /\ effects[k] # None
  /\ Cancel(k, stack, applied)
  /\ UNCHANGED <<clock, nextTimer, now, toFire, current, interval, nextInst, dangling>>

ApplyEffect(k, spec) == Calls("apply") /\ MayTouch({k}) /\ ApplyBody(k, spec)
ClearEffect(k) == Calls("clear") /\ MayTouch({k}) /\ IsActive(k) /\ CancelBody(k)
ToggleEffect(k, spec) ==
  /\ Calls("toggle")
  /\ MayTouch({k})
  /\ \/ IsActive(k) /\ CancelBody(k)
     \/ ~IsActive(k) /\ ApplyBody(k, spec)

\* EffectManager::Cancel called by the plugin itself.
CancelEffect(k) == Calls("cancel") /\ MayTouch({k}) /\ CancelBody(k)

-----------------------------------------------------------------------------
(* The scheduler frame that drives ticks and expiries.                     *)

InLoop == Running("Frame") /\ current = NoHandle

BeginFrame ==
  /\ stack = <<>> /\ ~dangling
  /\ DOMAIN timers # {}
  /\ stack' = <<InFrame>>
  /\ now' = clock
  /\ toFire' = Due(timers, clock)
  /\ UNCHANGED <<timers, nextTimer, clock, current, interval, inst, nextInst, effects, applied,
                 stops, dangling>>

Skip(t) ==
  /\ InLoop
  /\ t \in toFire \ DOMAIN timers
  /\ toFire' = toFire \ {t}
  /\ UNCHANGED <<timers, nextTimer, clock, now, current, interval, stack, inst, nextInst, effects,
                 applied, stops, dangling>>

Invoke(t) ==
  /\ InLoop
  /\ t \in toFire \cap DOMAIN timers
  /\ toFire' = toFire \ {t}
  /\ current' = t
  /\ interval' = timers[t].interval
  /\ UNCHANGED <<nextTimer, clock, now, nextInst, effects, dangling>>

FireTick(t) ==
  /\ Invoke(t)
  /\ timers[t].kind = "tick"
  /\ stack' = Push(InOnTick(timers[t].inst), stack)
  /\ UNCHANGED <<timers, inst, applied, stops>>

\* Mutant of FireStop: the lambda finds its weak pointer expired.
FireStopExpired(t) ==
  /\ Invoke(t)
  /\ timers[t].kind = "stop"
  /\ UNCHANGED <<timers, stack, inst, applied, stops>>

\* The stop timer's lambda.  A live state is owned by its entry, so the weak
\* pointer it holds can be locked whenever Stop has something to do.
FireStop(t) ==
  /\ Invoke(t)
  /\ timers[t].kind = "stop"
  /\ Stop(timers[t].inst, stack, applied)

\* The timer callback has returned to OnGameFrame.
Settle ==
  /\ Running("Frame") /\ current # NoHandle
  /\ timers' = Settled(timers, current, interval, now)
  /\ current' = NoHandle
  /\ interval' = OneShot
  /\ UNCHANGED <<nextTimer, clock, now, toFire, stack, inst, nextInst, effects, applied, stops,
                 dangling>>

EndFrame ==
  /\ InLoop
  /\ toFire = {}
  /\ stack' = Tail(stack)
  /\ now' = 0
  /\ UNCHANGED <<timers, nextTimer, clock, toFire, current, interval, inst, nextInst, effects,
                 applied, stops, dangling>>

\* An OnTick or OnStop body returns to its caller.
Return ==
  /\ Running("OnTick") \/ Running("OnStop")
  /\ stack' = Tail(stack)
  /\ UNCHANGED <<sched, clock, inst, nextInst, effects, applied, stops, dangling>>

Elapse ==
  /\ clock < MaxClock /\ ~dangling
  /\ clock' = clock + 1
  /\ UNCHANGED <<sched, stack, inst, nextInst, effects, applied, stops, dangling>>

-----------------------------------------------------------------------------

Init ==
  /\ timers = NoItems
  /\ nextTimer = FirstHandle
  /\ clock = 0
  /\ now = 0
  /\ toFire = {}
  /\ current = NoHandle
  /\ interval = OneShot
  /\ stack = <<>>
  /\ inst = NoItems
  /\ nextInst = 1
  /\ effects = [k \in Key |-> None]
  /\ applied = [k \in Key |-> None]
  /\ stops = [i \in Instance |-> 0]
  /\ dangling = FALSE

Plugin ==
  \/ \E k \in Key, spec \in Specs : ApplyEffect(k, spec) \/ ToggleEffect(k, spec)
  \/ \E k \in Key : ClearEffect(k) \/ CancelEffect(k)
  \/ \E s \in Slot, which \in {"all", "perLife"} : Sweep(which, {s})
  \/ \E which \in {"all", "round"} : Sweep(which, Slot)

TimerHandle == FirstHandle .. nextTimer - 1

\* Code of the kit, and the return of plugin callbacks.
Kit ==
  \/ Construct \/ Store \/ FinishAssign
  \/ SweepSlot \/ SweepDone \/ \E e \in EffectId : SweepCancel(e)
  \/ BeginFrame \/ Settle \/ EndFrame
  \/ \E t \in TimerHandle : Skip(t) \/ FireTick(t) \/ FireStop(t)
  \/ Return

Next == Plugin \/ Kit \/ Elapse

\* The engine keeps calling OnGameFrame, callbacks return, time passes.
Fairness == WF_vars(Kit) /\ WF_vars(Elapse)

Spec == Init /\ [][Next]_vars /\ Fairness

-----------------------------------------------------------------------------

Constructed == DOMAIN inst

\* Types: instances, keys and handles in range, OnGameFrame's marker only at
\* the bottom of the stack.
TypeOK ==
  /\ DOMAIN timers \subseteq TimerHandle
  /\ \A t \in DOMAIN timers : timers[t].inst \in Constructed /\ timers[t].kind \in {"tick", "stop"}
  /\ Constructed \subseteq 1 .. nextInst - 1
  /\ nextInst \in 1 .. MaxEffects + 1
  /\ effects \in [Key -> Constructed \cup {None}]
  /\ applied \in [Key -> Instance \cup {None}]
  /\ stops \in [Instance -> Nat]
  /\ \A n \in 1 .. Len(stack) - 1 : stack[n] # InFrame
  /\ dangling \in BOOLEAN

\* OnStop runs exactly once, whichever of expiry, cancel, sweep, re-apply or
\* assignment ends the effect, however these overlap: never before the effect
\* has ended, and not a second time after.
StopsExactlyOnce ==
  \A i \in Constructed :
    stops[i] = IF inst[i].stopped /\ inst[i].spec.undo THEN 1 ELSE 0

\* An ended effect leaves no timer in the scheduler.
NoLeakedTimers == \A t \in DOMAIN timers : Live(timers[t].inst)

\* Every live effect can still be reached by Cancel and by the sweeps: its own
\* entry owns it, or the assignment that is about to store it does.
BeingStored(i) ==
  \E n \in 1 .. Len(stack) : stack[n].fn \in {"Store", "Assign"} /\ stack[n].inst = i

LiveEffectsAreOwned ==
  ~dangling => \A i \in Constructed : Live(i) => effects[inst[i].key] = i \/ BeingStored(i)

\* Types, and nothing is orphaned: no timer of an ended effect is left in the
\* scheduler, no live effect is out of reach of the manager.
NothingOrphaned == TypeOK /\ NoLeakedTimers /\ LiveEffectsAreOwned

\* A sweep ends every effect that was live and selected when it started, even
\* when the OnStop of one changes the map under it.
Pending(r, i) ==
  LET k == inst[i].key IN k[1] \in r.slots \/ (k[1] = r.slot /\ k[2] \in r.ids)

SweepsReachEveryVictim ==
  \A n \in 1 .. Len(stack) :
    stack[n].fn = "Sweep" =>
      \A i \in stack[n].victims : Live(i) => Pending(stack[n], i)

\* No step of a sweep ends an effect that was live when the sweep began and that
\* its slots and scope do not select: the death sweep spares the Session effects
\* it finds, the round sweep those it finds that are not round-scoped.  Of what
\* OnStop bodies put into the map meanwhile it says nothing.
SweepsSpareTheRest ==
  [][\A i \in Constructed :
       Running("Sweep") /\ i \in Top.others /\ Live(i) => ~inst'[i].stopped]_vars

\* "The death sweep skips it": no death sweep ends a Session effect, also not one
\* that an OnStop it runs has stored under an id the sweep has still to come to.
DeathSweepKeepsSession ==
  [][\A i \in Constructed :
       Running("Sweep") /\ Top.which = "perLife" /\ inst[i].spec.scope = "Session" /\ Live(i)
         => ~inst'[i].stopped]_vars

\* Between calls, what shows on a player is exactly what the active effects
\* applied: nothing is left behind and nothing active has been undone.
PlayersMatchEffects ==
  stack = <<>> =>
    \A k \in Key : applied[k] = IF IsActive(k) /\ inst[effects[k]].spec.undo
                                THEN effects[k] ELSE None

\* A timed effect ends once its duration has passed: while one is alive its
\* expiry is pending, or is overdue and about to be served.
ExpiryAhead(i) ==
  \E t \in DOMAIN timers :
    timers[t].inst = i /\ timers[t].kind = "stop" /\ timers[t].next > clock

TimedEffectsEnd ==
  \A i \in Instance :
    (i \in Constructed /\ Expires(inst[i].spec) /\ ~ExpiryAhead(i))
      ~> (i \in Constructed /\ ~Live(i))

=============================================================================
