------------------------------ MODULE Commands -------------------------------
(* Chat commands (Commands::CommandManager) and the other door to the same      *)
(* powers, menu actions (Players::ActionDispatcher, Menu::MenuContext), over    *)
(* the live roster of Players.  A chat line is a prefix, a word and argument    *)
(* tokens; the plugin's policy is a set of admins and a relation of immunity.   *)
EXTENDS Players, Sequences

CONSTANTS
  Spec0,        \* the commands the plugin registers when it loads
  Extra,        \* commands that come and go
  ChatPrefixes, \* _prefixes
  Lines,        \* the chat lines players type
  Actions,      \* menu actions: [permission, requireAlive]
  NameOf,       \* [SteamId -> sequence of letters]
  Admins,       \* SteamIDs with every permission, or None for no policy
  Immune,       \* pairs <<caller, target>> of SteamIDs the policy blocks
  IntWidth,     \* 2^bits of the program's int
  Looks         \* what a controller tells of its pawn: [team, alive]; team 0, not alive without one

ASSUME IntWidthAssumption == IntWidth \in Nat \ {0} /\ IntWidth % 2 = 0
ASSUME ImmuneAssumption == Immune \subseteq SteamId \X SteamId

\* What an argument may be; a target is resolved or there is an error, never neither.
Arg == [kind : {"Target", "TargetOrSteamId", "Duration", "SteamId64", "Int", "Word", "ReasonTail"},
        required : BOOLEAN, bareMinutes : BOOLEAN,
        rules : [allowMultiple : BOOLEAN, allowDead : BOOLEAN, allowBots : BOOLEAN]]
ASSUME SpecsAssumption == \A cmd \in Spec0 \cup Extra : cmd.args \in Seq(Arg)
ASSUME ErrorsAssumption ==
  None \notin {"NoMatch", "BotNotAllowed", "DeadNotAllowed", "Immune", "Ambiguous", "MultiNotAllowed"}

ASSUME NobodyAssumption == None \notin Slot \cup SteamId

INSTANCE Targeting

ASSUME LinesAssumption == \A line \in Lines : line.args \in Seq(Token)
ASSUME WordsAssumption == None \notin SelectorWords
ASSUME NamesAssumption == NameOf \in [SteamId -> Seq(STRING)]

VARIABLES
  commands,     \* _commands, as a set of specs with distinct names
  controller,   \* what each slot's controller tells, or None for no controller
  did           \* what the step just taken came to, if it was a chat line or a menu action

commandVars == <<commands, controller, did>>

\* TargetRules with its defaults, and the factories of argument specs.
AnyRules == [allowMultiple |-> FALSE, allowDead |-> TRUE, allowBots |-> TRUE]
ArgSpec(kind) == [kind |-> kind, required |-> TRUE, rules |-> AnyRules, bareMinutes |-> TRUE]
Target(rules) == [ArgSpec("Target") EXCEPT !.rules = rules]
Word(required) == [ArgSpec("Word") EXCEPT !.required = required]
ReasonTail == [ArgSpec("ReasonTail") EXCEPT !.required = FALSE]

CommandSpec(name, aliases, permission, args) ==
  [name |-> name, aliases |-> aliases, permission |-> permission, args |-> args]
Matches(cmd, word) == word = cmd.name \/ word \in cmd.aliases

Context(i) == [i |-> i, state |-> "ok", reply |-> None, target |-> None, targets |-> {},
               steamId |-> None, seconds |-> None, int |-> None,
               word |-> None, reason |-> None]
NothingDone == [caller |-> None, line |-> None, cmd |-> None, ran |-> None, with |-> Context(1)]

-------------------------------------------------------------------------------
HasPermission(p, permission) == permission = "" \/ Admins = None \/ p.steamId \in Admins
CanTarget(p, q) == <<p.steamId, q.steamId>> \notin Immune

\* ResolveTargets' snapshot of the roster.
View(p, caller) ==
  LET pc == controller[p.slot] IN
    [slot |-> p.slot, steamId |-> p.steamId, name |-> NameOf[p.steamId],
     team |-> IF pc = None THEN 0 ELSE pc.team,
     alive |-> pc # None /\ pc.alive,
     bot |-> p.steamId = Bot,
     targetable |-> CanTarget(caller, p)]

GetAllPlayers == {bySlot[s] : s \in {t \in Slot : bySlot[t] # None}}
Roster(caller) == {View(p, caller) : p \in GetAllPlayers}

ResolveTargets(token, caller, rules) ==
  FilterRoster(Roster(caller), ParseTargetToken(token), rules, caller.slot)

-------------------------------------------------------------------------------
(* One argument: what ResolveArgs makes of the token at c.i.  Each operator     *)
(* gives the set of contexts it may end in.                                     *)
Usage(c) == [c EXCEPT !.state = "failed", !.reply = "usage"]
Fail(c, reply) == [c EXCEPT !.state = "failed", !.reply = reply]
Took(c) == [c EXCEPT !.i = @ + 1]

TargetArg(c, token, caller, spec) ==
  { IF r.error # None THEN Fail(c, r.error)
    ELSE [Took(c) EXCEPT !.target = CHOOSE s \in r.slots : TRUE,
                         !.targets = IF spec.rules.allowMultiple THEN r.slots ELSE {}]
    : r \in ResolveTargets(token, caller, spec.rules) }

TargetOrSteamIdArg(c, token, caller) ==
  IF token.numeric /\ token.number # None THEN {[Took(c) EXCEPT !.steamId = token.number]}
  ELSE { IF r.error # None THEN Fail(c, r.error)
         ELSE LET s == CHOOSE s \in r.slots : TRUE
              IN [Took(c) EXCEPT !.target = s, !.steamId = bySlot[s].steamId]
         : r \in ResolveTargets(token, caller, AnyRules) }

DurationArg(c, token, spec) ==
  IF token.seconds < 0 THEN {Fail(c, "badDuration")}
  ELSE {[Took(c) EXCEPT !.seconds =
           IF spec.bareMinutes /\ token.numeric THEN token.seconds * 60 ELSE token.seconds]}

ResolveArg(c, spec, args, caller) ==
  LET token == args[c.i] IN
    CASE c.state # "ok" -> {c}
      [] c.state = "ok" /\ c.i > Len(args) ->
           IF spec.kind = "ReasonTail" THEN {[c EXCEPT !.reason = "fallback"]}
           ELSE IF spec.required THEN {Usage(c)} ELSE {c}
      [] OTHER ->
           CASE spec.kind = "Target" -> TargetArg(c, token, caller, spec)
             [] spec.kind = "TargetOrSteamId" -> TargetOrSteamIdArg(c, token, caller)
             [] spec.kind = "Duration" -> DurationArg(c, token, spec)
             [] spec.kind = "SteamId64" ->
                  IF token.numeric /\ token.number # None THEN {[Took(c) EXCEPT !.steamId = token.number]}
                  ELSE {Fail(c, "badSteamId")}
             [] spec.kind = "Int" ->
                  IF token.number # None THEN {[Took(c) EXCEPT !.int = CastInt(token.number)]} ELSE {Usage(c)}
             [] spec.kind = "Word" -> {[Took(c) EXCEPT !.word = token]}
             [] OTHER -> {[c EXCEPT !.i = Len(args) + 1, !.reason = SubSeq(args, c.i, Len(args))]}

ResolveArgs(cmd, args, caller) ==
  LET after[n \in 0 .. Len(cmd.args)] ==
        IF n = 0 THEN {Context(1)}
        ELSE UNION {ResolveArg(c, cmd.args[n], args, caller) : c \in after[n - 1]}
  IN after[Len(cmd.args)]

\* A command's own name goes before anybody's alias; among aliases the map's order decides.
GetCommand(word) ==
  LET named == {c \in commands : c.name = word}
  IN IF named # {} THEN named ELSE {c \in commands : Matches(c, word)}

-------------------------------------------------------------------------------
Register(cmd) ==
  /\ commands' = {c \in commands : c.name # cmd.name} \cup {cmd}
  /\ UNCHANGED <<controller, did>>

Unregister(name) ==
  /\ commands' = {c \in commands : c.name # name}
  /\ UNCHANGED <<controller, did>>

NotACommand(caller, line) == [NothingDone EXCEPT !.caller = caller, !.line = line]

HandleChatMessage(caller, line) ==
  /\ IF line.prefix \notin ChatPrefixes \/ GetCommand(line.word) = {}
     THEN did' = NotACommand(caller, line)
     ELSE \E cmd \in GetCommand(line.word) :
            IF ~HasPermission(caller, cmd.permission)
            THEN did' = [NotACommand(caller, line) EXCEPT !.cmd = cmd, !.with = Fail(Context(1), "noPermission")]
            ELSE \E c \in ResolveArgs(cmd, line.args, caller) :
                   did' = [NotACommand(caller, line) EXCEPT !.cmd = cmd, !.with = c,
                             !.ran = IF c.state = "ok" THEN cmd ELSE None]
  /\ UNCHANGED <<commands, controller>>

\* MenuContext::Allowed, asked when a menu is built and again by whoever cares.
Allowed(admin, target, permission) ==
  /\ bySlot[admin] # None
  /\ HasPermission(bySlot[admin], permission)
  /\ target # admin => bySlot[target] # None /\ CanTarget(bySlot[admin], bySlot[target])

\* Mutant of Resolve: the immunity was checked when the menu was built.
ResolveTrustsTheMenu(caller, target, permission) ==
  /\ bySlot[caller] # None /\ bySlot[target] # None
  /\ HasPermission(bySlot[caller], permission)

\* ActionDispatcher::Resolve and Run: the policy is asked again when the row is activated.
Resolve(caller, target, permission) ==
  /\ bySlot[caller] # None /\ bySlot[target] # None
  /\ HasPermission(bySlot[caller], permission)
  /\ CanTarget(bySlot[caller], bySlot[target])

Run(caller, target, action) ==
  /\ LET ready == /\ Resolve(caller, target, action.permission)
                  /\ controller[target] # None
                  /\ action.requireAlive => controller[target].alive
     IN did' = [NothingDone EXCEPT !.caller = bySlot[caller],
                  !.ran = IF ready THEN action ELSE None, !.with = [Context(1) EXCEPT !.target = target]]
  /\ UNCHANGED <<commands, controller>>

\* The game gives a client his controller, and moves, kills, respawns and unpawns players.
ControllerChanges(s, look) ==
  /\ client[s] # None /\ controller[s] # look
  /\ controller' = [controller EXCEPT ![s] = look]
  /\ UNCHANGED <<commands, did>>

CommandsInit ==
  /\ commands = Spec0
  /\ controller = [s \in Slot |-> None]
  /\ did = NothingDone

CommandsNext ==
  \/ \E cmd \in Extra : Register(cmd) \/ Unregister(cmd.name)
  \/ \E s \in Slot, line \in Lines : bySlot[s] # None /\ HandleChatMessage(bySlot[s], line)
  \/ \E s, t \in Slot, action \in Actions : Run(s, t, action)
  \/ \E s \in Slot, look \in Looks : ControllerChanges(s, look)

-------------------------------------------------------------------------------
ActedOn == ({did.with.target} \cup did.with.targets) \ {None}

\* Nothing is done in the name of somebody who lacks the permission, and no player whom the
\* policy protects from him is handed to what he runs as its target, be it from chat or from a
\* menu row that was shown before the roster, the pawns or the rows changed: both doors ask the
\* policy of the players who are there now.  Whom a bare SteamID names is another matter.
ActsWithinPolicy ==
  did.ran # None =>
    /\ HasPermission(did.caller, did.ran.permission)
    /\ \A s \in ActedOn : bySlot[s] # None /\ CanTarget(did.caller, bySlot[s])

\* "A bare numeric token addresses an offline player by SteamID; anything else must resolve to
\* an online player", so that "immunity" is "applied" to everyone who is there.
BareIdsAreOffline ==
  did.ran # None /\ did.with.target = None =>
    \A s \in Slot : bySlot[s] # None /\ bySlot[s].steamId = did.with.steamId => CanTarget(did.caller, bySlot[s])

\* How well a name answers to a fragment.
Fit(name, needle) ==
  CASE name = needle -> 3
    [] name # needle /\ IsPrefix(needle, name) -> 2
    [] OTHER -> IF \E i \in 1 .. Len(name) : IsPrefix(needle, SubSeq(name, i, Len(name))) THEN 1 ELSE 0

\* The players a selector word stands for, and the words that pick one of them.
RandomWords == {"@random", "@randomt", "@randomct"}
Group(views, word) ==
  { v \in views :
      CASE word = "@me" -> v.slot = did.caller.slot
        [] word = "@!me" -> v.slot # did.caller.slot
        [] word \in {"@t", "@randomt"} -> v.team = TeamT
        [] word \in {"@ct", "@randomct"} -> v.team = TeamCT
        [] word = "@spec" -> v.team = TeamSpectator
        [] word = "@dead" -> ~v.alive
        [] word = "@alive" -> v.alive
        [] word \in {"@bot", "@bots"} -> v.bot
        [] word \in {"@human", "@humans"} -> ~v.bot
        [] OTHER -> TRUE }

\* The players a target token means, by the grammar that Targeting.hpp documents: a selector,
\* "#slot", "a SteamID (64 / STEAM_ / [U:1:...]), or a name fragment (exact match preferred,
\* then prefix, then substring)".  A number means itself, however large.
Meant(views, token) ==
  LET fit(v) == Fit(v.name, token.letters)
  IN CASE token.word # None -> Group(views, token.word)
       [] token.word = None /\ token.slot # None /\ token.slot >= 0 -> {v \in views : v.slot = token.slot}
       [] token.word = None /\ token.slot = None /\ (token.isId \/ token.steamId # None) ->
            {v \in views : v.steamId = IF token.isId THEN token.number ELSE token.steamId}
       [] OTHER -> {v \in views : fit(v) > 0 /\ \A w \in views : fit(w) <= fit(v)}

Permitted(views, rules) ==
  {v \in views : v.targetable /\ (rules.allowBots \/ ~v.bot) /\ (rules.allowDead \/ v.alive)}

\* A command reaches exactly the players its token means and its rules permit: all of them, or
\* the one of them a random selector picks; and it is refused with the reason that is true of
\* the roster: nobody was meant, nobody meant is permitted, or too many are.
TargetsAreMeant ==
  did.cmd # None /\ did.with.reply # "noPermission" =>
    LET cmd == did.cmd IN
      did.line.args # << >> /\ cmd.args # << >> /\ cmd.args[1].kind = "Target" =>
        LET views == Roster(did.caller)
            token == did.line.args[1]
            rules == cmd.args[1].rules
            meant == Meant(views, token)
            fair == Permitted(meant, rules)
            random == token.word \in RandomWords
        IN CASE did.with.target # None ->
                  /\ ActedOn \subseteq Slots(fair)
                  /\ Cardinality(fair) > 1 /\ ~random => rules.allowMultiple /\ ActedOn = Slots(fair)
             [] did.with.target = None /\ did.with.reply = "NoMatch" -> meant = {}
             [] did.with.target = None /\ did.with.reply = "Immune" ->
                  fair = {} /\ Permitted({[v EXCEPT !.targetable = TRUE] : v \in meant}, rules) # {}
             [] did.with.target = None /\ did.with.reply \in {"BotNotAllowed", "DeadNotAllowed"} ->
                  meant # {} /\ fair = {}
             [] OTHER -> Cardinality(fair) > 1 /\ ~rules.allowMultiple /\ ~random

\* The fields of the context that an argument fills, and the commands that HandlersAreServed is
\* about: no argument overwrites what another filled, and the tail, if any, is the last.
Fillable == {"target", "steamId", "seconds", "int", "word", "reason"}
Fills(kind) ==
  CASE kind = "Target" -> {"target"}
    [] kind = "TargetOrSteamId" -> {"target", "steamId"}
    [] kind = "SteamId64" -> {"steamId"}
    [] kind = "Duration" -> {"seconds"}
    [] kind = "Int" -> {"int"}
    [] kind = "Word" -> {"word"}
    [] OTHER -> {"reason"}

PlainSpec(cmd) ==
  \A i, j \in DOMAIN cmd.args : i < j =>
    /\ cmd.args[i].kind # "ReasonTail"
    /\ Fills(cmd.args[i].kind) \cap Fills(cmd.args[j].kind) = {}

\* A handler runs only when every argument its command requires was resolved: from the token at
\* that argument's own place, not from one that an earlier optional or greedy argument used, and
\* a number as it was typed; what the line leaves out stays empty, but for the tail's fallback.
HandlersAreServed ==
  did.ran # None /\ did.line # None =>
    \A i \in DOMAIN did.ran.args :
      LET arg == did.ran.args[i]
          given == i <= Len(did.line.args)
          token == did.line.args[i]
      IN /\ arg.required => given \/ arg.kind = "ReasonTail"
         /\ given =>
              CASE arg.kind = "Target" -> did.with.target # None
                [] arg.kind = "TargetOrSteamId" -> did.with.steamId # None
                [] arg.kind = "SteamId64" -> token.numeric /\ did.with.steamId = token.number
                [] arg.kind = "Duration" -> did.with.seconds \in Nat
                [] arg.kind = "Int" -> token.number # None /\ did.with.int = token.number
                [] arg.kind = "Word" -> did.with.word = token
                [] OTHER -> did.with.reason = SubSeq(did.line.args, i, Len(did.line.args))
         /\ ~given =>
              CASE arg.kind = "Word" -> did.with.word = None
                [] arg.kind = "ReasonTail" -> did.with.reason = "fallback"
                [] arg.kind = "Int" -> did.with.int = None
                [] OTHER -> TRUE

\* Lines whose slot numbers and Int arguments are ints, as far as commands cmds read them.
IsInt(number) == number # None => -IntWidth <= 2 * number /\ 2 * number < IntWidth
NumbersFit(lines, cmds) ==
  \A line \in lines : \A i \in DOMAIN line.args :
    /\ IsInt(line.args[i].slot)
    /\ \A cmd \in cmds :
         i <= Len(cmd.args) /\ cmd.args[i].kind = "Int" /\ Matches(cmd, line.word) =>
           IsInt(line.args[i].number)

\* A command does what its line says, argument by argument.
ArgumentsAreMeant == TargetsAreMeant /\ HandlersAreServed

=============================================================================
