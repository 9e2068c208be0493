------------------------------ MODULE Targeting ------------------------------
(* The target-selector grammar of chat commands (src/src/Players/Targeting.cpp) *)
(* as pure operators: what a token means (ParseTargetToken) and whom it names   *)
(* on a roster under a command's rules (FilterRoster).  A token is a record of  *)
(* the facts the parser asks about its text, a name a short sequence of         *)
(* letters, and the roster a set of player views.  FilterRoster's random index  *)
(* makes its answer a set of possible outcomes.                                 *)
EXTENDS Integers, Sequences, FiniteSets, SequencesExt, TLC

CONSTANTS
  None,       \* no value (std::nullopt, a null pointer)
  IntWidth    \* 2^bits of the program's int

\* The int that static_cast<int> makes of an int64_t.
CastInt(v) == LET low == v % IntWidth IN IF 2 * low < IntWidth THEN low ELSE low - IntWidth

TeamSpectator == 1
TeamT == 2
TeamCT == 3

Query(kind) == [kind |-> kind, team |-> -1, slot |-> -1, steamId |-> None, needle |-> << >>]
TeamQuery(kind, team) == [Query(kind) EXCEPT !.team = team]

\* The selector words, case folded, and what each selects.
SelectorWords ==
  {"@all", "@*", "@me", "@!me", "@t", "@ct", "@spec", "@dead", "@alive", "@bot", "@bots",
   "@human", "@humans", "@random", "@randomt", "@randomct"}

Selector(word) ==
  CASE word \in {"@all", "@*"} -> Query("All")
    [] word = "@me" -> Query("Me")
    [] word = "@!me" -> Query("NotMe")
    [] word = "@t" -> TeamQuery("Team", TeamT)
    [] word = "@ct" -> TeamQuery("Team", TeamCT)
    [] word = "@spec" -> TeamQuery("Spectators", TeamSpectator)
    [] word = "@dead" -> Query("Dead")
    [] word = "@alive" -> Query("Alive")
    [] word \in {"@bot", "@bots"} -> Query("Bots")
    [] word \in {"@human", "@humans"} -> Query("Humans")
    [] word = "@random" -> Query("Random")
    [] word = "@randomt" -> TeamQuery("RandomTeam", TeamT)
    [] word = "@randomct" -> TeamQuery("RandomTeam", TeamCT)

(* A token's text, as the parsers see it: word is the selector it spells or    *)
(* None, slot the number after a leading '#', number the whole text as an      *)
(* int64_t, numeric whether it is all digits, isId whether it is long and in   *)
(* the SteamID range, steamId the id its [U:1:..] or STEAM_ spelling decodes   *)
(* to, seconds what it comes to as a duration or -1, letters its folded text.  *)
Token == [word : SelectorWords \cup {None}, slot : Int \cup {None}, number : Int \cup {None},
          numeric : BOOLEAN, isId : BOOLEAN, steamId : Int \cup {None},
          letters : Seq(STRING), seconds : Int]

ParseTargetToken(token) ==
  CASE token.word # None -> Selector(token.word)
    [] token.word = None /\ token.slot # None /\ token.slot >= 0 ->
         [Query("Slot") EXCEPT !.slot = CastInt(token.slot)]
    [] token.word = None /\ token.slot = None /\ token.isId ->
         [Query("SteamId") EXCEPT !.steamId = token.number]
    [] token.word = None /\ token.slot = None /\ ~token.isId /\ token.steamId # None ->
         [Query("SteamId") EXCEPT !.steamId = token.steamId]
    [] OTHER -> [Query("Name") EXCEPT !.needle = token.letters]

Exact(name, needle) == name = needle
Starts(name, needle) == IsPrefix(needle, name)
Within(name, needle) == needle \in SubSeqs(name)

\* Mutant of NameTier: prefixes and exact names in one tier.
NameTierNoExact(roster, needle) ==
  LET starts == {p \in roster : Starts(p.name, needle)}
  IN IF starts # {} THEN starts ELSE {p \in roster : Within(p.name, needle)}

\* An exact name wins outright, then prefixes, then substrings.
NameTier(roster, needle) ==
  LET exact == {p \in roster : Exact(p.name, needle)}
      starts == {p \in roster : Starts(p.name, needle)}
  IN CASE exact # {} -> exact
       [] exact = {} /\ starts # {} -> starts
       [] OTHER -> {p \in roster : Within(p.name, needle)}

Candidates(roster, query, caller) ==
  CASE query.kind \in {"All", "Random"} -> roster
    [] query.kind = "Me" -> {p \in roster : p.slot = caller}
    [] query.kind = "NotMe" -> {p \in roster : p.slot # caller}
    [] query.kind \in {"Team", "RandomTeam", "Spectators"} -> {p \in roster : p.team = query.team}
    [] query.kind = "Dead" -> {p \in roster : ~p.alive}
    [] query.kind = "Alive" -> {p \in roster : p.alive}
    [] query.kind = "Bots" -> {p \in roster : p.bot}
    [] query.kind = "Humans" -> {p \in roster : ~p.bot}
    [] query.kind = "Slot" -> {p \in roster : p.slot = query.slot}
    [] query.kind = "SteamId" -> {p \in roster : p.steamId = query.steamId}
    [] OTHER -> NameTier(roster, query.needle)

Slots(views) == {p.slot : p \in views}
Resolved(slots) == [error |-> None, slots |-> slots, count |-> 0]
Failed(error, count) == [error |-> error, slots |-> {}, count |-> count]

\* The rules narrow the candidates one after another; the first that empties the set is blamed.
FilterRoster(roster, query, rules, caller) ==
  LET all == Candidates(roster, query, caller)
      bodies == IF rules.allowBots THEN all ELSE {p \in all : ~p.bot}
      living == IF rules.allowDead THEN bodies ELSE {p \in bodies : p.alive}
      open == {p \in living : p.targetable}
      many == Cardinality(open)
  IN CASE all = {} -> {Failed("NoMatch", 0)}
       [] all # {} /\ bodies = {} -> {Failed("BotNotAllowed", 0)}
       [] bodies # {} /\ living = {} -> {Failed("DeadNotAllowed", 0)}
       [] living # {} /\ open = {} -> {Failed("Immune", 0)}
       [] open # {} /\ query.kind \in {"Random", "RandomTeam"} -> {Resolved({p.slot}) : p \in open}
       [] open # {} /\ query.kind \notin {"Random", "RandomTeam"} /\ many > 1 /\ ~rules.allowMultiple ->
            {Failed(IF query.kind = "Name" THEN "Ambiguous" ELSE "MultiNotAllowed", many)}
       [] OTHER -> {Resolved(Slots(open))}

=============================================================================
