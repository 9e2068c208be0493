------------------------------ MODULE Messaging ------------------------------
(* What the kit says once it runs: the commands ConVarService hands to the      *)
(* server's console, and the texts Translations finds for a player.             *)
EXTENDS Startup

CONSTANTS
  Client,      \* player slots
  Language,    \* language codes, "en" among them
  Key,         \* keys of translated texts
  CommandLine, \* what ExecuteServerCommand may be given: its words, and its line ends
  MaxBuffer    \* bound: tokens in the console's buffer

ASSUME CommandAssumption == CommandLine \subseteq Seq(STRING)
ASSUME LanguageAssumption == \A h \in Hosts : None \notin DOMAIN h.languages

NewLine == "\n"

\* A caller hands over one command, not several in one text; the code does not look.
SingleLines == \A command \in CommandLine : \A i \in 1 .. Len(command) - 1 : command[i] # NewLine

VARIABLES
  buffer,          \* the console's command buffer, as tokens
  submitted,       \* history: the commands handed over since the console last ran
  connected,       \* the slots that have a player
  language,        \* _activeLang
  playerLangs,     \* _playerLangs, None when empty
  asked,           \* history: the language the player in a slot asked for himself
  said             \* the last text looked up for a player

consoleVars == <<buffer, submitted>>
languageVars == <<connected, language, playerLangs, asked, said>>
messagingVars == <<consoleVars, languageVars>>

(* ---- ConVarService --------------------------------------------------------- *)

\* Mutant of Line: a command goes to the buffer as it is.
LineAsGiven(command) == command

\* A command with the line end it may lack.
Line(command) ==
  IF command = << >> \/ command[Len(command)] # NewLine THEN Append(command, NewLine) ELSE command

ExecuteServerCommand(command) ==
  /\ Len(buffer \o Line(command)) <= MaxBuffer
  /\ buffer' = buffer \o Line(command)
  /\ submitted' = Append(submitted, command)

\* The console runs its buffer between two frames.
ConsoleRuns ==
  /\ buffer # << >>
  /\ buffer' = << >>
  /\ submitted' = << >>

(* ---- Translations ---------------------------------------------------------- *)

\* Load: the files that parse, each with the keys of its nested objects, flattened.
Loaded == [code \in {c \in DOMAIN host.languages : host.languages[c] # Broken} |-> host.languages[code]]
Available == DOMAIN Loaded
LookupIn(code, key) == code \in Available /\ key \in Loaded[code]

Connects(slot) ==
  /\ slot \notin connected
  /\ connected' = connected \cup {slot}
  /\ asked' = [asked EXCEPT ![slot] = None]
  /\ UNCHANGED <<language, playerLangs, said>>

\* Mutant of Disconnects: the player goes and his language stays with the slot.
DisconnectsKeepingLanguage(slot) ==
  /\ slot \in connected
  /\ connected' = connected \ {slot}
  /\ UNCHANGED <<language, playerLangs, asked, said>>

\* The disconnect hook reaches ClearPlayerLanguage through the menus' cleanup.
Disconnects(slot) ==
  /\ slot \in connected
  /\ connected' = connected \ {slot}
  /\ playerLangs' = [playerLangs EXCEPT ![slot] = None]
  /\ UNCHANGED <<language, asked, said>>

SetLanguage(code) ==
  /\ language' = code
  /\ UNCHANGED <<connected, playerLangs, asked, said>>

\* An empty code clears.  A plugin calls it for a player who is there; the code does not look.
SetPlayerLanguage(slot, code) ==
  /\ slot \in connected
  /\ playerLangs' = [playerLangs EXCEPT ![slot] = code]
  /\ asked' = [asked EXCEPT ![slot] = code]
  /\ UNCHANGED <<connected, language, said>>

LanguageFor(slot) ==
  IF slot \in Client THEN IF playerLangs[slot] # None THEN playerLangs[slot] ELSE language ELSE language

\* Get: the language the text was found in, or None for the key itself.
Get(key, slot) ==
  IF LookupIn(LanguageFor(slot), key) THEN LanguageFor(slot)
  ELSE IF LookupIn("en", key) THEN "en" ELSE None

\* The text of a key is found for a player, and sent to him.
ReplyKey(slot, key) ==
  /\ slot \in connected
  /\ said' = [key |-> key, text |-> Get(key, slot), asked |-> asked[slot], active |-> language]
  /\ UNCHANGED <<connected, language, playerLangs, asked>>

MessagingInit ==
  /\ buffer = << >> /\ submitted = << >>
  /\ connected = {}
  /\ language = "en"
  /\ playerLangs = [slot \in Client |-> None]
  /\ asked = [slot \in Client |-> None]
  /\ said = None

Console ==
  /\ ConsoleRuns \/ \E command \in CommandLine : ExecuteServerCommand(command)
  /\ UNCHANGED languageVars

Languages ==
  /\ \/ \E slot \in Client : Connects(slot) \/ Disconnects(slot)
     \/ \E code \in Available : SetLanguage(code)
     \/ \E slot \in Client, code \in Language \cup {None} : SetPlayerLanguage(slot, code)
     \/ \E slot \in Client, key \in Key : ReplyKey(slot, key)
  /\ UNCHANGED consoleVars

MessagingNext ==
  \/ host.scene = "console" /\ Console
  \/ host.scene = "languages" /\ Languages

(* ---- properties ------------------------------------------------------------ *)

\* The lines of a buffer: what stands between its line ends.
Lines(tokens) ==
  LET ends == {i \in DOMAIN tokens : tokens[i] = NewLine}
      from(i) == 1 + Max({0} \cup {j \in ends : j < i})
  IN [i \in ends |-> SubSeq(tokens, from(i), i - 1)]

(* The console finds the commands as they were handed over: the last token of    *)
(* the buffer ends a line, and each command is a line of its own.                *)
CommandsStayApart ==
  /\ buffer # << >> => buffer[Len(buffer)] = NewLine
  /\ {Lines(buffer)[i] : i \in DOMAIN Lines(buffer)}
       = {IF c # << >> /\ c[Len(c)] = NewLine THEN SubSeq(c, 1, Len(c) - 1) ELSE c :
            c \in {submitted[i] : i \in DOMAIN submitted}}
  /\ Cardinality(DOMAIN Lines(buffer)) = Len(submitted)

\* Whether the text is from the first of these languages that has the key; None when none has.
FirstThatHas(codes, key, text) ==
  \/ text = None /\ \A i \in DOMAIN codes : ~LookupIn(codes[i], key)
  \/ \E i \in DOMAIN codes : /\ text = codes[i] /\ LookupIn(codes[i], key)
                             /\ \A j \in 1 .. i - 1 : ~LookupIn(codes[j], key)

(* A player is told a text in the language he asked for himself, in the server's *)
(* when he asked for none, and in English when that one lacks it: never in the   *)
(* language of somebody who had the slot before him, which _playerLangs keeps by *)
(* slot until it is cleared.                                                     *)
TextsAreTheirOwn ==
  said # None =>
    FirstThatHas(<< IF said.asked # None THEN said.asked ELSE said.active, "en" >>, said.key, said.text)

(* What Translations.hpp promises of Get(key, slot): "falling back to the active *)
(* language then English".  Get skips the active language when the player asked  *)
(* for one of his own that lacks the key.                                        *)
ActiveBeforeEnglish ==
  said # None =>
    FirstThatHas((IF said.asked # None THEN << said.asked >> ELSE << >>) \o << said.active, "en" >>,
                 said.key, said.text)

=============================================================================
