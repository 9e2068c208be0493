------------------------------ MODULE MCServer -------------------------------
EXTENDS Server

CONSTANTS t1, t2, t3

\* One that left may still be remembered when the next one comes to slot 0.
Objects == {0, 1, 2} \X {1, 2}
Homes == [s \in {0, 1, 2} |-> {s} \X (IF s = 0 THEN {1, 2} ELSE {1})]
Panels == {t1, t2, t3}
SeatsOf == [state |-> {<<0, 0>>, <<0, 1>>, <<1, 0>>, <<1, 1>>},
            commands |-> {<<0, 1>>, <<1, 0>>, <<1, 2>>, <<2, 0>>},
            timers |-> {<<0, 1>>, <<0, 2>>}]

\* Bob, Ba and a bot: "b" is one's name, another's beginning and inside the third's.
Names == (0 :> <<"a", "b">>) @@ (1 :> <<"b">>) @@ (2 :> <<"b", "a">>)
MCImmune == {<<2, 1>>, <<1, 0>>}
MCAdmins == {1, 2}
MCLooks == {None, [team |-> 2, alive |-> TRUE], [team |-> 3, alive |-> FALSE], [team |-> 0, alive |-> FALSE]}

Rules(many, dead, bots) == [allowMultiple |-> many, allowDead |-> dead, allowBots |-> bots]
Optional(arg) == [arg EXCEPT !.required = FALSE]

MCSpec0 ==
  { CommandSpec("kick", {"k"}, "kick", << Target(AnyRules), ReasonTail >>),
    CommandSpec("slay", {"k", "ban"}, "", << Target(Rules(TRUE, FALSE, FALSE)) >>),
    CommandSpec("ban", {}, "ban", << ArgSpec("TargetOrSteamId"), ArgSpec("Duration"), ReasonTail >>),
    CommandSpec("set", {}, "", << ArgSpec("Int"), Word(FALSE) >>) }
MCExtra == {CommandSpec("set", {"who"}, "", << Optional(Target(AnyRules)), ArgSpec("SteamId64") >>)}

ASSUME PlainAssumption == \A cmd \in MCSpec0 \cup MCExtra : PlainSpec(cmd)

Plain == [word |-> None, slot |-> None, number |-> None, numeric |-> FALSE, isId |-> FALSE,
          steamId |-> None, letters |-> << >>, seconds |-> -1]
W(word) == [Plain EXCEPT !.word = word]
N(letters) == [Plain EXCEPT !.letters = letters]
Hash(s) == [Plain EXCEPT !.slot = s, !.letters = <<"#">>]
Id64(id) == [Plain EXCEPT !.number = id, !.numeric = TRUE, !.isId = TRUE]
Secs(n) == [Plain EXCEPT !.number = n, !.numeric = TRUE, !.seconds = n, !.letters = <<"5">>]

Line(word, args) == [prefix |-> "!", word |-> word, args |-> args]
MCLines ==
  { Line("kick", << N(<<"b">>) >>), Line("k", << N(<<"a">>) >>), Line("kick", << W("@random"), N(<<"b">>) >>),
    Line("kick", << >>), Line("kick", << Hash(1) >>), Line("kick", << W("@!me") >>), Line("k", << W("@dead") >>),
    Line("slay", << W("@all") >>), Line("slay", << W("@t") >>), Line("slay", << W("@randomct") >>),
    Line("slay", << W("@bots") >>), Line("slay", << N(<<"b">>) >>),
    Line("slay", << [Plain EXCEPT !.steamId = 2] >>),
    Line("ban", << Id64(2), Secs(2) >>), Line("ban", << N(<<"b">>), N(<<"b">>) >>),
    Line("ban", << W("@me"), [Secs(2) EXCEPT !.numeric = FALSE], N(<<"b">>) >>), Line("ban", << W("@me") >>),
    Line("set", << Secs(2) >>), Line("set", << Secs(2), N(<<"b">>) >>), Line("set", << N(<<"b">>) >>),
    Line("who", << N(<<"b">>), Id64(1) >>),
    [Line("kick", << >>) EXCEPT !.prefix = "none"] }

ASSUME NumbersAssumption == NumbersFit(MCLines, MCSpec0 \cup MCExtra)

\* Numbers beyond an int, and the SteamID of somebody who is there.
MCWideLines == { Line("kick", << Hash(16) >>), Line("set", << Secs(17) >>) }
MCIdLines == { Line("ban", << Id64(1), Secs(2) >>) }

MCActions == {[permission |-> "slap", requireAlive |-> TRUE], [permission |-> "", requireAlive |-> FALSE]}

=============================================================================
