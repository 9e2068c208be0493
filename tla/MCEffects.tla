----------------------------- MODULE MCEffects ------------------------------
EXTENDS Effects

Timed == [tick |-> 1, duration |-> 1, scope |-> "Round", undo |-> TRUE]
Lasting == [tick |-> 0, duration |-> 0, scope |-> "Session", undo |-> TRUE]

OneSlot == {0}
OneId == {1}
TwoIds == {1, 2}
MCSpecs == {Timed, Lasting}
ApplyVerbs == {"apply", "clear", "cancel", "sweep"}
NoVerbs == {}
SweepVerbs == {"cancel", "sweep"}
AllVerbs == {"apply", "toggle", "clear", "cancel", "sweep"}

=============================================================================
