------------------------------ MODULE MCPlugin -------------------------------
EXTENDS Plugin, TLC

CONSTANTS us, them, first, second, twin

Servers == {us, them}
Versions == (first :> 1) @@ (second :> 2) @@ (twin :> 2)
Files == {first, second, twin}
MCGood == {first, second}

\* An old and a new release, one with a bad file of an old version's number, and none.
MCDirs == {{first}, {first, second}, {first, second, twin}, Missing}

MCTogether ==
  {{"events"}, {"requests"}, {"resources", "console"}, {"migrations"}}

=============================================================================
