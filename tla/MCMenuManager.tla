--------------------------- MODULE MCMenuManager ---------------------------
EXTENDS MenuManager

MCShort == <<"text", "button">>
MCLong == <<"disabled", "button", "text", "value", "text">>
MCMenus == {MCShort, MCLong}
MCMoveTypes == {"walk", "noclip"}
MCKeySets == {{}, {"R", "E"}, {"W", "D"}, {"S", "A"}} \cup {{key} : key \in Keys}

=============================================================================
