------------------------------- MODULE MCFlow -------------------------------
EXTENDS Flow

\* A kick needs no duration: the second of three steps is skipped for it.
MCValues == {"kick", "ban"}
MCSkips == <<{}, {"kick"}, {}>>

=============================================================================
