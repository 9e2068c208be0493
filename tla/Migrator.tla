------------------------------ MODULE Migrator -------------------------------
(* Database::RunMigrations: forward-only migrations of one database, run by     *)
(* several servers whose plugins load when they please.  Each step below is one *)
(* transaction of the run; a statement or the connection may fail at any of     *)
(* them, a commit may be lost on its way back, and an exception that leaves the *)
(* run closes the connection, which releases the advisory lock (external).      *)
EXTENDS Integers, Sequences, FiniteSets, Functions

CONSTANTS
  Missing,      \* no directory, no holder of the lock
  Server,
  File,         \* names of .sql files with a leading version
  VersionOf,    \* their versions
  Good,         \* those whose statements the database accepts
  Unreadable,   \* those that cannot be opened: ReadFile makes them empty
  Dirs          \* the directories a server may find, as sets of files, or Missing

ASSUME MissingAssumption == Missing \notin Server
ASSUME VersionAssumption == VersionOf \in [File -> Nat \ {0}]
ASSUME DirsAssumption ==
  /\ Dirs \subseteq (SUBSET File) \cup {Missing}
  /\ \A d \in Dirs \ {Missing} : IsFiniteSet(d)

VARIABLES
  at,        \* where each server's run is
  dir,       \* the directory it read
  todo,      \* the migrations its loop has still to come to, in order
  current,   \* the version it read from the history table
  broken,    \* whether its connection was lost
  result,    \* what it returned: [success, applied, version], and the applied so far
  rows,      \* external: versions in the history table
  ran,       \* external: the files whose statements were committed, in order
  holder     \* external: who holds the advisory lock

migratorVars == <<at, dir, todo, current, broken, result, rows, ran, holder>>

Running(s) == at[s] \notin {"idle", "ended"}
Version(f) == VersionOf[f]
Latest == IF rows = {} THEN 0 ELSE CHOOSE v \in rows : \A w \in rows : w <= v

\* std::sort leaves the order of equal versions open.
Sorted(files) ==
  {fs \in Bijection(1 .. Cardinality(files), files) : \A i, j \in DOMAIN fs : i < j => Version(fs[i]) <= Version(fs[j])}

Nothing == [success |-> FALSE, applied |-> 0, version |-> 0]

\* A run that ends before the database is asked.
EndsEarly(s, success) ==
  /\ at' = [at EXCEPT ![s] = "ended"]
  /\ dir' = [dir EXCEPT ![s] = Missing]
  /\ result' = [result EXCEPT ![s] = [Nothing EXCEPT !.success = success]]
  /\ UNCHANGED todo

\* A table name that is no identifier is refused, a missing directory is a success.
RunMigrations(s) ==
  /\ ~Running(s)
  /\ \/ EndsEarly(s, FALSE)
     \/ Missing \in Dirs /\ EndsEarly(s, TRUE)
     \/ \E d \in Dirs \ {Missing} :
          /\ dir' = [dir EXCEPT ![s] = d]
          /\ at' = [at EXCEPT ![s] = "table"]
          /\ result' = [result EXCEPT ![s] = Nothing]
          /\ \E fs \in Sorted(d) : todo' = [todo EXCEPT ![s] = fs]
  /\ current' = [current EXCEPT ![s] = 0]
  /\ broken' = [broken EXCEPT ![s] = FALSE]
  /\ UNCHANGED <<rows, ran, holder>>

CreateTable(s) ==
  /\ at[s] = "table"
  /\ at' = [at EXCEPT ![s] = "lock"]
  /\ UNCHANGED <<dir, todo, current, broken, result, rows, ran, holder>>

Lock(s) ==
  /\ at[s] = "lock" /\ holder = Missing
  /\ holder' = s
  /\ at' = [at EXCEPT ![s] = "current"]
  /\ UNCHANGED <<dir, todo, current, broken, result, rows, ran>>

ReadCurrent(s) ==
  /\ at[s] = "current"
  /\ current' = [current EXCEPT ![s] = Latest]
  /\ result' = [result EXCEPT ![s].version = Latest]
  /\ at' = [at EXCEPT ![s] = "files"]
  /\ UNCHANGED <<dir, todo, broken, rows, ran, holder>>

\* Files up to the version read are passed over.
Due(s) == Version(Head(todo[s])) > current[s]

PassOver(s) ==
  /\ at[s] = "files" /\ todo[s] # << >> /\ ~Due(s)
  /\ todo' = [todo EXCEPT ![s] = Tail(@)]
  /\ UNCHANGED <<at, dir, current, broken, result, rows, ran, holder>>

\* Mutant of Committed: the row is left out.
CommittedUnrecorded(f) == rows' = rows /\ ran' = Append(ran, f)

\* A file's transaction commits: its statements and its row.
Commits(f) == f \in Good \cup Unreadable /\ Version(f) \notin rows
Committed(f) ==
  /\ rows' = rows \cup {Version(f)}
  /\ ran' = IF f \in Unreadable THEN ran ELSE Append(ran, f)

ApplyFile(s) ==
  /\ at[s] = "files" /\ todo[s] # << >> /\ Due(s)
  /\ LET f == Head(todo[s]) IN
       IF Commits(f)
       THEN /\ Committed(f)
            /\ result' = [result EXCEPT ![s].applied = @ + 1, ![s].version = Version(f)]
            /\ todo' = [todo EXCEPT ![s] = Tail(@)]
            /\ UNCHANGED at
       ELSE /\ at' = [at EXCEPT ![s] = "unlock"]
            /\ UNCHANGED <<todo, result, rows, ran>>
  /\ UNCHANGED <<dir, current, broken, holder>>

LastFile(s) ==
  /\ at[s] = "files" /\ todo[s] = << >>
  /\ at' = [at EXCEPT ![s] = "unlock"]
  /\ UNCHANGED <<dir, todo, current, broken, result, rows, ran, holder>>

Released(s) == IF holder = s THEN Missing ELSE holder

\* The run succeeds if it got through all the files.
Unlock(s) ==
  /\ at[s] = "unlock" /\ ~broken[s]
  /\ holder' = Released(s)
  /\ result' = [result EXCEPT ![s].success = todo[s] = << >>]
  /\ at' = [at EXCEPT ![s] = "ended"]
  /\ UNCHANGED <<dir, todo, current, broken, rows, ran>>

\* A statement fails, or the connection: outside the files the run ends; a file's failure is
\* caught, its transaction may have been committed, and the unlock will find no connection.
Fails(s) ==
  /\ Running(s)
  /\ at' = [at EXCEPT ![s] = IF @ = "files" THEN "unlock" ELSE "ended"]
  /\ broken' = [broken EXCEPT ![s] = TRUE]
  /\ holder' = Released(s)
  /\ \/ /\ at[s] = "files" /\ todo[s] # << >> /\ Due(s)
        /\ Commits(Head(todo[s])) /\ Committed(Head(todo[s]))
     \/ UNCHANGED <<rows, ran>>
  /\ UNCHANGED <<dir, todo, current, result>>

\* What a run does by itself, once it has the lock.
MigrationStep(s) ==
  \/ CreateTable(s)
  \/ ReadCurrent(s)
  \/ PassOver(s)
  \/ ApplyFile(s)
  \/ LastFile(s)
  \/ Unlock(s)
  \/ broken[s] /\ Fails(s)

MigratorInit ==
  /\ at = [s \in Server |-> "idle"] /\ dir = [s \in Server |-> Missing]
  /\ todo = [s \in Server |-> << >>] /\ current = [s \in Server |-> 0]
  /\ broken = [s \in Server |-> FALSE] /\ result = [s \in Server |-> Nothing]
  /\ rows = {} /\ ran = << >> /\ holder = Missing

-------------------------------------------------------------------------------
\* Every migration is applied at most once and in ascending order, and the history table says
\* exactly which, whichever servers run at the same time, retry, fall over in the middle of a
\* file or do not learn that their commit arrived.
MigrationsRunOnce ==
  /\ \A i, j \in DOMAIN ran : i < j => Version(ran[i]) < Version(ran[j])
  /\ rows = {Version(f) : f \in Range(ran)}

\* A run that reports success applied all that was new to the database it locked and reports
\* the version it left; one that reports failure met a failing statement, a bad file or two of
\* one version, and never another server's run.
ResultsAreTrue ==
  \A s \in Server : at[s] = "ended" /\ dir[s] # Missing =>
    IF result[s].success
    THEN /\ \A f \in dir[s] : Version(f) > current[s] => f \in Range(ran)
         /\ result[s].version \in rows \cup {0}
         /\ \A f \in dir[s] : Version(f) <= result[s].version
    ELSE \/ broken[s]
         \/ \E f \in dir[s] : f \notin Good \/ \E g \in dir[s] \ {f} : Version(f) = Version(g)

\* Every run ends, the one that waits for the lock too: a holder that fails gives it back with
\* its connection.
MigrationsEnd == \A s \in Server : Running(s) ~> ~Running(s)

\* The database, its history table and what the servers are told agree.
MigrationsAreTold == MigrationsRunOnce /\ ResultsAreTrue

=============================================================================
