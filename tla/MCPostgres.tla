----------------------------- MODULE MCPostgres -----------------------------
EXTENDS PostgresDatabase

\* QueryBlocking is what Start's ping uses; the clients use the other three.
AsyncKinds == {"query", "exec", "raw"}
OneHelper == {"helper"}
MCNames == {"ping", "ban"}

=============================================================================
