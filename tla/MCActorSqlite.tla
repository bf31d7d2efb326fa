---------------------------- MODULE MCActorSqlite ----------------------------
(* ActorSqlite for TLC.                                                     *)
EXTENDS ActorSqlite

\* The application leaves its alarm alone once something failed or crashed, so
\* that what recovery does to the alarm of the file shows.
RecoveryNext == (Untroubled /\ AlarmCalls) \/ OtherCalls \/ Runtime

RecoverySpec == Init /\ [][RecoveryNext]_vars /\ Fairness

=============================================================================
