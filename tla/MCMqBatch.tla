------------------------------ MODULE MCMqBatch ------------------------------
(* Logs for the runs of MqBatch: three reports about two hosts, and three  *)
(* messages about two workspaces that update, delete or create again.      *)
EXTENDS MqBatch

CONSTANTS k1, k2

TwoSubjects == {k1, k2}

Messages(subjects, kinds) == [m \in Message |-> [subject |-> subjects[m], kind |-> kinds[m]]]

HostLogs == {Messages(<<k1, k2, k1>>, <<"upsert", "upsert", "upsert">>)}

WorkspaceLogs ==
  {Messages(<<k1, k2, k1>>, kinds) :
     kinds \in {<<"create", "create", "update">>, <<"create", "update", "delete">>}}

AllLogs == HostLogs \union WorkspaceLogs
=============================================================================
