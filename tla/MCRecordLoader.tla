----------------------------- MODULE MCRecordLoader -----------------------------
\* One file that others may spoil in any way before its turn comes.
EXTENDS RecordLoader
MCPaths   == <<"a.json">>
MCRecords == {"old", "new"}
================================================================================
