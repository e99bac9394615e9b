--------------------------- MODULE MC_InfoLogDump ---------------------------
EXTENDS InfoLogDumpProperties
=============================================================================
