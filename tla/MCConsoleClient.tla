--------------------------- MODULE MCConsoleClient ---------------------------
EXTENDS ConsoleClient

AllCommands == {"query", "queryall", "event", "attachment"}
=============================================================================
