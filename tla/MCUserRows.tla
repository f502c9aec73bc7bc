---------------------------- MODULE MCUserRows ----------------------------
(* UserRows on small instances.                                            *)
EXTENDS UserRows, TLC

\* Operations on one table meet each other and the deletions; what they do to
\* different tables is independent.
WorkloadsHere == {
    {"play", "delete", "leave"},
    {"add", "position", "remove", "delete"},
    {"draft", "undraft", "delete", "leave"},
    {"share", "delete", "leave"},
    {"settings", "leave"},
    {"mark", "sync", "unmark", "remove", "delete"},
    {"download", "delete", "leave"} }

=============================================================================
