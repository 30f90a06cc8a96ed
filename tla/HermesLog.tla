------------------------------- MODULE HermesLog -------------------------------
(***************************************************************************)
(* The token counts metrics/hermes_log.py finds in the session logs.  A    *)
(* line is abstracted to whether it is whole JSON yet, the tokens of its   *)
(* usage fields (0 when it has none), and the day its timestamp names.  A  *)
(* sum of tokens is the number of elements of a set that has one for each. *)
(***************************************************************************)
EXTENDS Integers, SequencesExt, FiniteSets

CONSTANTS
    Sessions,   \* session files
    AgentOf,    \* AgentOf[f]: the agent whose sessions/ directory holds f
    Days        \* UTC days

ASSUME SessionAssumption ==
    Days \subseteq Nat \ {0} /\ IsFiniteSet(Sessions) /\ DOMAIN AgentOf = Sessions

NoStamp == 0
Record  == [whole : BOOLEAN, tokens : Nat, stamp : Days \cup {NoStamp}]

\* A line half written is no JSON and is skipped.
usage_fields(record) == IF record.whole THEN record.tokens ELSE 0

\* A slip: a record without a timestamp is dropped.
record_day_NoFallback(record, fallback) == record.stamp

record_day(record, fallback) ==
    IF record.stamp = NoStamp THEN fallback ELSE record.stamp

\* The tokens of the lines numbered in I.
TokensIn(lines, I) == UNION {{i} \X (1 .. usage_fields(lines[i])) : i \in I}

\* The tokens of one file, per day.
scan_session_lines(lines, fallback) ==
    [d \in Days |->
        TokensIn(lines, {i \in DOMAIN lines : record_day(lines[i], fallback) = d})]

FilesOf(agent) == {f \in Sessions : AgentOf[f] = agent}

\* How many tokens one agent used, per day; the fallback day of a file is its
\* mtime.
scan_agent_sessions(agent, sessions) ==
    [d \in Days |->
        Cardinality(UNION {{f} \X scan_session_lines(sessions[f].lines, sessions[f].mtime)[d] :
                              f \in FilesOf(agent)})]
=============================================================================
