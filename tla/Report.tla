-------------------------------- MODULE Report --------------------------------
(***************************************************************************)
(* The weekly report (metrics/report.py): four queries over the tables of  *)
(* the metrics database, and what they promise together.  The report reads *)
(* committed tables only, so it may be printed in any state.               *)
(***************************************************************************)
EXTENDS Collector

CONSTANTS
    WeekOf,  \* WeekOf[at]: the week of a Date
    SizeOf   \* SizeOf[m]: the bytes of m

ASSUME WeekAssumption == WeekOf \in [1 .. Now -> Nat]
ASSUME SizeAssumption == SizeOf \in [Mails -> Nat]
ASSUME CountAssumption ==   \* the queries count and sum
    IsFiniteSet(Tags) /\ IsFiniteSet(Agents) /\ IsFiniteSet(Lines) /\ IsFiniteSet(Days)

\* COALESCE(MAX(...), 0).
MaxOrZero(S) == Max(S \cup {0})

\* COUNT(DISTINCT message_id), with the rows' tag t.
MessagesOf(t) == {row[1] : row \in {r \in db.messages : Mail[r[1]].tag = t}}

\* The rows of director_interventions with tag t.
InterventionsOf(t) == UNION {{at} \X (1 .. db.interventions[<<t, at>>]) : at \in 1 .. Now}

\* PER_ARTICLE_SQL, the numbers of one row.
PER_ARTICLE(t) ==
    [messages       |-> Cardinality(MessagesOf(t)),
     max_hop        |-> MaxOrZero({Mail[m].hop : m \in MessagesOf(t)}),
     fuses          |-> Cardinality({s \in Stage : db.fuses[s][t] # 0}),
     director_mails |-> Cardinality(InterventionsOf(t)),
     review_cycles  |-> MaxOrZero({r.cycle_number : r \in {q \in db.revisions : q.tag = t}})]

\* WEEKLY_SQL, one row: bytes are summed over recipients, mails are not.
WEEKLY(week) ==
    LET rows == {r \in db.messages : WeekOf[Mail[r[1]].sent_at] = week}
    IN  [messages    |-> Cardinality({r[1] : r \in rows}),
         active_tags |-> Cardinality({Mail[r[1]].tag : r \in rows} \ {NoTag}),
         bytes       |-> Cardinality(UNION {{r} \X (1 .. SizeOf[r[1]]) : r \in rows})]

\* EVENTS_SQL.
EVENTS(type) ==
    IF type = "fusibile"
    THEN Cardinality({row \in Stage \X Tags : db.fuses[row[1]][row[2]] # 0})
    ELSE Cardinality({row \in db.bounces : row.type = type})

\* TOKENS_SQL.
TOKENS(agent) ==
    Cardinality(UNION {{d} \X (1 .. db.token_usage[<<agent, d>>]) : d \in Days})

-----------------------------------------------------------------------------
\* The columns of an article agree: what the director sent and the review
\* steps of the verificatore are mails of the same article, each counted once.
ColumnsAgree ==
    \A t \in Tags :
        LET row == PER_ARTICLE(t)
            reviews == {r \in db.revisions : r.tag = t}
        IN  row.director_mails + Cardinality(reviews) <= row.messages

\* Does every record of a's session logs name its day?
AllStamped(a) ==
    \A f \in FilesOf(a) : \A i \in DOMAIN sessions[f].lines : sessions[f].lines[i].stamp # NoStamp

AtLeast(new, old) == \A column \in DOMAIN old : new[column] >= old[column]

\* No number of the report ever falls from one night to the next: passes run
\* again, fail or read what came in late, and only ever add to it.  The tokens
\* of an agent may fall if a record of its names no day: it moves to a new day
\* with the mtime of its file and leaves the total of the old day too high,
\* until a late record of that day has the total written again.
NeverLess ==
    [][db' # db =>
        /\ \A t \in Tags : AtLeast(PER_ARTICLE(t)', PER_ARTICLE(t))
        /\ \A at \in 1 .. Now : AtLeast(WEEKLY(WeekOf[at])', WEEKLY(WeekOf[at]))
        /\ \A type \in BounceKind \cup {"fusibile"} : EVENTS(type)' >= EVENTS(type)
        /\ \A a \in Agents : AllStamped(a) => TOKENS(a)' >= TOKENS(a)]_vars
=============================================================================
