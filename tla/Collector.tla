------------------------------ MODULE Collector ------------------------------
(***************************************************************************)
(* The nightly collector (metrics/collector.py) and the persistence layer  *)
(* it writes through (metrics/db.py, metrics/schema.sql).  A pass reads    *)
(* five sources one after the other, while mail arrives, the mail filter   *)
(* warns and freezes threads, the director unfreezes them and the agents   *)
(* go on working; all it writes is one MariaDB transaction, committed at   *)
(* the end and rolled back by any exception.  The rows it keeps depend on  *)
(* the unique keys of the schema and on each ON DUPLICATE KEY clause.  The *)
(* director's review form (metrics/quality_review.py) writes a table of    *)
(* its own, whose foreign key needs what a pass has committed.             *)
(***************************************************************************)
EXTENDS PostfixLog, HermesLog

CONSTANTS
    Tags, NoTag,            \* article tags; the tag of [SERVIZIO] mail
    Agents,                 \* local parts of the addresses
    Director, Verificatore, \* DIRECTOR_LOCAL_PART, VERIFICATORE_LOCAL_PART
    NoRecipient,            \* the "" stored for a mail without To and Cc
    Mails,                  \* Message-IDs
    Mail,                   \* Mail[m]: what the headers of m say
    Titles, NoTitle,        \* titles derived from subjects; NULL
    Now,                    \* the wall clock, later than every Date
    YearOf,                 \* YearOf[d]: the year of day d
    Statuses, NoStatus,     \* statuses in articles.json; a tag not in it
    MaxCopies,              \* MaxCopies[m]: deliveries of m (filter retries)
    MaxRows,                \* where the count of untagged rows stops
    MaxEdits,               \* lines and statuses written
    MaxReviews,             \* reviews of one article
    MaxUnfreezes, MaxFailures, MaxRefusals, MaxBreaks

ASSUME NameAssumption ==
    /\ NoTag \notin Tags /\ NoRecipient \notin Agents /\ NoStatus \notin Statuses
    /\ {Director, Verificatore} \subseteq Agents /\ Director # Verificatore
ASSUME RecordAssumption ==
    /\ Now \in Nat \ {0} /\ 1 \in Days /\ IsFiniteSet(Mails)
    /\ NoTitle \notin Titles
    /\ Mail \in [Mails -> [tag : Tags \cup {NoTag}, title : Titles, sender : Agents,
                           recipients : Seq(Agents), sent_at : 1 .. Now - 1,
                           hop : Nat, identified : BOOLEAN, dated : BOOLEAN]]
    /\ YearOf \in [Days -> Nat \ {0}]
    /\ \A d, e \in Days : d < e => YearOf[d] <= YearOf[e]
ASSUME LimitAssumption ==
    /\ MaxCopies \in [Mails -> Nat]
    /\ {MaxRows, MaxEdits, MaxReviews, MaxUnfreezes, MaxFailures, MaxRefusals,
        MaxBreaks} \subseteq Nat

VARIABLES
    \* The sources.
    maildir,        \* per mail, its copies in the director's BCC maildir
    today,          \* the day, as timestamps, mtimes and --log-year see it
    mail_log,       \* per line of mail.log, the day it was written, or 0
    frozen_threads, \* state.db: per tag, 0 or the life of the thread it ended
    warned_threads, \* state.db: per tag, 0 or the life it was warned in
    sessions,       \* session logs: per file, its lines and mtime
    articles_json,  \* public status file
    broken,         \* is the status file one load_public_statuses raises on?
    unfreezes,      \* per tag, how often the director lifted the freeze
    \* The metrics database.
    db,             \* the committed tables the collector writes
    tx,             \* the same as the open transaction sees them
    quality_reviews, \* per tag, how often its one row was written
    form,           \* the article whose review is being filled in
    \* The collector process.
    pc,             \* next source to read; "off" between passes
    records,        \* mails read and not yet stored, sorted by Date
    revision_cycles, \* per tag, the cycles counted in this pass
    selected,       \* per stage of the fuse, the rows its SELECT returned
    log_year,       \* args.log_year, the year in which the pass began
    failures, refusals, breaks

newsroom == <<maildir, unfreezes>>
logs     == <<today, mail_log, sessions>>
fuse     == <<frozen_threads, warned_threads>>
status   == <<articles_json, broken, breaks>>
sources  == <<newsroom, logs, fuse, status>>
review   == <<quality_reviews, form>>
local    == <<records, revision_cycles, selected, log_year>>
faults   == <<failures, refusals>>
vars == <<sources, db, tx, pc, review, local, faults>>

Stage == {"fuse-warn", "fuse"}

\* A table with a unique key is a function or a set of rows; 0 is no row.
Tables ==
    [created_at    : [Tags -> 0 .. Now],
     title         : [Tags -> Titles \cup {NoTitle}],
     status        : [Tags -> Statuses \cup {NoStatus}],
     messages      : SUBSET (Mails \X (Agents \cup {NoRecipient})),
     interventions : {f \in [(Tags \cup {NoTag}) \X (1 .. Now) -> Nat] :
                          \A k \in Tags \X (1 .. Now) : f[k] <= 1},
     bounces       : SUBSET [line : Lines, type : BounceKind, year : Nat],
     fuses         : [Stage -> [Tags -> Nat]],
     revisions     : SUBSET [tag : Tags, to_agent : Agents, occurred_at : 1 .. Now,
                             cycle_number : Nat],
     token_usage   : [Agents \X Days -> Nat]]

EmptyTables ==
    [created_at    |-> [t \in Tags |-> 0],
     title         |-> [t \in Tags |-> NoTitle],
     status        |-> [t \in Tags |-> NoStatus],
     messages      |-> {},
     interventions |-> [k \in (Tags \cup {NoTag}) \X (1 .. Now) |-> 0],
     bounces       |-> {},
     fuses         |-> [s \in Stage |-> [t \in Tags |-> 0]],
     revisions     |-> {},
     token_usage   |-> [k \in Agents \X Days |-> 0]]

\* The locals of collect_maildir and collect_fuse_events, out of scope.
NoCycles == [t \in Tags |-> 0]
NoRows   == [s \in Stage |-> [t \in Tags |-> 0]]

Init ==
    /\ maildir = [m \in Mails |-> 0]
    /\ today = 1 /\ mail_log = [l \in Lines |-> 0]
    /\ sessions = [f \in Sessions |-> [lines |-> <<>>, mtime |-> 1]]
    /\ frozen_threads = [t \in Tags |-> 0] /\ warned_threads = [t \in Tags |-> 0]
    /\ unfreezes = [t \in Tags |-> 0]
    /\ articles_json = [t \in Tags |-> NoStatus] /\ broken = FALSE /\ breaks = 0
    /\ db = EmptyTables /\ tx = EmptyTables
    /\ quality_reviews = [t \in Tags |-> 0] /\ form = NoTag
    /\ pc = "off" /\ records = <<>> /\ revision_cycles = NoCycles
    /\ selected = NoRows /\ log_year = 0
    /\ failures = 0 /\ refusals = 0

-----------------------------------------------------------------------------
(* The statements of MetricsDb, on the tables they are given.              *)

\* A slip: the date of the first pass that saw the tag is kept.
upsert_article_KeepsFirst(tables, t, title, created_at) ==
    [tables EXCEPT !.created_at[t] = IF @ = 0 THEN created_at ELSE @,
                   !.title[t] = IF @ = NoTitle THEN title ELSE @]

\* A slip: the last title seen overwrites the first.
upsert_article_LastTitle(tables, t, title, created_at) ==
    [tables EXCEPT !.created_at[t] = IF @ = 0 \/ created_at < @ THEN created_at ELSE @,
                   !.title[t] = IF title # NoTitle THEN title ELSE @]

\* LEAST(created_at, VALUES(created_at)) and COALESCE(title, VALUES(title)).
upsert_article(tables, t, title, created_at) ==
    [tables EXCEPT !.created_at[t] = IF @ = 0 \/ created_at < @ THEN created_at ELSE @,
                   !.title[t] = IF @ = NoTitle THEN title ELSE @]

\* UPDATE articles: no row, no effect.
set_article_status(tables, t, new) ==
    [tables EXCEPT !.status[t] = IF tables.created_at[t] # 0 THEN new ELSE @]

\* One row per declared recipient, unique on (message_id, recipient).
insert_message(tables, m) ==
    LET to == IF Mail[m].recipients = <<>> THEN {NoRecipient} ELSE Range(Mail[m].recipients)
    IN  [tables EXCEPT !.messages = @ \cup ({m} \X to)]

\* A slip: the table has no unique key.
insert_intervention_NoKey(tables, t, at) ==
    [tables EXCEPT !.interventions[<<t, at>>] = IF @ < MaxRows THEN @ + 1 ELSE @]

\* Unique on (tag, occurred_at): NULL tags are never equal, and add a row each
\* time (up to the bound MaxRows).
insert_intervention(tables, t, at) ==
    [tables EXCEPT !.interventions[<<t, at>>] =
        IF t # NoTag THEN 1 ELSE IF @ < MaxRows THEN @ + 1 ELSE @]

\* A slip: both stages of a tag share one source_ref.
insert_event_OneRef(tables, stage, t, life) ==
    [tables EXCEPT !.fuses[stage][t] =
        IF \A s \in Stage : tables.fuses[s][t] = 0 THEN life ELSE @]

\* Unique on source_ref, "fuse:tag" or "fuse-warn:tag".
insert_event(tables, stage, t, life) ==
    [tables EXCEPT !.fuses[stage][t] = IF @ = 0 THEN life ELSE @]

\* Unique on source_ref, the hash of the line.
insert_bounces(tables, l, events) ==
    [tables EXCEPT !.bounces =
        IF \E row \in @ : row.line = l THEN @
        ELSE @ \cup {[line |-> l, type |-> e.type, year |-> e.year] : e \in events}]

\* Unique on (tag, occurred_at, from_agent, to_agent); renumbers.
insert_revision(tables, t, cycle, to, at) ==
    [tables EXCEPT !.revisions =
        {r \in @ : ~(r.tag = t /\ r.to_agent = to /\ r.occurred_at = at)}
        \cup {[tag |-> t, to_agent |-> to, occurred_at |-> at, cycle_number |-> cycle]}]

\* A slip: the day's total is added to the row of an earlier pass.
upsert_daily_token_usage_Adds(tables, agent, totals) ==
    [tables EXCEPT !.token_usage = [k \in Agents \X Days |->
        IF k[1] = agent THEN @[k] + totals[k[2]] ELSE @[k]]]

\* Unique on agent and day: the total of a day overwrites its row; a day the
\* scan did not find keeps the row it has.
upsert_daily_token_usage(tables, agent, totals) ==
    [tables EXCEPT !.token_usage = [k \in Agents \X Days |->
        IF k[1] = agent /\ totals[k[2]] > 0 THEN totals[k[2]] ELSE @[k]]]

-----------------------------------------------------------------------------
(* One pass.                                                               *)

BySentAt(a, b) == Mail[a].sent_at <= Mail[b].sent_at

\* Has m a record?  It needs a Message-ID and a Date that can be parsed.
parse_message(m) == Mail[m].identified /\ Mail[m].dated

\* The records of the maildir, as often as their mails are in it, sorted by
\* Date; the sort is stable, and the order of a directory is arbitrary.
Readings ==
    LET copies == [m \in {n \in Mails : parse_message(n)} |-> maildir[m]]
        size   == Cardinality(UNION {{m} \X (1 .. copies[m]) : m \in DOMAIN copies})
    IN  {s \in [1 .. size -> {m \in DOMAIN copies : copies[m] > 0}] :
            /\ \A m \in DOMAIN copies :
                    Cardinality({i \in 1 .. size : s[i] = m}) = copies[m]
            /\ \A i \in 1 .. size - 1 : BySentAt(s[i], s[i + 1])}

\* A slip: a pass rebuilds the tables from the sources.
Start_Rebuilds ==
    /\ pc = "off"
    /\ pc' = "maildir"
    /\ log_year' = YearOf[today]
    /\ tx' = EmptyTables
    /\ records' \in Readings
    /\ UNCHANGED <<sources, db, review, revision_cycles, selected, faults>>

\* The arguments, MetricsDb.from_env, then read_maildir and sorted.
Start ==
    /\ pc = "off"
    /\ pc' = "maildir"
    /\ log_year' = YearOf[today]
    /\ tx' = db
    /\ records' \in Readings
    /\ UNCHANGED <<sources, db, review, revision_cycles, selected, faults>>

\* The process ends.
Exit ==
    /\ pc' = "off" /\ records' = <<>> /\ revision_cycles' = NoCycles
    /\ selected' = NoRows /\ log_year' = 0

IsReview(m) ==
    /\ Mail[m].sender = Verificatore
    /\ Mail[m].tag # NoTag
    /\ Mail[m].recipients # <<>>

WithArticle(tables, m) ==
    IF Mail[m].tag = NoTag THEN tables
    ELSE upsert_article(tables, Mail[m].tag, Mail[m].title, Mail[m].sent_at)

WithIntervention(tables, m) ==
    IF Mail[m].sender # Director THEN tables
    ELSE insert_intervention(tables, Mail[m].tag, Mail[m].sent_at)

\* _store_message, for one record.
StoreMessage ==
    LET m == Head(records)
        stored == WithIntervention(insert_message(WithArticle(tx, m), m), m)
        t == Mail[m].tag
        cycle == revision_cycles[t] + 1
    IN  /\ pc = "maildir" /\ records # <<>>
        /\ records' = Tail(records)
        /\ \/ /\ IsReview(m)
              /\ revision_cycles' = [revision_cycles EXCEPT ![t] = cycle]
              /\ tx' = insert_revision(stored, t, cycle, Head(Mail[m].recipients),
                                       Mail[m].sent_at)
           \/ /\ ~IsReview(m)
              /\ tx' = stored
              /\ UNCHANGED revision_cycles
        /\ UNCHANGED <<sources, db, pc, review, selected, log_year, faults>>

\* The lines of mail.log; no two have a row in common.
WithLog(tables) ==
    LET events(l) == parse_postfix_line(l, YearOf[mail_log[l]], log_year)
        inserted  == {insert_bounces(tables, l, events(l)).bounces :
                        l \in {k \in Lines : mail_log[k] # 0}}
    IN  [tables EXCEPT !.bounces = @ \cup UNION inserted]

\* Is there a line that parse_postfix_line raises on?
Undatable(year) == \E l \in Lines : mail_log[l] # 0 /\ Raises(l, year)

\* A slip: a log without bounces ends the pass.
CollectPostfixLog_NeedsBounce ==
    /\ pc = "maildir" /\ records = <<>> /\ \E l \in Lines : mail_log[l] # 0
    /\ ~Undatable(log_year)
    /\ pc' = "first_select"
    /\ tx' = WithLog(tx)
    /\ revision_cycles' = NoCycles
    /\ UNCHANGED <<sources, db, review, records, selected, log_year, faults>>

\* collect_postfix_log, after collect_maildir has returned.
CollectPostfixLog ==
    /\ pc = "maildir" /\ records = <<>> /\ ~Undatable(log_year)
    /\ pc' = "first_select"
    /\ tx' = WithLog(tx)
    /\ revision_cycles' = NoCycles
    /\ UNCHANGED <<sources, db, review, records, selected, log_year, faults>>

\* A line of 29 February that is read in a year without one undoes the pass.
LogRaises ==
    /\ pc = "maildir" /\ records = <<>> /\ Undatable(log_year)
    /\ Exit
    /\ tx' = db
    /\ UNCHANGED <<sources, db, review, faults>>

\* A slip: the warned threads are read before the frozen ones.
Queries_WarnedFirst == <<"fuse-warn", "fuse">>

\* The order of the two SELECTs in collect_fuse_events.
Queries == <<"fuse", "fuse-warn">>

\* Each SELECT is a read transaction of its own.
Select(stage) ==
    [selected EXCEPT ![stage] = IF stage = "fuse" THEN frozen_threads ELSE warned_threads]

FirstSelect ==
    /\ pc = "first_select"
    /\ pc' = "second_select"
    /\ selected' = Select(Queries[1])
    /\ UNCHANGED <<sources, db, tx, review, records, revision_cycles, log_year, faults>>

\* A slip: the article of a tripped thread is taken to exist.
WithFuse_NoArticle(tables, stage, t, life) ==
    IF life = 0 THEN tables ELSE insert_event(tables, stage, t, life)

\* One (stage, tag) row: upsert_article, then insert_event.
WithFuse(tables, stage, t, life) ==
    IF life = 0 THEN tables
    ELSE insert_event(upsert_article(tables, t, NoTitle, Now), stage, t, life)

\* A loop over tags each of whose turns touches the rows of its own tag only.
ForEachTag(tables, With(_)) ==
    [tables EXCEPT !.created_at = [t \in Tags |-> With(t).created_at[t]],
                   !.title      = [t \in Tags |-> With(t).title[t]],
                   !.status     = [t \in Tags |-> With(t).status[t]],
                   !.fuses      = [s \in Stage |-> [t \in Tags |-> With(t).fuses[s][t]]]]

WithFuses(tables, stage, rows) ==
    ForEachTag(tables, LAMBDA t : WithFuse(tables, stage, t, rows[t]))

\* The rows of both SELECTs are stored, warnings first.
StoreFuses(rows) ==
    /\ pc = "second_select"
    /\ pc' = "sessions"
    /\ tx' = WithFuses(WithFuses(tx, "fuse-warn", rows["fuse-warn"]), "fuse", rows["fuse"])
    /\ selected' = NoRows
    /\ UNCHANGED <<sources, db, review, records, revision_cycles, log_year, failures>>

SecondSelect == StoreFuses(Select(Queries[2])) /\ UNCHANGED refusals

\* Any OperationalError, a database locked for more than five seconds too, is
\* taken for a state without warned_threads, and the pass goes on.
SecondSelectRefused ==
    /\ refusals < MaxRefusals
    /\ StoreFuses(selected)
    /\ refusals' = refusals + 1

\* collect_token_usage; no two agents have a row in common.
CollectTokenUsage ==
    /\ pc = "sessions"
    /\ pc' = "statuses"
    /\ LET stored(a) == upsert_daily_token_usage(tx, a, scan_agent_sessions(a, sessions))
       IN  tx' = [tx EXCEPT !.token_usage =
                    [k \in Agents \X Days |-> stored(k[1]).token_usage[k]]]
    /\ UNCHANGED <<sources, db, review, local, faults>>

WithStatus(tables, t) ==
    IF articles_json[t] = NoStatus THEN tables
    ELSE set_article_status(upsert_article(tables, t, NoTitle, Now), t, articles_json[t])

WithStatuses(tables) == ForEachTag(tables, LAMBDA t : WithStatus(tables, t))

SyncPublicStatuses ==
    /\ pc = "statuses" /\ ~broken
    /\ pc' = "commit"
    /\ tx' = WithStatuses(tx)
    /\ UNCHANGED <<sources, db, review, local, faults>>

\* load_public_statuses raises (no JSON, a missing key, a date that is none):
\* the last source read undoes the pass.
SyncRaises ==
    /\ pc = "statuses" /\ broken
    /\ Exit
    /\ tx' = db
    /\ UNCHANGED <<sources, db, review, faults>>

Commit ==
    /\ pc = "commit"
    /\ Exit
    /\ db' = tx
    /\ UNCHANGED <<sources, tx, review, faults>>

\* A slip: the tables are committed on every way out of the with block.
Fail_Commits ==
    /\ pc # "off" /\ failures < MaxFailures
    /\ Exit
    /\ db' = tx
    /\ failures' = failures + 1
    /\ UNCHANGED <<sources, tx, review, refusals>>

\* Any other exception, or the death of the process: __exit__ or the server
\* rolls the transaction back.
Fail ==
    /\ pc # "off" /\ failures < MaxFailures
    /\ Exit
    /\ tx' = db
    /\ failures' = failures + 1
    /\ UNCHANGED <<sources, db, review, refusals>>

Pass ==
    \/ StoreMessage \/ CollectPostfixLog \/ FirstSelect \/ SecondSelect
    \/ SecondSelectRefused \/ CollectTokenUsage \/ SyncPublicStatuses
    \/ LogRaises \/ SyncRaises \/ Commit

-----------------------------------------------------------------------------
(* The review form of the director, a process of its own.                  *)

\* The questions are asked before the database is opened.
OpenForm(t) ==
    /\ form = NoTag /\ quality_reviews[t] < MaxReviews
    /\ form' = t
    /\ UNCHANGED <<sources, db, tx, pc, quality_reviews, local, faults>>

\* REPLACE INTO quality_reviews, one row per article; without a committed row
\* in articles the foreign key refuses it, and the answers are gone.
SubmitForm ==
    /\ form # NoTag
    /\ quality_reviews' = IF db.created_at[form] = 0 THEN quality_reviews
                          ELSE [quality_reviews EXCEPT ![form] = @ + 1]
    /\ form' = NoTag
    /\ UNCHANGED <<sources, db, tx, pc, local, faults>>

ReviewForm == SubmitForm \/ \E t \in Tags : OpenForm(t)

-----------------------------------------------------------------------------
(* The newsroom, which does not wait for the collector.                    *)

\* A copy of m is delivered; a filter that died before it answered 250 makes
\* Postfix deliver the mail again.
Deliver(m) ==
    /\ maildir[m] < MaxCopies[m]
    /\ maildir' = [maildir EXCEPT ![m] = @ + 1]
    /\ UNCHANGED <<unfreezes, logs, fuse, status>>

NextDay ==
    /\ today + 1 \in Days
    /\ today' = today + 1
    /\ UNCHANGED <<mail_log, sessions, newsroom, fuse, status>>

\* A bound on the sources that only ever grow.
MayEdit ==
    Cardinality({l \in Lines : mail_log[l] # 0})
        + FoldFunction(LAMBDA f, n : Len(f.lines) + n, 0, sessions)
        + Cardinality({t \in Tags : articles_json[t] # NoStatus}) < MaxEdits

LogLine(l) ==
    /\ mail_log[l] = 0 /\ MayEdit
    /\ Line[l].leap_day => IsLeap(YearOf[today])
    /\ mail_log' = [mail_log EXCEPT ![l] = today]
    /\ UNCHANGED <<today, sessions, newsroom, fuse, status>>

\* ThreadState.warn and ThreadState.freeze.  Mail on a frozen thread never
\* reaches warn; a thread may be frozen unwarned when its warning failed.
WarnThread(t) ==
    /\ warned_threads[t] = 0 /\ frozen_threads[t] = 0
    /\ warned_threads' = [warned_threads EXCEPT ![t] = unfreezes[t] + 1]
    /\ UNCHANGED <<frozen_threads, newsroom, logs, status>>

FreezeThread(t) ==
    /\ frozen_threads[t] = 0
    /\ frozen_threads' = [frozen_threads EXCEPT ![t] = unfreezes[t] + 1]
    /\ UNCHANGED <<warned_threads, newsroom, logs, status>>

\* The runbook's DELETEs from frozen_threads and warned_threads.
DeleteFrozen(t) ==
    /\ frozen_threads[t] # 0 /\ unfreezes[t] < MaxUnfreezes
    /\ frozen_threads' = [frozen_threads EXCEPT ![t] = 0]
    /\ unfreezes' = [unfreezes EXCEPT ![t] = @ + 1]
    /\ UNCHANGED <<maildir, warned_threads, logs, status>>

DeleteWarned(t) ==
    /\ warned_threads[t] \in 1 .. unfreezes[t]
    /\ warned_threads' = [warned_threads EXCEPT ![t] = 0]
    /\ UNCHANGED <<frozen_threads, newsroom, logs, status>>

Torn(f) == sessions[f].lines # <<>> /\ ~Last(sessions[f].lines).whole

\* Hermes appends a record, with the day or without, in one write or two.
AppendRecord(f) ==
    /\ MayEdit /\ ~Torn(f)
    /\ \E r \in [whole : BOOLEAN, tokens : {1}, stamp : {today, NoStamp}] :
          sessions' = [sessions EXCEPT ![f] =
                          [lines |-> Append(@.lines, r), mtime |-> today]]
    /\ UNCHANGED <<today, mail_log, newsroom, fuse, status>>

FinishRecord(f) ==
    /\ Torn(f)
    /\ sessions' = [sessions EXCEPT ![f].lines[Len(sessions[f].lines)].whole = TRUE,
                                    ![f].mtime = today]
    /\ UNCHANGED <<today, mail_log, newsroom, fuse, status>>

SetStatus(t, s) ==
    /\ articles_json[t] # s
    /\ articles_json[t] # NoStatus \/ MayEdit
    /\ articles_json' = [articles_json EXCEPT ![t] = s]
    /\ UNCHANGED <<broken, breaks, newsroom, logs, fuse>>

\* An agent writes the status file by hand: it may get it wrong, and repair it.
BreakStatuses ==
    /\ ~broken /\ breaks < MaxBreaks
    /\ broken' = TRUE /\ breaks' = breaks + 1
    /\ UNCHANGED <<articles_json, newsroom, logs, fuse>>

RepairStatuses ==
    /\ broken /\ broken' = FALSE
    /\ UNCHANGED <<articles_json, breaks, newsroom, logs, fuse>>

Environment ==
    /\ \/ \E m \in Mails : Deliver(m)
       \/ NextDay
       \/ \E l \in Lines : LogLine(l)
       \/ \E t \in Tags : WarnThread(t) \/ FreezeThread(t)
       \/ \E t \in Tags : DeleteFrozen(t) \/ DeleteWarned(t)
       \/ \E f \in Sessions : AppendRecord(f) \/ FinishRecord(f)
       \/ \E t \in Tags, s \in Statuses : SetStatus(t, s)
       \/ BreakStatuses \/ RepairStatuses
    /\ UNCHANGED <<db, tx, pc, review, local, faults>>

Next == Start \/ Pass \/ Fail \/ ReviewForm \/ Environment

Spec == Init /\ [][Next]_vars

\* Cron starts a pass every night, and a pass that does not fail ends.
FairSpec == Spec /\ WF_vars(Start) /\ WF_vars(Pass)

-----------------------------------------------------------------------------
(* Safety.                                                                 *)

\* Every variable keeps its type: the columns of the tables and the records
\* the pass works on.
TypeOK ==
    /\ maildir \in [Mails -> Nat] /\ today \in Days
    /\ mail_log \in [Lines -> Days \cup {0}]
    /\ frozen_threads \in [Tags -> Nat] /\ warned_threads \in [Tags -> Nat]
    /\ sessions \in [Sessions -> [lines : Seq(Record), mtime : Days]]
    /\ articles_json \in [Tags -> Statuses \cup {NoStatus}] /\ broken \in BOOLEAN
    /\ unfreezes \in [Tags -> 0 .. MaxUnfreezes]
    /\ db \in Tables /\ tx \in Tables
    /\ quality_reviews \in [Tags -> 0 .. MaxReviews] /\ form \in Tags \cup {NoTag}
    /\ pc \in {"off", "maildir", "first_select", "second_select", "sessions", "statuses", "commit"}
    /\ records \in Seq(Mails) /\ revision_cycles \in [Tags -> Nat]
    /\ selected \in [Stage -> [Tags -> Nat]] /\ log_year \in Nat
    /\ failures \in 0 .. MaxFailures /\ refusals \in 0 .. MaxRefusals
    /\ breaks \in 0 .. MaxBreaks

\* The review cycles of an article are numbered in the order of their Dates,
\* however late a mail with an early Date came in, however often a mail was
\* delivered, and whatever passes failed half way.
CyclesInOrder ==
    \A r, s \in db.revisions :
        r.tag = s.tag /\ r.occurred_at < s.occurred_at => r.cycle_number < s.cycle_number

\* An article is as old as its oldest mail, in whatever order passes saw them.
CreatedFirst ==
    \A row \in db.messages :
        LET m == row[1]
        IN  Mail[m].tag # NoTag => db.created_at[Mail[m].tag] \in 1 .. Mail[m].sent_at

\* The metrics show no freeze without the warning that preceded it: the two
\* SELECTs are torn, but a thread that was warned before it was frozen, and
\* not given back since, is never reported with its second stage alone, unless
\* the second SELECT was refused.
WarningPrecedesFreeze ==
    \A t \in Tags :
        /\ db.fuses["fuse"][t] # 0
        /\ warned_threads[t] # 0 /\ unfreezes[t] = 0 /\ refusals = 0
        => db.fuses["fuse-warn"][t] # 0

\* No statement of a pass, and no review, ever names an article without a row:
\* the foreign keys of the schema never fail a pass, in whatever order mails,
\* trips of the fuse and statuses of one article first show up.
ForeignKeys ==
    /\ \A tables \in {db, tx}, t \in Tags :
        tables.created_at[t] = 0 =>
            /\ \A row \in tables.messages : Mail[row[1]].tag # t
            /\ \A at \in 1 .. Now : tables.interventions[<<t, at>>] = 0
            /\ \A s \in Stage : tables.fuses[s][t] = 0
            /\ \A r \in tables.revisions : r.tag # t
    /\ \A t \in Tags : quality_reviews[t] # 0 => db.created_at[t] # 0

\* A bounce is dated in the year its line was written if the line says so, and
\* otherwise never in a year still to come, whatever day the pass began on that
\* read it first.
BouncesDated ==
    \A row \in db.bounces :
        /\ row.year <= YearOf[today]
        /\ Line[row.line].stamp = "iso" => row.year = YearOf[mail_log[row.line]]

\* The tokens of a's records that name one of the days S, or none.
TokensOf(a, S) ==
    LET naming(f) == {i \in DOMAIN sessions[f].lines :
                         sessions[f].lines[i].stamp \in S \cup {NoStamp}}
    IN  Cardinality(UNION {{f} \X TokensIn(sessions[f].lines, naming(f)) : f \in FilesOf(a)})

\* However often a session log is read, while it grows and its mtime moves, no
\* day is ever charged a token twice, or one that names another day.
TokensCountedOnce ==
    \A a \in Agents, d \in Days : db.token_usage[<<a, d>>] <= TokensOf(a, {d})

\* What storing a mail again may not change: every table but the untagged
\* interventions and the numbers of the review cycles.
Kept(tables) ==
    [tables EXCEPT !.interventions = [k \in Tags \X (1 .. Now) |-> @[k]],
                   !.revisions = {<<r.tag, r.to_agent, r.occurred_at>> : r \in @}]

\* A record of the maildir that an earlier pass has committed is read again.
StoreAgain ==
    StoreMessage /\ \E row \in db.messages : row[1] = Head(records)

\* A pass may be run again at any time: whatever it read and committed before
\* adds no row and changes none.
RerunKeepsRows == [][StoreAgain => Kept(tx') = Kept(tx)]_vars

-----------------------------------------------------------------------------
(* Liveness, under FairSpec.  The sources of an instance change finitely    *)
(* often.  A status file that cannot be read and a mail.log with a line of *)
(* 29 February in a year without one undo every pass, so nothing is        *)
(* promised while either lasts; the second lasts until the log is rotated. *)

Readable == ~broken /\ ~Undatable(YearOf[today])

\* Every mail of the BCC maildir that names itself and its Date ends up in the
\* metrics, in spite of failed passes.
EveryMailCollected ==
    <>[](Readable => \A m \in Mails : maildir[m] > 0 /\ parse_message(m) =>
            \E r \in Agents \cup {NoRecipient} : <<m, r>> \in db.messages)

\* The first warning and the first freeze of a thread are counted, though a
\* SELECT may be refused, unless the director deletes them first.
FirstTripsCounted ==
    <>[](Readable => \A t \in Tags :
            /\ frozen_threads[t] = 1 => db.fuses["fuse"][t] = 1
            /\ warned_threads[t] = 1 => db.fuses["fuse-warn"][t] = 1)

\* Every bounce and every token the logs tell of reaches its table, also from
\* a line that was only half written when it was first read.
LogsCollected ==
    <>[](Readable =>
            /\ \A l \in Lines : mail_log[l] # 0 /\ parse_postfix_line(l, 1, 1) # {} =>
                    \E row \in db.bounces : row.line = l
            /\ \A a \in Agents :
                    TokensOf(a, Days) <= MapThenSumSet(LAMBDA d : db.token_usage[<<a, d>>], Days))

-----------------------------------------------------------------------------
(* What the documents of the repository say of it, and the runs refute.    *)

\* db.py: the (tag, occurred_at) key makes re-runs no-ops.
RerunIsNoOp == [][StoreAgain => tx'.interventions = tx.interventions]_vars

\* RUNBOOK.it.md: both trips of the fuse end up in the metrics: a freeze still
\* in force is counted in the end, whichever life of the thread it ended.
EveryFreezeCounted ==
    \A t \in Tags, life \in 1 .. MaxUnfreezes + 1 :
        frozen_threads[t] = life
            ~> db.fuses["fuse"][t] = life \/ frozen_threads[t] # life

\* schema.sql: each verificatore mail on a tag is one review cycle.
EachReviewOneCycle ==
    \A r \in db.revisions :
        r.cycle_number <= Cardinality({m \in Mails : IsReview(m) /\ Mail[m].tag = r.tag})
=============================================================================
