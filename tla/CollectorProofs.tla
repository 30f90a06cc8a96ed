---------------------------- MODULE CollectorProofs ----------------------------
(***************************************************************************)
(* What the nightly collector keeps true of the metrics database, for all  *)
(* mails, tags, agents and lines, any number of passes and failures.       *)
(***************************************************************************)
EXTENDS Report, FiniteSetTheorems, TLAPS

-----------------------------------------------------------------------------
(* The tables.                                                             *)

ColumnNames ==
    {"created_at", "title", "status", "messages", "interventions", "bounces", "fuses",
     "revisions", "token_usage"}

Slots == (Tags \cup {NoTag}) \X (1 .. Now)

Row == [tag : Tags, to_agent : Agents, occurred_at : 1 .. Now, cycle_number : Nat]

\* The tables, but for the token counts.
Columns(T) ==
    /\ T = [c \in ColumnNames |-> T[c]]
    /\ T.created_at \in [Tags -> 0 .. Now]
    /\ T.title \in [Tags -> Titles \cup {NoTitle}]
    /\ T.status \in [Tags -> Statuses \cup {NoStatus}]
    /\ T.messages \subseteq Mails \X (Agents \cup {NoRecipient})
    /\ T.interventions \in [Slots -> Nat]
    /\ T.fuses \in [Stage -> [Tags -> Nat]]
    /\ T.revisions \subseteq Row

\* Is r the row of the review mail m?
RowOf(m, r) ==
    r.tag = Mail[m].tag /\ r.to_agent = Head(Mail[m].recipients) /\ r.occurred_at = Mail[m].sent_at

\* The rows of messages that m makes.
Recipients(m) ==
    {m} \X (IF Mail[m].recipients = <<>> THEN {NoRecipient} ELSE Range(Mail[m].recipients))

\* All that a pass writes of mail m.
Recorded(T, m) ==
    LET t == Mail[m].tag
    IN  /\ Recipients(m) \subseteq T.messages
        /\ t # NoTag => T.created_at[t] \in 1 .. Mail[m].sent_at /\ T.title[t] # NoTitle
        /\ t # NoTag /\ Mail[m].sender = Director => T.interventions[<<t, Mail[m].sent_at>>] = 1
        /\ IsReview(m) => \E r \in T.revisions : RowOf(m, r)

\* A mail is recorded whole or not at all.
Whole(T) == \A row \in T.messages : Recorded(T, row[1])

\* Nothing names an article without a row.
Articles(T) ==
    \A t \in Tags : T.created_at[t] = 0 =>
        /\ \A row \in T.messages : Mail[row[1]].tag # t
        /\ \A at \in 1 .. Now : T.interventions[<<t, at>>] = 0
        /\ \A s \in Stage : T.fuses[s][t] = 0
        /\ \A r \in T.revisions : r.tag # t

\* Every intervention and every revision of an article goes back to a mail
\* with rows in messages, and no two revisions to the same one.
Backed(T) ==
    /\ \A t \in Tags, at \in 1 .. Now : T.interventions[<<t, at>>] # 0 =>
        /\ T.interventions[<<t, at>>] = 1
        /\ \E m \in Mails : /\ Recipients(m) \subseteq T.messages
                            /\ Mail[m].tag = t /\ Mail[m].sent_at = at /\ Mail[m].sender = Director
    /\ \A r \in T.revisions :
        \E m \in Mails : Recipients(m) \subseteq T.messages /\ IsReview(m) /\ RowOf(m, r)
    /\ \A m \in Mails : \A r, s \in T.revisions : RowOf(m, r) /\ RowOf(m, s) => r = s

BackedInv == Backed(db) /\ Backed(tx)

RowsInv ==
    /\ \A T \in {db, tx} : Columns(T) /\ Whole(T) /\ Articles(T)
    /\ db.messages \subseteq tx.messages
    /\ \A t \in Tags : db.created_at[t] # 0 => tx.created_at[t] # 0
    /\ \A t \in Tags : quality_reviews[t] # 0 => db.created_at[t] # 0

-----------------------------------------------------------------------------
(* The fuse.                                                               *)

\* A freeze the collector knows of is in force as long as nobody lifts it, and
\* was not warned of since.
Tripped(fuse_row, warn_row, t) ==
    fuse_row # 0 /\ unfreezes[t] = 0 =>
        /\ frozen_threads[t] # 0
        /\ warned_threads[t] # 0 /\ refusals = 0 => warn_row # 0

FusesInv ==
    /\ \A T \in {db, tx}, t \in Tags : Tripped(T.fuses["fuse"][t], T.fuses["fuse-warn"][t], t)
    /\ \A t \in Tags : selected["fuse"][t] # 0 /\ unfreezes[t] = 0 => frozen_threads[t] # 0

-----------------------------------------------------------------------------
(* The log.                                                                *)

Bounce == [line : Lines, type : BounceKind, year : Nat]

Dated(T) ==
    \A row \in T.bounces :
        /\ row \in Bounce /\ row.line \in Lines /\ mail_log[row.line] # 0
        /\ row.year \in Nat /\ row.year <= YearOf[today]
        /\ Line[row.line].stamp = "iso" => row.year = YearOf[mail_log[row.line]]

LogInv ==
    /\ Dated(db) /\ Dated(tx)
    /\ \A l \in Lines : mail_log[l] <= today
    /\ pc # "off" => log_year <= YearOf[today]

-----------------------------------------------------------------------------
(* The review cycles.                                                      *)

\* Every row goes back to a mail that is still in the maildir.
Sourced(T) ==
    \A r \in T.revisions : \E m \in Mails :
        maildir[m] > 0 /\ parse_message(m) /\ IsReview(m) /\ RowOf(m, r)

\* A row this pass has still to write.
Pending(r) == \E i \in 1 .. Len(records) : IsReview(records[i]) /\ RowOf(records[i], r)

Ordered(rows) ==
    \A r, s \in rows :
        r.tag = s.tag /\ r.occurred_at < s.occurred_at => r.cycle_number < s.cycle_number

Written == {r \in tx.revisions : ~Pending(r)}

CyclesInv ==
    /\ Sourced(db) /\ Sourced(tx) /\ Ordered(db.revisions)
    /\ pc # "maildir" => Ordered(tx.revisions)
    /\ pc = "maildir" =>
        /\ Ordered(Written)
        /\ \A r \in Written :
            /\ r.cycle_number <= revision_cycles[r.tag]
            /\ records # <<>> => r.occurred_at <= Mail[Head(records)].sent_at
        /\ \A i \in 1 .. Len(records) - 1 : BySentAt(records[i], records[i + 1])
        /\ \A i \in 1 .. Len(records) : parse_message(records[i]) /\ maildir[records[i]] > 0

-----------------------------------------------------------------------------
(* The rest of the state.                                                  *)

ProcessTypes ==
    /\ pc \in {"off", "maildir", "first_select", "second_select", "sessions", "statuses", "commit"}
    /\ records \in Seq(Mails) /\ revision_cycles \in [Tags -> Nat]
    /\ selected \in [Stage -> [Tags -> Nat]] /\ log_year \in Nat
    /\ refusals \in 0 .. MaxRefusals /\ form \in Tags \cup {NoTag}
    /\ quality_reviews \in [Tags -> 0 .. MaxReviews]
    /\ form # NoTag => quality_reviews[form] < MaxReviews
    /\ pc = "off" => revision_cycles = NoCycles
    /\ pc # "maildir" => records = <<>>

SourceTypes ==
    /\ maildir \in [Mails -> Nat] /\ today \in Days
    /\ mail_log \in [Lines -> Days \cup {0}]
    /\ frozen_threads \in [Tags -> Nat] /\ warned_threads \in [Tags -> Nat]
    /\ articles_json \in [Tags -> Statuses \cup {NoStatus}]
    /\ unfreezes \in [Tags -> 0 .. MaxUnfreezes]

Types == ProcessTypes /\ SourceTypes

-----------------------------------------------------------------------------
(* What the statements of MetricsDb do to the tables.                      *)

\* No column of U loses what T has.
Extends(T, U) ==
    /\ T.messages \subseteq U.messages
    /\ \A t \in Tags : T.created_at[t] # 0 => U.created_at[t] \in 1 .. T.created_at[t]
    /\ \A t \in Tags : T.title[t] # NoTitle => U.title[t] # NoTitle
    /\ \A k \in Tags \X (1 .. Now) : T.interventions[k] = 1 => U.interventions[k] = 1
    /\ \A r \in T.revisions : \E s \in U.revisions :
            s.tag = r.tag /\ s.to_agent = r.to_agent /\ s.occurred_at = r.occurred_at

LEMMA UpsertArticle ==
    ASSUME NEW T, Columns(T), NEW t \in Tags, NEW title \in Titles \cup {NoTitle},
           NEW at \in 1 .. Now, NEW U, U = upsert_article(T, t, title, at)
    PROVE  /\ Columns(U)
           /\ U.created_at[t] \in 1 .. at
           /\ T.created_at[t] # 0 => U.created_at[t] \in 1 .. T.created_at[t]
           /\ T.created_at[t] \in 1 .. at => U.created_at[t] = T.created_at[t]
           /\ title # NoTitle => U.title[t] # NoTitle
           /\ T.title[t] # NoTitle => U.title[t] = T.title[t]
           /\ \A s \in Tags : s # t => U.created_at[s] = T.created_at[s] /\ U.title[s] = T.title[s]
           /\ \A c \in ColumnNames \ {"created_at", "title"} : U[c] = T[c]
<1>1. /\ DOMAIN T = ColumnNames
      /\ T.created_at \in [Tags -> 0 .. Now] /\ T.title \in [Tags -> Titles \cup {NoTitle}]
  BY DEF Columns
<1>2. /\ U = [c \in ColumnNames |-> U[c]]
      /\ \A c \in ColumnNames \ {"created_at", "title"} : U[c] = T[c]
      /\ U.created_at = [T.created_at EXCEPT ![t] = IF @ = 0 \/ at < @ THEN at ELSE @]
      /\ U.title = [T.title EXCEPT ![t] = IF @ = NoTitle THEN title ELSE @]
  BY <1>1 DEF Columns, upsert_article, ColumnNames
<1>3. Now \in Nat
  BY RecordAssumption
<1>4. /\ U.created_at \in [Tags -> 0 .. Now] /\ U.created_at[t] \in 1 .. at
      /\ T.created_at[t] # 0 => U.created_at[t] \in 1 .. T.created_at[t]
      /\ T.created_at[t] \in 1 .. at => U.created_at[t] = T.created_at[t]
      /\ \A s \in Tags : s # t => U.created_at[s] = T.created_at[s]
  <2>1. /\ T.created_at[t] \in 0 .. Now
        /\ U.created_at[t] = IF T.created_at[t] = 0 \/ at < T.created_at[t] THEN at
                             ELSE T.created_at[t]
    BY <1>1, <1>2
  <2>2. /\ U.created_at[t] \in 1 .. at
        /\ T.created_at[t] # 0 => U.created_at[t] \in 1 .. T.created_at[t]
        /\ T.created_at[t] \in 1 .. at => U.created_at[t] = T.created_at[t]
    BY <1>3, <2>1
  <2>3. (IF T.created_at[t] = 0 \/ at < T.created_at[t] THEN at ELSE T.created_at[t]) \in 0 .. Now
    BY <1>3, <2>1
  <2>. QED  BY <1>1, <1>2, <2>2, <2>3
<1>5. /\ U.title \in [Tags -> Titles \cup {NoTitle}]
      /\ title # NoTitle => U.title[t] # NoTitle
      /\ T.title[t] # NoTitle => U.title[t] = T.title[t]
      /\ \A s \in Tags : s # t => U.title[s] = T.title[s]
  BY <1>1, <1>2
<1>6. Columns(U)
  BY <1>2, <1>4, <1>5 DEF Columns, ColumnNames
<1>. QED  BY <1>2, <1>4, <1>5, <1>6

LEMMA MailTypes ==
    ASSUME NEW m \in Mails
    PROVE  /\ Mail[m].tag \in Tags \cup {NoTag} /\ Mail[m].title \in Titles
           /\ Mail[m].sender \in Agents /\ Mail[m].sent_at \in 1 .. Now
           /\ Mail[m].recipients \in Seq(Agents)
           /\ IsReview(m) => Mail[m].tag \in Tags /\ Head(Mail[m].recipients) \in Agents
           /\ Recipients(m) \subseteq Mails \X (Agents \cup {NoRecipient})
<1>1. /\ Mail[m].tag \in Tags \cup {NoTag} /\ Mail[m].title \in Titles
      /\ Mail[m].sender \in Agents /\ Mail[m].recipients \in Seq(Agents)
      /\ Mail[m].sent_at \in 1 .. Now - 1 /\ Now \in Nat
  BY RecordAssumption
<1>2. Mail[m].sent_at \in 1 .. Now
  BY <1>1
<1>3. Range(Mail[m].recipients) \subseteq Agents
  BY <1>1 DEF Range
<1>4. IsReview(m) => Mail[m].tag \in Tags /\ Head(Mail[m].recipients) \in Agents
  BY <1>1 DEF IsReview
<1>. QED  BY <1>1, <1>2, <1>3, <1>4 DEF Recipients

LEMMA InsertMessage ==
    ASSUME NEW T, Columns(T), NEW m \in Mails, NEW U, U = insert_message(T, m)
    PROVE  /\ Columns(U) /\ U.messages = T.messages \cup Recipients(m)
           /\ \A c \in ColumnNames \ {"messages"} : U[c] = T[c]
<1>1. /\ U = [c \in ColumnNames |-> U[c]] /\ U.messages = T.messages \cup Recipients(m)
      /\ \A c \in ColumnNames \ {"messages"} : U[c] = T[c]
  BY DEF Columns, insert_message, ColumnNames, Recipients
<1>. QED  BY <1>1, MailTypes DEF Columns, ColumnNames

LEMMA InsertIntervention ==
    ASSUME NEW T, Columns(T), NEW t \in Tags \cup {NoTag}, NEW at \in 1 .. Now,
           NEW U, U = insert_intervention(T, t, at)
    PROVE  /\ Columns(U)
           /\ t # NoTag => U.interventions[<<t, at>>] = 1
           /\ \A k \in Slots : k # <<t, at>> => U.interventions[k] = T.interventions[k]
           /\ \A c \in ColumnNames \ {"interventions"} : U[c] = T[c]
<1>1. /\ U = [c \in ColumnNames |-> U[c]]
      /\ U.interventions = [T.interventions EXCEPT ![<<t, at>>] =
            IF t # NoTag THEN 1 ELSE IF @ < MaxRows THEN @ + 1 ELSE @]
      /\ \A c \in ColumnNames \ {"interventions"} : U[c] = T[c]
      /\ T.interventions \in [Slots -> Nat] /\ <<t, at>> \in Slots
  BY DEF Columns, insert_intervention, ColumnNames, Slots
<1>2. PICK n \in Nat : n = IF t # NoTag THEN 1 ELSE IF T.interventions[<<t, at>>] < MaxRows
                           THEN T.interventions[<<t, at>>] + 1 ELSE T.interventions[<<t, at>>]
  BY <1>1
<1>3. U.interventions = [T.interventions EXCEPT ![<<t, at>>] = n] /\ (t # NoTag => n = 1)
  BY <1>1, <1>2
<1>4. /\ U.interventions \in [Slots -> Nat] /\ U.interventions[<<t, at>>] = n
      /\ \A k \in Slots : k # <<t, at>> => U.interventions[k] = T.interventions[k]
  BY <1>1, <1>3
<1>. QED  BY <1>1, <1>3, <1>4 DEF Columns, ColumnNames

LEMMA InsertRevision ==
    ASSUME NEW T, Columns(T), NEW m \in Mails, IsReview(m), NEW cycle \in Nat, NEW U,
           U = insert_revision(T, Mail[m].tag, cycle, Head(Mail[m].recipients), Mail[m].sent_at)
    PROVE  /\ Columns(U)
           /\ \E r \in Row : RowOf(m, r) /\ r.cycle_number = cycle
                             /\ U.revisions = {q \in T.revisions : ~RowOf(m, q)} \cup {r}
           /\ \A c \in ColumnNames \ {"revisions"} : U[c] = T[c]
<1>. DEFINE r == [tag |-> Mail[m].tag, to_agent |-> Head(Mail[m].recipients),
                  occurred_at |-> Mail[m].sent_at, cycle_number |-> cycle]
<1>1. r \in Row /\ RowOf(m, r) /\ r.cycle_number = cycle
  BY MailTypes DEF Row, RowOf
<1>2. /\ U = [c \in ColumnNames |-> U[c]]
      /\ \A c \in ColumnNames \ {"revisions"} : U[c] = T[c]
      /\ U.revisions = {q \in T.revisions : ~RowOf(m, q)} \cup {r}
  BY DEF Columns, insert_revision, ColumnNames, RowOf
<1>. HIDE DEF r
<1>3. U.revisions \subseteq Row
  BY <1>1, <1>2 DEF Columns
<1>. QED  BY <1>1, <1>2, <1>3 DEF Columns, ColumnNames

\* What _store_message writes before it comes to the review cycles.
Stored(T, m) == WithIntervention(insert_message(WithArticle(T, m), m), m)

LEMMA StoredMail ==
    ASSUME NEW T, Columns(T), NEW m \in Mails, NEW U, U = Stored(T, m), NEW t, t = Mail[m].tag
    PROVE  /\ Columns(U) /\ U.messages = T.messages \cup Recipients(m)
           /\ t # NoTag => U.created_at[t] \in 1 .. Mail[m].sent_at /\ U.title[t] # NoTitle
           /\ \A s \in Tags : /\ T.created_at[s] # 0 => U.created_at[s] \in 1 .. T.created_at[s]
                              /\ T.title[s] # NoTitle => U.title[s] = T.title[s]
                              /\ s # t => U.created_at[s] = T.created_at[s] /\ U.title[s] = T.title[s]
           /\ t # NoTag /\ T.created_at[t] \in 1 .. Mail[m].sent_at => U.created_at[t] = T.created_at[t]
           /\ t # NoTag /\ Mail[m].sender = Director => U.interventions[<<t, Mail[m].sent_at>>] = 1
           /\ \A k \in Slots : k # <<t, Mail[m].sent_at>> => U.interventions[k] = T.interventions[k]
           /\ Mail[m].sender # Director => U.interventions = T.interventions
           /\ \A c \in {"status", "bounces", "fuses", "revisions", "token_usage"} : U[c] = T[c]
<1>1. /\ t \in Tags \cup {NoTag} /\ Mail[m].title \in Titles /\ Mail[m].sent_at \in 1 .. Now
      /\ NoTitle \notin Titles /\ NoTag \notin Tags
  BY MailTypes, RecordAssumption, NameAssumption
<1>2. PICK A : A = WithArticle(T, m)
  OBVIOUS
<1>3. /\ Columns(A)
      /\ t # NoTag => A.created_at[t] \in 1 .. Mail[m].sent_at /\ A.title[t] # NoTitle
      /\ \A s \in Tags : /\ T.created_at[s] # 0 => A.created_at[s] \in 1 .. T.created_at[s]
                         /\ T.title[s] # NoTitle => A.title[s] = T.title[s]
                         /\ s # t => A.created_at[s] = T.created_at[s] /\ A.title[s] = T.title[s]
      /\ t # NoTag /\ T.created_at[t] \in 1 .. Mail[m].sent_at => A.created_at[t] = T.created_at[t]
      /\ \A c \in ColumnNames \ {"created_at", "title"} : A[c] = T[c]
  <2>1. CASE t = NoTag
    <3>1. A = T
      BY <1>2, <2>1 DEF WithArticle
    <3>2. \A s \in Tags : T.created_at[s] # 0 => T.created_at[s] \in 1 .. T.created_at[s]
      BY RecordAssumption DEF Columns
    <3>. QED  BY <2>1, <3>1, <3>2
  <2>2. CASE t # NoTag
    <3>1. A = upsert_article(T, t, Mail[m].title, Mail[m].sent_at)
      BY <1>2, <2>2 DEF WithArticle
    <3>2. \A s \in Tags : T.created_at[s] # 0 => T.created_at[s] \in 1 .. T.created_at[s]
      BY RecordAssumption DEF Columns
    <3>. QED  BY <1>1, <2>2, <3>1, <3>2, UpsertArticle
  <2>. QED  BY <2>1, <2>2
<1>4. PICK B : B = insert_message(A, m)
  OBVIOUS
<1>5. /\ Columns(B) /\ B.messages = A.messages \cup Recipients(m)
      /\ \A c \in ColumnNames \ {"messages"} : B[c] = A[c]
  BY <1>3, <1>4, InsertMessage
<1>6. /\ Columns(U)
      /\ t # NoTag /\ Mail[m].sender = Director => U.interventions[<<t, Mail[m].sent_at>>] = 1
      /\ \A k \in Slots : k # <<t, Mail[m].sent_at>> => U.interventions[k] = B.interventions[k]
      /\ Mail[m].sender # Director => U.interventions = B.interventions
      /\ \A c \in ColumnNames \ {"interventions"} : U[c] = B[c]
  <2>1. CASE Mail[m].sender # Director
    <3>1. U = B
      BY <1>2, <1>4, <2>1 DEF Stored, WithIntervention
    <3>. QED  BY <1>5, <2>1, <3>1
  <2>2. CASE Mail[m].sender = Director
    <3>1. U = insert_intervention(B, t, Mail[m].sent_at)
      BY <1>2, <1>4, <2>2 DEF Stored, WithIntervention
    <3>. QED  BY <1>1, <1>5, <2>2, <3>1, InsertIntervention
  <2>. QED  BY <2>1, <2>2
<1>. QED  BY <1>3, <1>5, <1>6 DEF ColumnNames

LEMMA ExtendsRecorded ==
    ASSUME NEW T, NEW U, Columns(T), Extends(T, U), NEW m \in Mails, Recorded(T, m)
    PROVE  Recorded(U, m)
<1>. DEFINE t == Mail[m].tag
<1>1. t \in Tags \cup {NoTag} /\ Mail[m].sent_at \in 1 .. Now
  BY MailTypes
<1>2. Recipients(m) \subseteq U.messages
  BY DEF Recorded, Extends
<1>3. t # NoTag => U.created_at[t] \in 1 .. Mail[m].sent_at /\ U.title[t] # NoTitle
  <2>1. ASSUME t # NoTag
        PROVE  /\ T.created_at[t] \in 1 .. Mail[m].sent_at /\ T.title[t] # NoTitle /\ t \in Tags
               /\ U.created_at[t] \in 1 .. T.created_at[t]
    BY <1>1, <2>1 DEF Recorded, Extends
  <2>2. ASSUME t # NoTag PROVE U.created_at[t] \in 1 .. Mail[m].sent_at
    BY <1>1, <2>1, <2>2
  <2>. QED  BY <2>1, <2>2 DEF Extends
<1>4. t # NoTag /\ Mail[m].sender = Director => U.interventions[<<t, Mail[m].sent_at>>] = 1
  BY <1>1 DEF Recorded, Extends
<1>5. IsReview(m) => \E r \in U.revisions : RowOf(m, r)
  BY DEF Recorded, Extends, RowOf
<1>. QED  BY <1>2, <1>3, <1>4, <1>5 DEF Recorded

\* The tables after StoreMessage.
Added(T, m, cycle) ==
    IF IsReview(m)
    THEN insert_revision(Stored(T, m), Mail[m].tag, cycle, Head(Mail[m].recipients), Mail[m].sent_at)
    ELSE Stored(T, m)

LEMMA AddedMail ==
    ASSUME NEW T, Columns(T), NEW m \in Mails, NEW cycle \in Nat, NEW U, U = Added(T, m, cycle)
    PROVE  /\ Columns(U) /\ Extends(T, U) /\ Recorded(U, m)
           /\ U.messages = T.messages \cup Recipients(m)
           /\ U.bounces = T.bounces /\ U.fuses = T.fuses /\ U.token_usage = T.token_usage
           /\ \A k \in Slots : k # <<Mail[m].tag, Mail[m].sent_at>> =>
                    U.interventions[k] = T.interventions[k]
           /\ Mail[m].sender # Director => U.interventions = T.interventions
           /\ ~IsReview(m) => U.revisions = T.revisions
           /\ IsReview(m) => \E r \in Row : RowOf(m, r) /\ r.cycle_number = cycle
                             /\ U.revisions = {q \in T.revisions : ~RowOf(m, q)} \cup {r}
<1>1. PICK S : S = Stored(T, m)
  OBVIOUS
<1>2. PICK t : t = Mail[m].tag
  OBVIOUS
<1>3. /\ t \in Tags \cup {NoTag} /\ NoTag \notin Tags
      /\ Mail[m].sent_at \in 1 .. Now
  BY <1>2, MailTypes, NameAssumption
<1>4. /\ Columns(S) /\ S.messages = T.messages \cup Recipients(m)
      /\ t # NoTag => S.created_at[t] \in 1 .. Mail[m].sent_at /\ S.title[t] # NoTitle
      /\ \A s \in Tags : /\ T.created_at[s] # 0 => S.created_at[s] \in 1 .. T.created_at[s]
                         /\ T.title[s] # NoTitle => S.title[s] = T.title[s]
      /\ t # NoTag /\ Mail[m].sender = Director => S.interventions[<<t, Mail[m].sent_at>>] = 1
      /\ \A k \in Slots : k # <<t, Mail[m].sent_at>> => S.interventions[k] = T.interventions[k]
      /\ Mail[m].sender # Director => S.interventions = T.interventions
      /\ \A c \in {"status", "bounces", "fuses", "revisions", "token_usage"} : S[c] = T[c]
  BY <1>1, <1>2, StoredMail
<1>5. /\ Columns(U) /\ \A c \in ColumnNames \ {"revisions"} : U[c] = S[c]
      /\ ~IsReview(m) => U.revisions = S.revisions
      /\ IsReview(m) => \E r \in Row : RowOf(m, r) /\ r.cycle_number = cycle
                             /\ U.revisions = {q \in S.revisions : ~RowOf(m, q)} \cup {r}
  <2>1. CASE IsReview(m)
    BY <1>1, <1>4, <2>1, InsertRevision DEF Added
  <2>2. CASE ~IsReview(m)
    <3>1. U = S
      BY <1>1, <2>2 DEF Added
    <3>. QED  BY <1>4, <2>2, <3>1
  <2>. QED  BY <2>1, <2>2
<1>6. /\ U.messages = S.messages /\ U.bounces = T.bounces /\ U.fuses = T.fuses
      /\ U.token_usage = T.token_usage
      /\ U.created_at = S.created_at /\ U.title = S.title
      /\ U.interventions = S.interventions /\ S.revisions = T.revisions
  BY <1>4, <1>5 DEF ColumnNames
<1>7. Extends(T, U)
  <2>1. \A r \in T.revisions : \E s \in U.revisions :
            s.tag = r.tag /\ s.to_agent = r.to_agent /\ s.occurred_at = r.occurred_at
    BY <1>5, <1>6 DEF RowOf
  <2>2. \A k \in Tags \X (1 .. Now) : T.interventions[k] = 1 => U.interventions[k] = 1
    <3>1. SUFFICES ASSUME NEW k \in Tags \X (1 .. Now), T.interventions[k] = 1
                   PROVE  U.interventions[k] = 1
      OBVIOUS
    <3>2. k \in Slots
      BY DEF Slots
    <3>3. CASE k # <<t, Mail[m].sent_at>> \/ Mail[m].sender # Director
      BY <1>4, <1>6, <3>1, <3>2, <3>3
    <3>4. CASE k = <<t, Mail[m].sent_at>> /\ Mail[m].sender = Director
      <4>1. <<t, Mail[m].sent_at>> \in Tags \X (1 .. Now)
        BY <3>1, <3>4
      <4>2. t # NoTag
        BY <1>3, <4>1
      <4>. QED  BY <1>4, <1>6, <3>4, <4>2
    <3>. QED  BY <3>3, <3>4
  <2>. QED  BY <1>4, <1>6, <2>1, <2>2 DEF Extends
<1>8. Recorded(U, m)
  BY <1>2, <1>4, <1>5, <1>6 DEF Recorded
<1>. QED  BY <1>2, <1>4, <1>5, <1>6, <1>7, <1>8

LEMMA ExtendsWhole ==
    ASSUME NEW T, NEW U, Columns(T), Whole(T), Extends(T, U), U.messages = T.messages
    PROVE  Whole(U)
<1>1. \A row \in T.messages : row[1] \in Mails /\ Recorded(T, row[1])
  BY DEF Columns, Whole
<1>. QED  BY <1>1, ExtendsRecorded DEF Whole

LEMMA AddedKeeps ==
    ASSUME NEW T, Columns(T), Whole(T), Articles(T), NEW m \in Mails, NEW cycle \in Nat,
           NEW U, U = Added(T, m, cycle)
    PROVE  Whole(U) /\ Articles(U)
<1>1. /\ Columns(U) /\ Extends(T, U) /\ Recorded(U, m)
      /\ U.messages = T.messages \cup Recipients(m) /\ U.fuses = T.fuses
      /\ \A k \in Slots : k # <<Mail[m].tag, Mail[m].sent_at>> =>
               U.interventions[k] = T.interventions[k]
      /\ \A r \in U.revisions : r \in T.revisions \/ RowOf(m, r)
  BY AddedMail
<1>2. \A row \in Recipients(m) : row[1] = m
  BY DEF Recipients
<1>3. Whole(U)
  <2>1. \A row \in T.messages : row[1] \in Mails /\ Recorded(T, row[1])
    BY DEF Columns, Whole
  <2>2. \A row \in T.messages : Recorded(U, row[1])
    BY <1>1, <2>1, ExtendsRecorded
  <2>. QED  BY <1>1, <1>2, <2>2 DEF Whole
<1>4. ASSUME NEW t \in Tags, U.created_at[t] = 0
      PROVE  /\ \A row \in U.messages : Mail[row[1]].tag # t
             /\ \A at \in 1 .. Now : U.interventions[<<t, at>>] = 0
             /\ \A s \in Stage : U.fuses[s][t] = 0
             /\ \A r \in U.revisions : r.tag # t
  <2>1. T.created_at[t] = 0
    <3>1. T.created_at[t] # 0 => U.created_at[t] \in 1 .. T.created_at[t]
      BY <1>1 DEF Extends
    <3>2. U.created_at[t] \notin 1 .. T.created_at[t]
      BY <1>4
    <3>. QED  BY <3>1, <3>2
  <2>2. Mail[m].tag # t
    <3>1. Mail[m].tag = t /\ t # NoTag => U.created_at[t] \in 1 .. Mail[m].sent_at
      BY <1>1 DEF Recorded
    <3>2. U.created_at[t] \notin 1 .. Mail[m].sent_at
      BY <1>4
    <3>. QED  BY <3>1, <3>2, NameAssumption
  <2>3. /\ \A row \in T.messages : Mail[row[1]].tag # t
        /\ \A at \in 1 .. Now : T.interventions[<<t, at>>] = 0
        /\ \A s \in Stage : T.fuses[s][t] = 0
        /\ \A r \in T.revisions : r.tag # t
    BY <2>1 DEF Articles
  <2>4. \A at \in 1 .. Now : <<t, at>> \in Slots /\ <<t, at>> # <<Mail[m].tag, Mail[m].sent_at>>
    BY <2>2 DEF Slots
  <2>. QED  BY <1>1, <1>2, <2>2, <2>3, <2>4 DEF RowOf
<1>. QED  BY <1>3, <1>4 DEF Articles

\* A mail that is recorded already changes nothing that is kept.
LEMMA AddedAgain ==
    ASSUME NEW T, Columns(T), NEW m \in Mails, NEW cycle \in Nat, Recorded(T, m),
           NEW U, U = Added(T, m, cycle)
    PROVE  Kept(U) = Kept(T)
<1>1. PICK S : S = Stored(T, m)
  OBVIOUS
<1>2. PICK t : t = Mail[m].tag
  OBVIOUS
<1>3. t \in Tags \cup {NoTag} /\ NoTag \notin Tags /\ Mail[m].sent_at \in 1 .. Now
  BY <1>2, MailTypes, NameAssumption
<1>4. /\ Columns(S) /\ S.messages = T.messages \cup Recipients(m)
      /\ \A s \in Tags : /\ T.title[s] # NoTitle => S.title[s] = T.title[s]
                         /\ s # t => S.created_at[s] = T.created_at[s] /\ S.title[s] = T.title[s]
      /\ t # NoTag /\ T.created_at[t] \in 1 .. Mail[m].sent_at => S.created_at[t] = T.created_at[t]
      /\ t # NoTag /\ Mail[m].sender = Director => S.interventions[<<t, Mail[m].sent_at>>] = 1
      /\ \A k \in Slots : k # <<t, Mail[m].sent_at>> => S.interventions[k] = T.interventions[k]
      /\ Mail[m].sender # Director => S.interventions = T.interventions
      /\ \A c \in {"status", "bounces", "fuses", "revisions", "token_usage"} : S[c] = T[c]
  BY <1>1, <1>2, StoredMail
<1>5. /\ Recipients(m) \subseteq T.messages
      /\ t # NoTag => T.created_at[t] \in 1 .. Mail[m].sent_at /\ T.title[t] # NoTitle
      /\ t # NoTag /\ Mail[m].sender = Director => T.interventions[<<t, Mail[m].sent_at>>] = 1
      /\ IsReview(m) => \E r \in T.revisions : RowOf(m, r)
  BY <1>2 DEF Recorded
<1>6. S.created_at = T.created_at
  <2>1. \A s \in Tags : S.created_at[s] = T.created_at[s]
    BY <1>3, <1>4, <1>5
  <2>2. S.created_at \in [Tags -> 0 .. Now] /\ T.created_at \in [Tags -> 0 .. Now]
    BY <1>4 DEF Columns
  <2>. QED  BY <2>1, <2>2
<1>7. S.title = T.title
  <2>1. \A s \in Tags : S.title[s] = T.title[s]
    BY <1>3, <1>4, <1>5
  <2>2. S.title \in [Tags -> Titles \cup {NoTitle}] /\ T.title \in [Tags -> Titles \cup {NoTitle}]
    BY <1>4 DEF Columns
  <2>. QED  BY <2>1, <2>2
<1>8. ASSUME NEW k \in Tags \X (1 .. Now) PROVE S.interventions[k] = T.interventions[k]
  <2>1. k \in Slots
    BY DEF Slots
  <2>2. CASE k # <<t, Mail[m].sent_at>> \/ Mail[m].sender # Director
    BY <1>4, <2>1, <2>2
  <2>3. CASE k = <<t, Mail[m].sent_at>> /\ Mail[m].sender = Director
    <3>1. <<t, Mail[m].sent_at>> \in Tags \X (1 .. Now)
      BY <2>3
    <3>2. t # NoTag
      BY <1>3, <3>1
    <3>. QED  BY <1>4, <1>5, <2>3, <3>2
  <2>. QED  BY <2>2, <2>3
<1>9. /\ Columns(U) /\ \A c \in ColumnNames \ {"revisions"} : U[c] = S[c]
      /\ {<<r.tag, r.to_agent, r.occurred_at>> : r \in U.revisions} =
         {<<r.tag, r.to_agent, r.occurred_at>> : r \in T.revisions}
  <2>1. CASE ~IsReview(m)
    <3>1. U = S
      BY <1>1, <2>1 DEF Added
    <3>. QED  BY <1>4, <3>1
  <2>2. CASE IsReview(m)
    <3>1. U = insert_revision(S, Mail[m].tag, cycle, Head(Mail[m].recipients), Mail[m].sent_at)
      BY <1>1, <2>2 DEF Added
    <3>2. /\ Columns(U) /\ \A c \in ColumnNames \ {"revisions"} : U[c] = S[c]
          /\ \E r \in Row : RowOf(m, r) /\ r.cycle_number = cycle
                            /\ U.revisions = {q \in S.revisions : ~RowOf(m, q)} \cup {r}
      BY <1>4, <2>2, <3>1, InsertRevision
    <3>3. PICK r \in Row, old \in T.revisions :
              RowOf(m, r) /\ RowOf(m, old) /\ U.revisions = {q \in T.revisions : ~RowOf(m, q)} \cup {r}
      BY <1>4, <1>5, <2>2, <3>2
    <3>4. \A q \in T.revisions : RowOf(m, q) =>
              <<q.tag, q.to_agent, q.occurred_at>> = <<r.tag, r.to_agent, r.occurred_at>>
      BY <3>3 DEF RowOf
    <3>. QED  BY <3>2, <3>3, <3>4
  <2>. QED  BY <2>1, <2>2
<1>10. PICK interventions, revisions :
         /\ interventions = [k \in Tags \X (1 .. Now) |-> T.interventions[k]]
         /\ revisions = {<<r.tag, r.to_agent, r.occurred_at>> : r \in T.revisions}
  OBVIOUS
<1>11. /\ interventions = [k \in Tags \X (1 .. Now) |-> U.interventions[k]]
       /\ revisions = {<<r.tag, r.to_agent, r.occurred_at>> : r \in U.revisions}
  <2>1. U.interventions = S.interventions
    BY <1>9 DEF ColumnNames
  <2>. QED  BY <1>8, <1>9, <1>10, <2>1
<1>12. /\ Kept(T) = [T EXCEPT !.interventions = interventions, !.revisions = revisions]
       /\ Kept(U) = [U EXCEPT !.interventions = interventions, !.revisions = revisions]
  BY <1>10, <1>11, Zenon DEF Kept
<1>13. \A c \in ColumnNames \ {"interventions", "revisions"} : U[c] = T[c]
  <2>1. S.messages = T.messages
    BY <1>4, <1>5
  <2>. QED  BY <1>4, <1>6, <1>7, <1>9, <2>1 DEF ColumnNames
<1>14. T = [c \in ColumnNames |-> T[c]] /\ U = [c \in ColumnNames |-> U[c]]
  BY <1>9 DEF Columns
<1>15. /\ Kept(T) = [c \in ColumnNames |-> Kept(T)[c]] /\ Kept(U) = [c \in ColumnNames |-> Kept(U)[c]]
       /\ \A c \in ColumnNames : Kept(U)[c] = Kept(T)[c]
  BY <1>12, <1>13, <1>14 DEF ColumnNames
<1>. QED  BY <1>15, Zenon

\* The row of a fuse or a status needs its article, which a pass makes first.
LEMMA Article ==
    ASSUME NEW T, Columns(T), NEW t \in Tags, NEW U, U = upsert_article(T, t, NoTitle, Now)
    PROVE  /\ Columns(U) /\ U.created_at[t] \in 1 .. Now
           /\ T.created_at[t] # 0 => U.created_at[t] \in 1 .. T.created_at[t]
           /\ T.title[t] # NoTitle => U.title[t] = T.title[t]
           /\ \A c \in ColumnNames \ {"created_at", "title"} : U[c] = T[c]
<1>1. Now \in 1 .. Now
  BY RecordAssumption
<1>. QED  BY <1>1, UpsertArticle

LEMMA OneFuse ==
    ASSUME NEW T, Columns(T), NEW t \in Tags, NEW stage \in Stage, NEW life \in Nat,
           NEW U, U = WithFuse(T, stage, t, life)
    PROVE  /\ Columns(U)
           /\ T.created_at[t] # 0 => U.created_at[t] \in 1 .. T.created_at[t]
           /\ T.title[t] # NoTitle => U.title[t] = T.title[t]
           /\ U.fuses[stage][t] = IF T.fuses[stage][t] = 0 THEN life ELSE T.fuses[stage][t]
           /\ \A s \in Stage : s # stage => U.fuses[s][t] = T.fuses[s][t]
           /\ life # 0 => U.created_at[t] # 0
<1>1. CASE life = 0
  <2>1. U = T
    BY <1>1 DEF WithFuse
  <2>2. T.created_at[t] # 0 => T.created_at[t] \in 1 .. T.created_at[t]
    BY RecordAssumption DEF Columns
  <2>. QED  BY <1>1, <2>1, <2>2
<1>2. CASE life # 0
  <2>1. PICK A : A = upsert_article(T, t, NoTitle, Now)
    OBVIOUS
  <2>2. /\ Columns(A) /\ A.created_at[t] \in 1 .. Now
        /\ T.created_at[t] # 0 => A.created_at[t] \in 1 .. T.created_at[t]
        /\ T.title[t] # NoTitle => A.title[t] = T.title[t]
        /\ A.fuses = T.fuses
    BY <2>1, Article DEF ColumnNames
  <2>3. U = [A EXCEPT !.fuses[stage][t] = IF @ = 0 THEN life ELSE @]
    BY <1>2, <2>1 DEF WithFuse, insert_event
  <2>4. /\ U = [c \in ColumnNames |-> U[c]] /\ \A c \in ColumnNames \ {"fuses"} : U[c] = A[c]
        /\ U.fuses = [A.fuses EXCEPT ![stage][t] = IF @ = 0 THEN life ELSE @]
    BY <2>2, <2>3 DEF Columns, ColumnNames
  <2>5. A.fuses \in [Stage -> [Tags -> Nat]]
    BY <2>2 DEF Columns
  <2>6. /\ U.fuses \in [Stage -> [Tags -> Nat]]
        /\ U.fuses[stage][t] = IF A.fuses[stage][t] = 0 THEN life ELSE A.fuses[stage][t]
        /\ \A s \in Stage : s # stage => U.fuses[s][t] = A.fuses[s][t]
    <3>1. PICK n \in Nat : n = IF A.fuses[stage][t] = 0 THEN life ELSE A.fuses[stage][t]
      BY <2>5
    <3>2. PICK row : row = [A.fuses[stage] EXCEPT ![t] = n]
      OBVIOUS
    <3>3. row \in [Tags -> Nat] /\ row[t] = n
      BY <2>5, <3>2
    <3>4. U.fuses = [A.fuses EXCEPT ![stage] = row]
      BY <2>4, <3>1, <3>2
    <3>. QED  BY <2>5, <3>1, <3>3, <3>4
  <2>7. Columns(U)
    BY <2>2, <2>4, <2>6 DEF Columns, ColumnNames
  <2>8. U.created_at = A.created_at /\ U.title = A.title
    BY <2>4 DEF ColumnNames
  <2>9. U.created_at[t] # 0
    BY <2>2, <2>8
  <2>. QED  BY <2>2, <2>6, <2>7, <2>8, <2>9
<1>. QED  BY <1>1, <1>2

\* U is what a loop makes of T whose turn for tag t makes w[t] of it.
Loop(T, w, U) ==
    U = [T EXCEPT !.created_at = [t \in Tags |-> w[t].created_at[t]],
                  !.title = [t \in Tags |-> w[t].title[t]],
                  !.status = [t \in Tags |-> w[t].status[t]],
                  !.fuses = [s \in Stage |-> [t \in Tags |-> w[t].fuses[s][t]]]]

\* A loop over tags gives each tag what its turn gave it.
LEMMA EachTag ==
    ASSUME NEW T, Columns(T), NEW w, \A t \in Tags : Columns(w[t]), NEW U, Loop(T, w, U)
    PROVE  /\ Columns(U)
           /\ \A t \in Tags : /\ U.created_at[t] = w[t].created_at[t] /\ U.title[t] = w[t].title[t]
                              /\ \A s \in Stage : U.fuses[s][t] = w[t].fuses[s][t]
           /\ \A c \in {"messages", "interventions", "bounces", "revisions", "token_usage"} :
                U[c] = T[c]
<1>1. PICK created, title, statuses, fuses :
         /\ created = [t \in Tags |-> w[t].created_at[t]]
         /\ title = [t \in Tags |-> w[t].title[t]]
         /\ statuses = [t \in Tags |-> w[t].status[t]]
         /\ fuses = [s \in Stage |-> [t \in Tags |-> w[t].fuses[s][t]]]
  OBVIOUS
<1>2. U = [T EXCEPT !.created_at = created, !.title = title, !.status = statuses, !.fuses = fuses]
  BY <1>1, Zenon DEF Loop
<1>3. \A t \in Tags : w[t].created_at[t] \in 0 .. Now
  BY DEF Columns
<1>4. \A t \in Tags : w[t].title[t] \in Titles \cup {NoTitle}
  BY DEF Columns
<1>5. \A t \in Tags : w[t].status[t] \in Statuses \cup {NoStatus}
  BY DEF Columns
<1>6. \A t \in Tags : \A s \in Stage : w[t].fuses[s][t] \in Nat
  <2>1. \A t \in Tags : w[t].fuses \in [Stage -> [Tags -> Nat]]
    BY DEF Columns
  <2>. QED  BY <2>1
<1>7. /\ created \in [Tags -> 0 .. Now] /\ title \in [Tags -> Titles \cup {NoTitle}]
      /\ statuses \in [Tags -> Statuses \cup {NoStatus}]
      /\ \A t \in Tags : created[t] = w[t].created_at[t] /\ title[t] = w[t].title[t]
  BY <1>3, <1>4, <1>5, <1>1
<1>8. /\ fuses \in [Stage -> [Tags -> Nat]]
      /\ \A t \in Tags, s \in Stage : fuses[s][t] = w[t].fuses[s][t]
  BY <1>6, <1>1
<1>9. /\ U = [c \in ColumnNames |-> U[c]]
      /\ \A c \in ColumnNames \ {"created_at", "title", "status", "fuses"} : U[c] = T[c]
      /\ U.created_at = created /\ U.title = title /\ U.status = statuses /\ U.fuses = fuses
  BY <1>2 DEF Columns, ColumnNames
<1>10. Columns(U)
  BY <1>7, <1>8, <1>9 DEF Columns, ColumnNames
<1>. QED  BY <1>7, <1>8, <1>9, <1>10 DEF ColumnNames

LEMMA AllFuses ==
    ASSUME NEW T, Columns(T), NEW stage \in Stage, NEW rows \in [Tags -> Nat],
           NEW U, U = WithFuses(T, stage, rows)
    PROVE  /\ Columns(U)
           /\ \A t \in Tags :
                /\ T.created_at[t] # 0 => U.created_at[t] \in 1 .. T.created_at[t]
                /\ T.title[t] # NoTitle => U.title[t] = T.title[t]
                /\ U.fuses[stage][t] = IF T.fuses[stage][t] = 0 THEN rows[t] ELSE T.fuses[stage][t]
                /\ \A s \in Stage : s # stage => U.fuses[s][t] = T.fuses[s][t]
                /\ rows[t] # 0 => U.created_at[t] # 0
           /\ \A c \in {"messages", "interventions", "bounces", "revisions", "token_usage"} :
                U[c] = T[c]
<1>1. PICK w : w = [t \in Tags |-> WithFuse(T, stage, t, rows[t])]
  OBVIOUS
<1>2. ASSUME NEW t \in Tags
      PROVE  /\ Columns(w[t])
             /\ T.created_at[t] # 0 => w[t].created_at[t] \in 1 .. T.created_at[t]
             /\ T.title[t] # NoTitle => w[t].title[t] = T.title[t]
             /\ w[t].fuses[stage][t] = IF T.fuses[stage][t] = 0 THEN rows[t] ELSE T.fuses[stage][t]
             /\ \A s \in Stage : s # stage => w[t].fuses[s][t] = T.fuses[s][t]
             /\ rows[t] # 0 => w[t].created_at[t] # 0
  BY <1>1, OneFuse
<1>3. /\ [t \in Tags |-> w[t].created_at[t]] =
            [t \in Tags |-> WithFuse(T, stage, t, rows[t]).created_at[t]]
      /\ [t \in Tags |-> w[t].title[t]] = [t \in Tags |-> WithFuse(T, stage, t, rows[t]).title[t]]
      /\ [t \in Tags |-> w[t].status[t]] = [t \in Tags |-> WithFuse(T, stage, t, rows[t]).status[t]]
      /\ [s \in Stage |-> [t \in Tags |-> w[t].fuses[s][t]]] =
            [s \in Stage |-> [t \in Tags |-> WithFuse(T, stage, t, rows[t]).fuses[s][t]]]
  BY <1>1
<1>4. Loop(T, w, U)
  BY <1>3, Zenon DEF Loop, WithFuses, ForEachTag
<1>5. /\ Columns(U)
      /\ \A t \in Tags : /\ U.created_at[t] = w[t].created_at[t] /\ U.title[t] = w[t].title[t]
                         /\ \A s \in Stage : U.fuses[s][t] = w[t].fuses[s][t]
      /\ \A c \in {"messages", "interventions", "bounces", "revisions", "token_usage"} :
                U[c] = T[c]
  BY <1>2, <1>4, EachTag
<1>6. ASSUME NEW t \in Tags
      PROVE  /\ T.created_at[t] # 0 => U.created_at[t] \in 1 .. T.created_at[t]
             /\ T.title[t] # NoTitle => U.title[t] = T.title[t]
             /\ U.fuses[stage][t] = IF T.fuses[stage][t] = 0 THEN rows[t] ELSE T.fuses[stage][t]
             /\ \A s \in Stage : s # stage => U.fuses[s][t] = T.fuses[s][t]
             /\ rows[t] # 0 => U.created_at[t] # 0
  BY <1>2, <1>5
<1>. QED  BY <1>5, <1>6

LEMMA FusesKeep ==
    ASSUME NEW T, Columns(T), Whole(T), Articles(T), NEW stage \in Stage, NEW rows \in [Tags -> Nat],
           NEW U, U = WithFuses(T, stage, rows)
    PROVE  Columns(U) /\ Whole(U) /\ Articles(U) /\ Extends(T, U)
<1>1. /\ Columns(U)
      /\ \A t \in Tags :
            /\ T.created_at[t] # 0 => U.created_at[t] \in 1 .. T.created_at[t]
            /\ T.title[t] # NoTitle => U.title[t] = T.title[t]
            /\ U.fuses[stage][t] = IF T.fuses[stage][t] = 0 THEN rows[t] ELSE T.fuses[stage][t]
            /\ \A s \in Stage : s # stage => U.fuses[s][t] = T.fuses[s][t]
            /\ rows[t] # 0 => U.created_at[t] # 0
      /\ U.messages = T.messages /\ U.interventions = T.interventions /\ U.revisions = T.revisions
  BY AllFuses
<1>2. Extends(T, U)
  BY <1>1 DEF Extends
<1>3. Whole(U)
  BY <1>1, <1>2, ExtendsWhole
<1>4. ASSUME NEW t \in Tags, U.created_at[t] = 0
      PROVE  T.created_at[t] = 0 /\ rows[t] = 0
  <2>1. U.created_at[t] \notin 1 .. T.created_at[t]
    BY <1>4
  <2>. QED  BY <1>1, <1>4, <2>1
<1>5. Articles(U)
  BY <1>1, <1>4 DEF Articles
<1>. QED  BY <1>1, <1>2, <1>3, <1>5

LEMMA OneStatus ==
    ASSUME NEW T, Columns(T), NEW t \in Tags, articles_json[t] \in Statuses \cup {NoStatus},
           NEW U, U = WithStatus(T, t)
    PROVE  /\ Columns(U) /\ U.fuses = T.fuses
           /\ T.created_at[t] # 0 => U.created_at[t] \in 1 .. T.created_at[t]
           /\ T.title[t] # NoTitle => U.title[t] = T.title[t]
<1>1. CASE articles_json[t] = NoStatus
  <2>1. U = T
    BY <1>1 DEF WithStatus
  <2>2. T.created_at[t] # 0 => T.created_at[t] \in 1 .. T.created_at[t]
    BY RecordAssumption DEF Columns
  <2>. QED  BY <2>1, <2>2
<1>2. CASE articles_json[t] # NoStatus
  <2>1. PICK A : A = upsert_article(T, t, NoTitle, Now)
    OBVIOUS
  <2>2. /\ Columns(A) /\ A.fuses = T.fuses
        /\ T.created_at[t] # 0 => A.created_at[t] \in 1 .. T.created_at[t]
        /\ T.title[t] # NoTitle => A.title[t] = T.title[t]
    BY <2>1, Article DEF ColumnNames
  <2>3. U = [A EXCEPT !.status[t] = IF A.created_at[t] # 0 THEN articles_json[t] ELSE @]
    BY <1>2, <2>1 DEF WithStatus, set_article_status
  <2>4. PICK new \in Statuses \cup {NoStatus} :
            new = IF A.created_at[t] # 0 THEN articles_json[t] ELSE A.status[t]
    <3>1. A.status[t] \in Statuses \cup {NoStatus}
      BY <2>2 DEF Columns
    <3>. QED  BY <3>1
  <2>5. /\ U = [c \in ColumnNames |-> U[c]] /\ \A c \in ColumnNames \ {"status"} : U[c] = A[c]
        /\ U.status = [A.status EXCEPT ![t] = IF A.created_at[t] # 0 THEN articles_json[t] ELSE @]
    BY <2>2, <2>3 DEF Columns, ColumnNames
  <2>6. U.status = [A.status EXCEPT ![t] = new]
    BY <2>4, <2>5, Zenon
  <2>7. U.status \in [Tags -> Statuses \cup {NoStatus}]
    BY <2>2, <2>6 DEF Columns
  <2>8. \A c \in ColumnNames \ {"status"} : U[c] = A[c]
    BY <2>5
  <2>9. Columns(U)
    BY <2>2, <2>5, <2>7 DEF Columns, ColumnNames
  <2>10. U.fuses = A.fuses /\ U.created_at = A.created_at /\ U.title = A.title
    BY <2>8 DEF ColumnNames
  <2>. QED  BY <2>2, <2>9, <2>10
<1>. QED  BY <1>1, <1>2

LEMMA StatusesKeep ==
    ASSUME NEW T, Columns(T), Whole(T), Articles(T),
           articles_json \in [Tags -> Statuses \cup {NoStatus}],
           NEW U, U = WithStatuses(T)
    PROVE  /\ Columns(U) /\ Whole(U) /\ Articles(U) /\ Extends(T, U)
           /\ U.messages = T.messages /\ U.bounces = T.bounces /\ U.revisions = T.revisions
           /\ U.interventions = T.interventions /\ U.token_usage = T.token_usage
           /\ \A t \in Tags, s \in Stage : U.fuses[s][t] = T.fuses[s][t]
<1>1. PICK w : w = [t \in Tags |-> WithStatus(T, t)]
  OBVIOUS
<1>2. ASSUME NEW t \in Tags
      PROVE  /\ Columns(w[t]) /\ w[t].fuses = T.fuses
             /\ T.created_at[t] # 0 => w[t].created_at[t] \in 1 .. T.created_at[t]
             /\ T.title[t] # NoTitle => w[t].title[t] = T.title[t]
  BY <1>1, OneStatus
<1>3. /\ [t \in Tags |-> w[t].created_at[t]] = [t \in Tags |-> WithStatus(T, t).created_at[t]]
      /\ [t \in Tags |-> w[t].title[t]] = [t \in Tags |-> WithStatus(T, t).title[t]]
      /\ [t \in Tags |-> w[t].status[t]] = [t \in Tags |-> WithStatus(T, t).status[t]]
      /\ [s \in Stage |-> [t \in Tags |-> w[t].fuses[s][t]]] =
            [s \in Stage |-> [t \in Tags |-> WithStatus(T, t).fuses[s][t]]]
  BY <1>1
<1>4. Loop(T, w, U)
  BY <1>3, Zenon DEF Loop, WithStatuses, ForEachTag
<1>5. /\ Columns(U)
      /\ \A t \in Tags : /\ U.created_at[t] = w[t].created_at[t] /\ U.title[t] = w[t].title[t]
                         /\ \A s \in Stage : U.fuses[s][t] = w[t].fuses[s][t]
      /\ \A c \in {"messages", "interventions", "bounces", "revisions", "token_usage"} :
                U[c] = T[c]
  BY <1>2, <1>4, EachTag
<1>6. /\ \A t \in Tags, s \in Stage : U.fuses[s][t] = T.fuses[s][t]
      /\ \A t \in Tags : /\ T.created_at[t] # 0 => U.created_at[t] \in 1 .. T.created_at[t]
                         /\ T.title[t] # NoTitle => U.title[t] = T.title[t]
  BY <1>2, <1>5
<1>7. Extends(T, U)
  BY <1>5, <1>6 DEF Extends
<1>8. Whole(U)
  BY <1>5, <1>7, ExtendsWhole
<1>9. Articles(U)
  <2>1. ASSUME NEW t \in Tags, U.created_at[t] = 0 PROVE T.created_at[t] = 0
    <3>1. U.created_at[t] \notin 1 .. T.created_at[t]
      BY <2>1
    <3>. QED  BY <1>6, <3>1
  <2>. QED  BY <1>5, <1>6, <2>1 DEF Articles
<1>. QED  BY <1>5, <1>6, <1>7, <1>8, <1>9

-----------------------------------------------------------------------------
(* What a pass reads.                                                      *)

\* The year of a later day is no earlier.
LEMMA YearsGrow ==
    ASSUME NEW d \in Days, NEW e \in Days, d <= e
    PROVE  YearOf[d] <= YearOf[e] /\ YearOf[d] \in Nat \ {0}
<1>1. d \in Nat /\ e \in Nat /\ YearOf[d] \in Nat \ {0}
  BY SessionAssumption, RecordAssumption
<1>2. d < e \/ d = e
  BY <1>1
<1>. QED  BY <1>1, <1>2, RecordAssumption

\* The records of a pass are the mails of the maildir that can be parsed, each
\* of them, sorted by Date.
LEMMA ReadingsFacts ==
    ASSUME maildir \in [Mails -> Nat], NEW s \in Readings
    PROVE  /\ s \in Seq(Mails)
           /\ \A i \in 1 .. Len(s) : parse_message(s[i]) /\ maildir[s[i]] > 0
           /\ \A i \in 1 .. Len(s) - 1 : BySentAt(s[i], s[i + 1])
           /\ \A m \in Mails : parse_message(m) /\ maildir[m] > 0 =>
                \E i \in 1 .. Len(s) : s[i] = m
           /\ \A m \in Mails : parse_message(m) =>
                Cardinality({i \in 1 .. Len(s) : s[i] = m}) = maildir[m]
<1>. DEFINE D == {n \in Mails : parse_message(n)}
            copies == [m \in D |-> maildir[m]]
            Parts == {{m} \X (1 .. copies[m]) : m \in DOMAIN copies}
            size == Cardinality(UNION Parts)
            part == [m \in D |-> {m} \X (1 .. copies[m])]
<1>1. IsFiniteSet(D)
  <2>1. D \in SUBSET Mails
    OBVIOUS
  <2>. QED  BY <2>1, FS_Subset, RecordAssumption
<1>2. part \in Surjection(D, Parts)
  BY DEF Surjection
<1>3. IsFiniteSet(Parts)
  BY <1>1, <1>2, FS_Surjection
<1>4. \A P \in Parts : IsFiniteSet(P)
  <2>1. SUFFICES ASSUME NEW m \in D PROVE IsFiniteSet({m} \X (1 .. maildir[m]))
    BY DEF Readings
  <2>2. IsFiniteSet({m}) /\ IsFiniteSet(1 .. maildir[m])
    <3>1. 1 \in Int /\ maildir[m] \in Int
      OBVIOUS
    <3>. QED  BY <3>1, FS_Singleton, FS_Interval
  <2>. QED  BY <2>2, FS_Product
<1>5. size \in Nat
  BY <1>3, <1>4, FS_UNION, FS_CardinalityType
<1>6. /\ s \in [1 .. size -> {m \in DOMAIN copies : copies[m] > 0}]
      /\ \A m \in DOMAIN copies : Cardinality({i \in 1 .. size : s[i] = m}) = copies[m]
      /\ \A i \in 1 .. size - 1 : BySentAt(s[i], s[i + 1])
  BY Zenon DEF Readings
<1>7. \A m \in DOMAIN copies : copies[m] = maildir[m] /\ m \in Mails /\ parse_message(m)
  OBVIOUS
<1>8. D = DOMAIN copies
  OBVIOUS
<1>. HIDE DEF size, copies
<1>9. s \in Seq(Mails) /\ Len(s) = size
  BY <1>5, <1>6, <1>7
<1>10. \A i \in 1 .. Len(s) : parse_message(s[i]) /\ maildir[s[i]] > 0
  BY <1>6, <1>7, <1>9
<1>11. ASSUME NEW m \in Mails, parse_message(m), maildir[m] > 0
       PROVE  \E i \in 1 .. Len(s) : s[i] = m
  <2>1. Cardinality({i \in 1 .. size : s[i] = m}) > 0
    BY <1>6, <1>7, <1>8, <1>11
  <2>2. {i \in 1 .. size : s[i] = m} # {}
    <3>1. ASSUME {i \in 1 .. size : s[i] = m} = {} PROVE FALSE
      BY <2>1, <3>1, FS_EmptySet
    <3>. QED  BY <3>1
  <2>. QED  BY <1>9, <2>2
<1>12. \A m \in Mails : parse_message(m) =>
          Cardinality({i \in 1 .. Len(s) : s[i] = m}) = maildir[m]
  BY <1>6, <1>7, <1>8, <1>9
<1>. QED  BY <1>6, <1>9, <1>10, <1>11, <1>12

\* The rows of the log are dated, and no other table changes.
LEMMA LogDated ==
    ASSUME NEW T, Columns(T), Dated(T), today \in Days, mail_log \in [Lines -> Days \cup {0}],
           log_year \in Nat, log_year <= YearOf[today], \A l \in Lines : mail_log[l] <= today,
           NEW U, U = WithLog(T)
    PROVE  /\ Columns(U) /\ Dated(U)
           /\ \A c \in ColumnNames \ {"bounces"} : U[c] = T[c]
<1>. DEFINE events(l) == parse_postfix_line(l, YearOf[mail_log[l]], log_year)
            rows(l) == {[line |-> l, type |-> e.type, year |-> e.year] : e \in events(l)}
            inserted == {insert_bounces(T, l, events(l)).bounces :
                            l \in {k \in Lines : mail_log[k] # 0}}
<1>1. U = [T EXCEPT !.bounces = @ \cup UNION inserted]
  BY DEF WithLog
<1>2. ASSUME NEW row \in UNION inserted
      PROVE  row \in T.bounces \/ \E l \in Lines : mail_log[l] # 0 /\ row \in rows(l)
  <2>1. PICK l \in Lines : mail_log[l] # 0 /\ row \in insert_bounces(T, l, events(l)).bounces
    BY <1>2
  <2>2. insert_bounces(T, l, events(l)).bounces =
            IF \E r \in T.bounces : r.line = l THEN T.bounces ELSE T.bounces \cup rows(l)
    BY DEF insert_bounces, Columns, ColumnNames
  <2>. QED  BY <2>1, <2>2
<1>3. ASSUME NEW l \in Lines, mail_log[l] # 0, NEW row \in rows(l)
      PROVE  /\ row \in Bounce /\ row.line = l /\ row.year \in Nat /\ row.year <= YearOf[today]
             /\ Line[l].stamp = "iso" => row.year = YearOf[mail_log[l]]
  <2>1. mail_log[l] \in Days /\ mail_log[l] <= today
    BY <1>3
  <2>2. YearOf[mail_log[l]] <= YearOf[today] /\ YearOf[mail_log[l]] \in Nat \ {0}
    BY <2>1, YearsGrow
  <2>3. row.line = l /\ row.year = parse_timestamp(l, YearOf[mail_log[l]], log_year)
    BY <1>3 DEF parse_postfix_line
  <2>4. /\ Line[l].stamp = "iso" => row.year = YearOf[mail_log[l]]
        /\ Line[l].stamp = "syslog" => row.year = log_year
        /\ Line[l].stamp = "other" => row.year = 0
    BY <2>3 DEF parse_timestamp
  <2>5. Line[l].stamp \in {"iso", "syslog", "other"}
    BY LineAssumption
  <2>6. YearOf[today] \in Nat
    BY RecordAssumption
  <2>7. row.year \in Nat /\ row.year <= YearOf[today]
    <3>1. CASE Line[l].stamp = "iso"
      BY <2>2, <2>4, <3>1
    <3>2. CASE Line[l].stamp = "syslog"
      BY <2>4, <3>2
    <3>3. CASE Line[l].stamp = "other"
      BY <2>4, <2>6, <3>3
    <3>. QED  BY <2>5, <3>1, <3>2, <3>3
  <2>8. row \in Bounce
    <3>1. PICK e \in events(l) : row = [line |-> l, type |-> e.type, year |-> e.year]
      BY <1>3
    <3>2. e.type \in BounceKind
      <4>1. PICK kind \in Kinds(l) :
                e = [type |-> kind, year |-> parse_timestamp(l, YearOf[mail_log[l]], log_year)]
        BY <3>1 DEF parse_postfix_line
      <4>2. kind \in {"bounce_matrice", "bounce_tag"}
        BY <4>1, Zenon DEF Kinds
      <4>. QED  BY <4>1, <4>2 DEF BounceKind
    <3>3. row.year = e.year
      BY <3>1
    <3>. QED  BY <2>7, <3>1, <3>2, <3>3 DEF Bounce
  <2>. QED  BY <2>3, <2>4, <2>7, <2>8
<1>. HIDE DEF inserted, rows
<1>4. /\ U = [c \in ColumnNames |-> U[c]] /\ U.bounces = T.bounces \cup UNION inserted
      /\ \A c \in ColumnNames \ {"bounces"} : U[c] = T[c]
  BY <1>1 DEF Columns, ColumnNames
<1>5. Columns(U)
  BY <1>4 DEF Columns, ColumnNames
<1>6. Dated(U)
  BY <1>2, <1>3, <1>4 DEF Dated
<1>. QED  BY <1>4, <1>5, <1>6

-----------------------------------------------------------------------------
(* The types.                                                              *)

\* Everything but what the newsroom does on its own.
Steps == Start \/ Pass \/ Fail \/ ReviewForm

LEMMA ProcessTypesStep ==
    ASSUME ProcessTypes, SourceTypes, Steps
    PROVE  ProcessTypes' /\ UNCHANGED sources
<1>. USE DEF ProcessTypes, review, local, faults
<1>1. NoCycles \in [Tags -> Nat] /\ NoRows \in [Stage -> [Tags -> Nat]]
  BY DEF NoCycles, NoRows
<1>2. CASE Start
  <2>1. records' \in Seq(Mails)
    BY <1>2, ReadingsFacts DEF Start, SourceTypes
  <2>2. YearOf[today] \in Nat
    BY RecordAssumption DEF SourceTypes
  <2>. QED  BY <1>2, <2>1, <2>2 DEF Start
<1>3. CASE StoreMessage
  <2>1. records # <<>> /\ records' = Tail(records) /\ records' \in Seq(Mails) /\ pc = "maildir"
        /\ Head(records) \in Mails
    BY <1>3 DEF StoreMessage
  <2>2. revision_cycles' \in [Tags -> Nat]
    <3>1. CASE IsReview(Head(records))
      <4>1. Mail[Head(records)].tag \in Tags
        BY <2>1, <3>1, MailTypes
      <4>2. PICK n \in Nat : n = revision_cycles[Mail[Head(records)].tag] + 1
        BY <4>1
      <4>3. revision_cycles' = [revision_cycles EXCEPT ![Mail[Head(records)].tag] = n]
        BY <1>3, <3>1, <4>2 DEF StoreMessage
      <4>. QED  BY <4>1, <4>3
    <3>2. CASE ~IsReview(Head(records))
      <4>1. revision_cycles' = revision_cycles
        BY <1>3, <3>2 DEF StoreMessage
      <4>. QED  BY <4>1
    <3>. QED  BY <3>1, <3>2
  <2>3. /\ UNCHANGED sources /\ pc' = pc /\ quality_reviews' = quality_reviews /\ form' = form
        /\ selected' = selected /\ log_year' = log_year /\ refusals' = refusals
    BY <1>3 DEF StoreMessage
  <2>. QED  BY <2>1, <2>2, <2>3
<1>4. CASE CollectPostfixLog
  BY <1>1, <1>4 DEF CollectPostfixLog
<1>5. CASE FirstSelect
  <2>1. selected' = [selected EXCEPT !["fuse"] = frozen_threads]
    BY <1>5 DEF FirstSelect, Select, Queries
  <2>2. selected' \in [Stage -> [Tags -> Nat]]
    BY <2>1 DEF SourceTypes, Stage
  <2>. QED  BY <1>5, <2>2 DEF FirstSelect
<1>6. CASE SecondSelect \/ SecondSelectRefused
  <2>1. refusals' \in 0 .. MaxRefusals
    <3>1. MaxRefusals \in Nat
      BY LimitAssumption
    <3>. QED  BY <1>6, <3>1 DEF SecondSelect, SecondSelectRefused
  <2>. QED  BY <1>1, <1>6, <2>1 DEF SecondSelect, SecondSelectRefused, StoreFuses
<1>7. CASE CollectTokenUsage
  BY <1>7 DEF CollectTokenUsage
<1>8. CASE SyncPublicStatuses
  BY <1>8 DEF SyncPublicStatuses
<1>9. CASE LogRaises \/ SyncRaises \/ Commit \/ Fail
  <2>1. Exit /\ UNCHANGED <<sources, review, refusals>>
    BY <1>9 DEF LogRaises, SyncRaises, Commit, Fail
  <2>. QED  BY <1>1, <2>1 DEF Exit, NoCycles, NoRows
<1>10. CASE SubmitForm
  <2>1. form \in Tags /\ quality_reviews[form] + 1 \in 0 .. MaxReviews
    <3>1. MaxReviews \in Nat
      BY LimitAssumption
    <3>. QED  BY <1>10, <3>1 DEF SubmitForm
  <2>2. quality_reviews' \in [Tags -> 0 .. MaxReviews]
    BY <1>10, <2>1 DEF SubmitForm
  <2>. QED  BY <1>10, <2>2 DEF SubmitForm
<1>11. CASE \E t \in Tags : OpenForm(t)
  BY <1>11 DEF OpenForm
<1>. QED  BY <1>2, <1>3, <1>4, <1>5, <1>6, <1>7, <1>8, <1>9, <1>10, <1>11
          DEF Steps, Pass, ReviewForm

\* What the newsroom may do to what the collector reads: mails are only ever
\* delivered, lines only ever written, with the day of their writing.
LEMMA EnvironmentStep ==
    ASSUME SourceTypes, Environment
    PROVE  /\ SourceTypes' /\ UNCHANGED <<db, tx, pc, review, local, faults>>
           /\ \A m \in Mails : maildir[m] > 0 => maildir'[m] > 0
           /\ today <= today'
           /\ \A l \in Lines : \/ mail_log'[l] = mail_log[l]
                               \/ mail_log[l] = 0 /\ mail_log'[l] = today
           /\ \/ UNCHANGED <<fuse, unfreezes>>
              \/ \E t \in Tags :
                    /\ \A s \in Tags \ {t} : /\ frozen_threads'[s] = frozen_threads[s]
                                             /\ warned_threads'[s] = warned_threads[s]
                                             /\ unfreezes'[s] = unfreezes[s]
                    /\ \/ WarnThread(t) \/ FreezeThread(t) \/ DeleteFrozen(t) \/ DeleteWarned(t)
<1>1. UNCHANGED <<db, tx, pc, review, local, faults>>
  BY DEF Environment
<1>. USE DEF SourceTypes, newsroom, logs, fuse, status
<1>2. today \in Nat /\ Days \subseteq Nat
  BY SessionAssumption
<1>3. ASSUME NEW m \in Mails, Deliver(m)
      PROVE  /\ SourceTypes' /\ \A n \in Mails : maildir[n] > 0 => maildir'[n] > 0
             /\ UNCHANGED <<today, mail_log, frozen_threads, warned_threads, unfreezes>>
  BY <1>3 DEF Deliver
<1>4. ASSUME NextDay
      PROVE  /\ SourceTypes' /\ today <= today'
             /\ UNCHANGED <<maildir, mail_log, frozen_threads, warned_threads, unfreezes>>
  BY <1>2, <1>4 DEF NextDay
<1>5. ASSUME NEW l \in Lines, LogLine(l)
      PROVE  /\ SourceTypes' /\ mail_log[l] = 0 /\ mail_log'[l] = today
             /\ \A k \in Lines : k # l => mail_log'[k] = mail_log[k]
             /\ UNCHANGED <<maildir, today, frozen_threads, warned_threads, unfreezes>>
  BY <1>5 DEF LogLine
<1>6. ASSUME NEW t \in Tags, WarnThread(t) \/ FreezeThread(t) \/ DeleteFrozen(t) \/ DeleteWarned(t)
      PROVE  /\ SourceTypes'
             /\ \A s \in Tags \ {t} : /\ frozen_threads'[s] = frozen_threads[s]
                                      /\ warned_threads'[s] = warned_threads[s]
                                      /\ unfreezes'[s] = unfreezes[s]
             /\ UNCHANGED <<maildir, today, mail_log>>
  <2>1. unfreezes[t] \in 0 .. MaxUnfreezes /\ unfreezes[t] + 1 \in Nat /\ MaxUnfreezes \in Nat
    BY LimitAssumption
  <2>2. CASE WarnThread(t)
    BY <2>1, <2>2 DEF WarnThread
  <2>3. CASE FreezeThread(t)
    BY <2>1, <2>3 DEF FreezeThread
  <2>4. CASE DeleteFrozen(t)
    <3>1. unfreezes[t] + 1 \in 0 .. MaxUnfreezes
      BY <2>1, <2>4 DEF DeleteFrozen
    <3>. QED  BY <2>4, <3>1 DEF DeleteFrozen
  <2>5. CASE DeleteWarned(t)
    BY <2>5 DEF DeleteWarned
  <2>. QED  BY <1>6, <2>2, <2>3, <2>4, <2>5
<1>7. ASSUME NEW f \in Sessions, AppendRecord(f) \/ FinishRecord(f)
      PROVE  SourceTypes' /\ UNCHANGED <<maildir, today, mail_log, frozen_threads, warned_threads, unfreezes>>
  BY <1>7 DEF AppendRecord, FinishRecord
<1>8. ASSUME \/ \E t \in Tags, s \in Statuses : SetStatus(t, s)
             \/ BreakStatuses \/ RepairStatuses
      PROVE  SourceTypes' /\ UNCHANGED <<maildir, today, mail_log, frozen_threads, warned_threads, unfreezes>>
  BY <1>8 DEF SetStatus, BreakStatuses, RepairStatuses
<1>9. /\ SourceTypes'
      /\ \A m \in Mails : maildir[m] > 0 => maildir'[m] > 0
      /\ today <= today'
      /\ \A l \in Lines : \/ mail_log'[l] = mail_log[l]
                          \/ mail_log[l] = 0 /\ mail_log'[l] = today
  <2>1. today <= today
    BY <1>2
  <2>. QED  BY <1>3, <1>4, <1>5, <1>6, <1>7, <1>8, <2>1 DEF Environment
<1>10. \/ UNCHANGED <<fuse, unfreezes>>
       \/ \E t \in Tags :
             /\ \A s \in Tags \ {t} : /\ frozen_threads'[s] = frozen_threads[s]
                                      /\ warned_threads'[s] = warned_threads[s]
                                      /\ unfreezes'[s] = unfreezes[s]
             /\ \/ WarnThread(t) \/ FreezeThread(t) \/ DeleteFrozen(t) \/ DeleteWarned(t)
  BY <1>3, <1>4, <1>5, <1>6, <1>7, <1>8 DEF Environment
<1>. QED  BY <1>1, <1>9, <1>10

LEMMA TypesStep ==
    ASSUME Types, [Next]_vars
    PROVE  Types'
<1>1. CASE Steps
  <2>1. ProcessTypes' /\ UNCHANGED sources
    BY <1>1, ProcessTypesStep DEF Types
  <2>2. SourceTypes'
    BY <2>1 DEF Types, SourceTypes, sources, newsroom, logs, fuse, status
  <2>. QED  BY <2>1, <2>2 DEF Types
<1>2. CASE Environment
  <2>1. SourceTypes' /\ UNCHANGED <<db, tx, pc, review, local, faults>>
    BY <1>2, EnvironmentStep DEF Types
  <2>2. ProcessTypes'
    BY <2>1 DEF Types, ProcessTypes, review, local, faults
  <2>. QED  BY <2>1, <2>2 DEF Types
<1>3. CASE UNCHANGED vars
  BY <1>3 DEF Types, ProcessTypes, SourceTypes, vars, sources, newsroom, logs, fuse, status,
              review, local, faults
<1>. QED  BY <1>1, <1>2, <1>3 DEF Next, Steps

-----------------------------------------------------------------------------
(* What a step does to the tables.                                         *)

\* One turn of the loop over the records.
LEMMA StoreForm ==
    ASSUME ProcessTypes, StoreMessage
    PROVE  \E m \in Mails, cycle \in Nat :
             /\ pc = "maildir" /\ records # <<>> /\ m = Head(records) /\ records' = Tail(records)
             /\ tx' = Added(tx, m, cycle)
             /\ IsReview(m) =>
                    /\ cycle = revision_cycles[Mail[m].tag] + 1
                    /\ revision_cycles' = [revision_cycles EXCEPT ![Mail[m].tag] = cycle]
             /\ ~IsReview(m) => revision_cycles' = revision_cycles
             /\ UNCHANGED <<sources, db, pc, review, selected, log_year, faults>>
<1>1. PICK m : m = Head(records)
  OBVIOUS
<1>2. /\ m \in Mails /\ records # <<>> /\ revision_cycles \in [Tags -> Nat]
      /\ pc = "maildir" /\ records' = Tail(records)
      /\ UNCHANGED <<sources, db, pc, review, selected, log_year, faults>>
  BY <1>1 DEF StoreMessage, ProcessTypes
<1>3. CASE IsReview(m)
  <2>1. PICK cycle \in Nat : cycle = revision_cycles[Mail[m].tag] + 1
    BY <1>2, <1>3, MailTypes
  <2>2. /\ revision_cycles' = [revision_cycles EXCEPT ![Mail[m].tag] = cycle]
        /\ tx' = Added(tx, m, cycle)
    BY <1>1, <1>3, <2>1, Zenon DEF StoreMessage, Added, Stored
  <2>. QED  BY <1>1, <1>2, <1>3, <2>1, <2>2
<1>4. CASE ~IsReview(m)
  <2>1. revision_cycles' = revision_cycles /\ tx' = Added(tx, m, 0)
    BY <1>1, <1>4, Zenon DEF StoreMessage, Added, Stored
  <2>2. 0 \in Nat
    OBVIOUS
  <2>. QED  BY <1>1, <1>2, <1>4, <2>1, <2>2
<1>. QED  BY <1>3, <1>4

\* Bounces and tokens concern no article.
LEMMA OtherTables ==
    ASSUME NEW T, Columns(T), Whole(T), Articles(T), NEW U, Columns(U),
           \A c \in ColumnNames \ {"bounces", "token_usage"} : U[c] = T[c]
    PROVE  Whole(U) /\ Articles(U) /\ Extends(T, U)
<1>1. /\ U.created_at = T.created_at /\ U.title = T.title /\ U.messages = T.messages
      /\ U.interventions = T.interventions /\ U.fuses = T.fuses /\ U.revisions = T.revisions
  BY DEF ColumnNames
<1>2. \A t \in Tags : T.created_at[t] # 0 => T.created_at[t] \in 1 .. T.created_at[t]
  BY RecordAssumption DEF Columns
<1>3. Extends(T, U)
  BY <1>1, <1>2 DEF Extends
<1>4. Articles(U)
  BY <1>1 DEF Articles
<1>. QED  BY <1>1, <1>3, <1>4, ExtendsWhole

LEMMA TokensKeep ==
    ASSUME Columns(tx), CollectTokenUsage
    PROVE  /\ Columns(tx') /\ \A c \in ColumnNames \ {"token_usage"} : tx'[c] = tx[c]
           /\ UNCHANGED <<sources, db, review, local, faults>>
<1>1. PICK usage : tx' = [tx EXCEPT !.token_usage = usage]
  BY DEF CollectTokenUsage
<1>2. /\ tx' = [c \in ColumnNames |-> tx'[c]]
      /\ \A c \in ColumnNames \ {"token_usage"} : tx'[c] = tx[c]
  BY <1>1 DEF Columns, ColumnNames
<1>3. Columns(tx')
  BY <1>2 DEF Columns, ColumnNames
<1>. QED  BY <1>2, <1>3 DEF CollectTokenUsage

\* The two loops of collect_fuse_events.
Fuses(T, rows) == WithFuses(WithFuses(T, "fuse-warn", rows["fuse-warn"]), "fuse", rows["fuse"])

LEMMA BothFuses ==
    ASSUME NEW T, Columns(T), NEW rows \in [Stage -> [Tags -> Nat]], NEW U, U = Fuses(T, rows)
    PROVE  /\ Columns(U) /\ U.bounces = T.bounces /\ U.revisions = T.revisions
           /\ U.messages = T.messages /\ U.interventions = T.interventions
           /\ U.token_usage = T.token_usage
           /\ Whole(T) /\ Articles(T) => Whole(U) /\ Articles(U) /\ Extends(T, U)
           /\ \A t \in Tags, s \in Stage :
                U.fuses[s][t] = IF T.fuses[s][t] = 0 THEN rows[s][t] ELSE T.fuses[s][t]
<1>1. PICK warned, frozen : warned = rows["fuse-warn"] /\ frozen = rows["fuse"]
  OBVIOUS
<1>2. PICK V : V = WithFuses(T, "fuse-warn", warned)
  OBVIOUS
<1>3. U = WithFuses(V, "fuse", frozen)
  BY <1>1, <1>2 DEF Fuses
<1>4. /\ {"fuse", "fuse-warn"} = Stage /\ "fuse" \in Stage /\ "fuse-warn" \in Stage
      /\ "fuse" # "fuse-warn"
      /\ warned \in [Tags -> Nat] /\ frozen \in [Tags -> Nat]
  BY <1>1 DEF Stage
<1>5. /\ Columns(V) /\ V.bounces = T.bounces /\ V.revisions = T.revisions
      /\ V.messages = T.messages /\ V.interventions = T.interventions
      /\ V.token_usage = T.token_usage
      /\ \A t \in Tags : /\ V.fuses["fuse-warn"][t] =
                                IF T.fuses["fuse-warn"][t] = 0 THEN warned[t]
                                ELSE T.fuses["fuse-warn"][t]
                         /\ V.fuses["fuse"][t] = T.fuses["fuse"][t]
  <2>1. /\ Columns(V)
        /\ \A t \in Tags :
              /\ V.fuses["fuse-warn"][t] = IF T.fuses["fuse-warn"][t] = 0 THEN warned[t]
                                        ELSE T.fuses["fuse-warn"][t]
              /\ \A s \in Stage : s # "fuse-warn" => V.fuses[s][t] = T.fuses[s][t]
        /\ \A c \in {"messages", "interventions", "bounces", "revisions", "token_usage"} :
              V[c] = T[c]
    BY <1>2, <1>4, AllFuses
  <2>. QED  BY <1>4, <2>1
<1>6. /\ Columns(U) /\ U.bounces = V.bounces /\ U.revisions = V.revisions
      /\ U.messages = V.messages /\ U.interventions = V.interventions
      /\ U.token_usage = V.token_usage
      /\ \A t \in Tags : /\ U.fuses["fuse"][t] =
                                IF V.fuses["fuse"][t] = 0 THEN frozen[t]
                                ELSE V.fuses["fuse"][t]
                         /\ U.fuses["fuse-warn"][t] = V.fuses["fuse-warn"][t]
  <2>1. Columns(V)
    BY <1>5
  <2>2. /\ Columns(U)
        /\ \A t \in Tags :
              /\ U.fuses["fuse"][t] = IF V.fuses["fuse"][t] = 0 THEN frozen[t]
                                        ELSE V.fuses["fuse"][t]
              /\ \A s \in Stage : s # "fuse" => U.fuses[s][t] = V.fuses[s][t]
        /\ \A c \in {"messages", "interventions", "bounces", "revisions", "token_usage"} :
              U[c] = V[c]
    BY <1>3, <1>4, <2>1, AllFuses
  <2>. QED  BY <1>4, <2>2
<1>7. ASSUME Whole(T), Articles(T)
      PROVE  Whole(U) /\ Articles(U) /\ Extends(T, U)
  <2>1. Whole(V) /\ Articles(V) /\ Extends(T, V)
    BY <1>2, <1>4, <1>7, FusesKeep
  <2>2. Whole(U) /\ Articles(U) /\ Extends(V, U)
    BY <1>3, <1>4, <1>5, <2>1, FusesKeep
  <2>3. Extends(T, U)
    <3>1. T.messages \subseteq U.messages
      BY <2>1, <2>2 DEF Extends
    <3>2. ASSUME NEW t \in Tags, T.created_at[t] # 0
          PROVE  U.created_at[t] \in 1 .. T.created_at[t]
      <4>1. T.created_at[t] \in Nat
        BY DEF Columns
      <4>2. V.created_at[t] \in 1 .. T.created_at[t]
        BY <2>1, <3>2 DEF Extends
      <4>3. V.created_at[t] # 0
        BY <4>2
      <4>4. U.created_at[t] \in 1 .. V.created_at[t]
        BY <2>2, <4>3 DEF Extends
      <4>. QED  BY <4>1, <4>2, <4>4
    <3>3. \A t \in Tags : T.title[t] # NoTitle => U.title[t] # NoTitle
      BY <2>1, <2>2 DEF Extends
    <3>4. \A k \in Tags \X (1 .. Now) : T.interventions[k] = 1 => U.interventions[k] = 1
      BY <2>1, <2>2 DEF Extends
    <3>5. \A r \in T.revisions : \E s \in U.revisions :
              s.tag = r.tag /\ s.to_agent = r.to_agent /\ s.occurred_at = r.occurred_at
      BY <1>5, <1>6
    <3>. QED  BY <3>1, <3>2, <3>3, <3>4, <3>5 DEF Extends
  <2>. QED  BY <2>2, <2>3
<1>. QED  BY <1>1, <1>4, <1>5, <1>6, <1>7

-----------------------------------------------------------------------------
(* The log.                                                                *)

\* What a pass may do to the tables of the collector and to the bounces.
LEMMA BouncesForm ==
    ASSUME Types, RowsInv, Steps
    PROVE  /\ db' \in {db, tx}
           /\ \/ tx' \in {db, tx} \/ tx'.bounces = tx.bounces
              \/ /\ pc = "maildir" /\ tx' = WithLog(tx)
<1>. USE DEF Types
<1>1. Columns(tx)
  BY DEF RowsInv
<1>2. CASE Start
  BY <1>2 DEF Start
<1>3. CASE StoreMessage
  <2>1. PICK m \in Mails, cycle \in Nat : db' = db /\ tx' = Added(tx, m, cycle)
    BY <1>3, StoreForm
  <2>. QED  BY <1>1, <2>1, AddedMail
<1>4. CASE CollectPostfixLog
  BY <1>4 DEF CollectPostfixLog
<1>5. CASE FirstSelect \/ ReviewForm
  BY <1>5 DEF FirstSelect, ReviewForm, SubmitForm, OpenForm
<1>6. CASE SecondSelect \/ SecondSelectRefused
  <2>1. PICK rows \in [Stage -> [Tags -> Nat]] : db' = db /\ tx' = Fuses(tx, rows)
    <3>1. selected \in [Stage -> [Tags -> Nat]]
      BY DEF ProcessTypes
    <3>2. Select(Queries[2]) \in [Stage -> [Tags -> Nat]]
      <4>1. Select(Queries[2]) = [selected EXCEPT !["fuse-warn"] = warned_threads]
        BY DEF Select, Queries
      <4>. QED  BY <3>1, <4>1 DEF SourceTypes
    <3>. QED  BY <1>6, <3>1, <3>2 DEF SecondSelect, SecondSelectRefused, StoreFuses, Fuses
  <2>. QED  BY <1>1, <2>1, BothFuses
<1>7. CASE CollectTokenUsage
  <2>1. \A c \in ColumnNames \ {"token_usage"} : tx'[c] = tx[c]
    BY <1>1, <1>7, TokensKeep
  <2>. QED  BY <1>7, <2>1 DEF ColumnNames, CollectTokenUsage
<1>8. CASE SyncPublicStatuses
  <2>1. db' = db /\ tx' = WithStatuses(tx)
    BY <1>8 DEF SyncPublicStatuses
  <2>2. Whole(tx) /\ Articles(tx) /\ articles_json \in [Tags -> Statuses \cup {NoStatus}]
    BY DEF RowsInv, SourceTypes
  <2>. QED  BY <1>1, <2>1, <2>2, StatusesKeep
<1>9. CASE LogRaises \/ SyncRaises \/ Commit \/ Fail
  BY <1>9 DEF LogRaises, SyncRaises, Commit, Fail
<1>. QED  BY <1>2, <1>3, <1>4, <1>5, <1>6, <1>7, <1>8, <1>9 DEF Steps, Pass

LEMMA LogStep ==
    ASSUME Types, RowsInv, LogInv, [Next]_vars
    PROVE  LogInv'
<1>. USE DEF Types
<1>1. today \in Days /\ today' \in Days
  <2>1. Types'
    BY TypesStep
  <2>. QED  BY <2>1 DEF SourceTypes
<1>2. CASE Steps
  <2>1. today' = today /\ mail_log' = mail_log
    BY <1>2, ProcessTypesStep DEF sources, logs
  <2>2. Columns(tx)
    BY DEF RowsInv
  <2>3. Dated(tx')
    <3>1. CASE tx' \in {db, tx}
      BY <3>1 DEF LogInv
    <3>2. CASE tx'.bounces = tx.bounces
      BY <3>2 DEF LogInv, Dated
    <3>3. CASE pc = "maildir" /\ tx' = WithLog(tx)
      <4>1. log_year \in Nat /\ log_year <= YearOf[today] /\ mail_log \in [Lines -> Days \cup {0}]
            /\ Dated(tx) /\ \A l \in Lines : mail_log[l] <= today
        BY <3>3 DEF LogInv, ProcessTypes, SourceTypes
      <4>. QED  BY <1>1, <2>2, <3>3, <4>1, LogDated
    <3>. QED  BY <1>2, <3>1, <3>2, <3>3, BouncesForm
  <2>4. Dated(db')
    <3>1. db' \in {db, tx}
      BY <1>2, BouncesForm
    <3>. QED  BY <3>1 DEF LogInv
  <2>5. pc' # "off" => log_year' <= YearOf[today']
    <3>1. YearOf[today] \in Nat
      BY <1>1, RecordAssumption
    <3>2. CASE Start
      BY <2>1, <3>1, <3>2 DEF Start
    <3>3. CASE ~Start
      <4>1. pc' # "off" => pc # "off" /\ log_year' = log_year
        BY <1>2, <3>3 DEF Steps, Pass, StoreMessage, CollectPostfixLog, FirstSelect,
              SecondSelect, SecondSelectRefused, StoreFuses, CollectTokenUsage,
              SyncPublicStatuses, LogRaises, SyncRaises, Commit, Fail, Exit, ReviewForm, SubmitForm,
              OpenForm, local
      <4>. QED  BY <2>1, <4>1 DEF LogInv
    <3>. QED  BY <3>2, <3>3
  <2>. QED  BY <2>1, <2>3, <2>4, <2>5 DEF LogInv, Dated
<1>3. CASE Environment
  <2>1. /\ UNCHANGED <<db, tx, pc, log_year>> /\ today <= today'
        /\ \A l \in Lines : \/ mail_log'[l] = mail_log[l]
                            \/ mail_log[l] = 0 /\ mail_log'[l] = today
    BY <1>3, EnvironmentStep DEF local
  <2>2. YearOf[today] <= YearOf[today'] /\ YearOf[today] \in Nat /\ YearOf[today'] \in Nat
    BY <1>1, <2>1, YearsGrow, RecordAssumption
  <2>3. today \in Nat /\ today' \in Nat /\ \A l \in Lines : mail_log[l] \in Nat
    <3>1. mail_log \in [Lines -> Days \cup {0}] /\ Days \subseteq Nat
      BY SessionAssumption DEF SourceTypes
    <3>2. \A l \in Lines : mail_log[l] \in Days \cup {0}
      BY <3>1
    <3>3. ASSUME NEW l \in Lines PROVE mail_log[l] \in Nat
      <4>1. mail_log[l] \in Days \/ mail_log[l] = 0
        BY <3>2
      <4>2. CASE mail_log[l] = 0
        BY <4>2
      <4>. QED  BY <3>1, <4>1, <4>2, Zenon
    <3>4. today \in Nat /\ today' \in Nat
      BY <1>1, <3>1
    <3>. QED  BY <3>3, <3>4
  <2>4. \A l \in Lines : mail_log[l] # 0 => mail_log'[l] = mail_log[l]
    BY <2>1
  <2>5. \A l \in Lines : mail_log'[l] <= today'
    BY <2>1, <2>3 DEF LogInv
  <2>6. ASSUME NEW T, T \in {db, tx}, NEW row \in T.bounces
        PROVE  /\ row \in Bounce /\ row.line \in Lines /\ mail_log'[row.line] # 0
               /\ row.year \in Nat /\ row.year <= YearOf[today']
               /\ Line[row.line].stamp = "iso" => row.year = YearOf[mail_log'[row.line]]
    <3>1. /\ row \in Bounce /\ row.line \in Lines /\ mail_log[row.line] # 0
          /\ row.year \in Nat /\ row.year <= YearOf[today]
          /\ Line[row.line].stamp = "iso" => row.year = YearOf[mail_log[row.line]]
          /\ mail_log'[row.line] = mail_log[row.line]
      BY <2>4, <2>6 DEF LogInv, Dated
    <3>. QED  BY <2>2, <3>1
  <2>7. pc' # "off" => log_year' <= YearOf[today']
    <3>1. log_year \in Nat
      BY DEF ProcessTypes
    <3>. QED  BY <2>1, <2>2, <3>1 DEF LogInv
  <2>. QED  BY <2>1, <2>5, <2>6, <2>7 DEF LogInv, Dated
<1>4. CASE UNCHANGED vars
  BY <1>4 DEF LogInv, Dated, vars, sources, logs, local
<1>. QED  BY <1>2, <1>3, <1>4 DEF Next, Steps

-----------------------------------------------------------------------------
(* The tables and their foreign keys.                                      *)

\* A transaction only ever adds to what its tables tell of.
LEMMA RowsKept ==
    ASSUME RowsInv, db' = db, quality_reviews' = quality_reviews,
           Columns(tx'), Whole(tx'), Articles(tx'), Extends(tx, tx')
    PROVE  RowsInv'
<1>1. db'.messages \subseteq tx'.messages
  BY DEF RowsInv, Extends
<1>2. ASSUME NEW t \in Tags, db.created_at[t] # 0
      PROVE  tx'.created_at[t] # 0
  <2>1. tx'.created_at[t] \in 1 .. tx.created_at[t]
    BY <1>2 DEF RowsInv, Extends
  <2>. QED  BY <2>1
<1>. QED  BY <1>1, <1>2 DEF RowsInv

LEMMA RowsStep ==
    ASSUME Types, RowsInv, LogInv, [Next]_vars
    PROVE  RowsInv'
<1>. USE DEF Types
<1>1. Columns(tx) /\ Whole(tx) /\ Articles(tx) /\ Columns(db) /\ Whole(db) /\ Articles(db)
  BY DEF RowsInv
<1>2. CASE Start \/ LogRaises \/ SyncRaises \/ Fail
  <2>1. tx' = db /\ db' = db /\ quality_reviews' = quality_reviews
    BY <1>2 DEF Start, LogRaises, SyncRaises, Fail, review
  <2>. QED  BY <2>1 DEF RowsInv
<1>3. CASE StoreMessage
  <2>1. PICK m \in Mails, cycle \in Nat : /\ tx' = Added(tx, m, cycle) /\ db' = db
                                          /\ quality_reviews' = quality_reviews
    BY <1>3, StoreForm DEF review
  <2>2. Columns(tx') /\ Extends(tx, tx')
    BY <1>1, <2>1, AddedMail
  <2>3. Whole(tx') /\ Articles(tx')
    BY <1>1, <2>1, AddedKeeps
  <2>. QED  BY <2>1, <2>2, <2>3, RowsKept
<1>4. CASE CollectPostfixLog
  <2>1. tx' = WithLog(tx) /\ db' = db /\ quality_reviews' = quality_reviews
    BY <1>4 DEF CollectPostfixLog, review
  <2>2. /\ log_year \in Nat /\ log_year <= YearOf[today] /\ mail_log \in [Lines -> Days \cup {0}]
        /\ Dated(tx) /\ \A l \in Lines : mail_log[l] <= today
        /\ today \in Days
    BY <1>4 DEF LogInv, ProcessTypes, SourceTypes, CollectPostfixLog
  <2>3. Columns(tx') /\ \A c \in ColumnNames \ {"bounces"} : tx'[c] = tx[c]
    BY <1>1, <2>1, <2>2, LogDated
  <2>4. Whole(tx') /\ Articles(tx') /\ Extends(tx, tx')
    <3>1. \A c \in ColumnNames \ {"bounces", "token_usage"} : tx'[c] = tx[c]
      BY <2>3
    <3>. QED  BY <1>1, <2>3, <3>1, OtherTables
  <2>. QED  BY <2>1, <2>3, <2>4, RowsKept
<1>5. CASE SecondSelect \/ SecondSelectRefused
  <2>1. PICK rows \in [Stage -> [Tags -> Nat]] :
            tx' = Fuses(tx, rows) /\ db' = db /\ quality_reviews' = quality_reviews
    <3>1. selected \in [Stage -> [Tags -> Nat]]
      BY DEF ProcessTypes
    <3>2. Select(Queries[2]) \in [Stage -> [Tags -> Nat]]
      <4>1. Select(Queries[2]) = [selected EXCEPT !["fuse-warn"] = warned_threads]
        BY DEF Select, Queries
      <4>. QED  BY <3>1, <4>1 DEF SourceTypes
    <3>. QED  BY <1>5, <3>1, <3>2 DEF SecondSelect, SecondSelectRefused, StoreFuses, Fuses, review
  <2>2. Columns(tx') /\ Whole(tx') /\ Articles(tx') /\ Extends(tx, tx')
    BY <1>1, <2>1, BothFuses
  <2>. QED  BY <2>1, <2>2, RowsKept
<1>6. CASE CollectTokenUsage
  <2>1. /\ Columns(tx') /\ \A c \in ColumnNames \ {"token_usage"} : tx'[c] = tx[c]
        /\ db' = db /\ quality_reviews' = quality_reviews
    BY <1>1, <1>6, TokensKeep DEF review
  <2>2. Whole(tx') /\ Articles(tx') /\ Extends(tx, tx')
    <3>1. \A c \in ColumnNames \ {"bounces", "token_usage"} : tx'[c] = tx[c]
      BY <2>1
    <3>. QED  BY <1>1, <2>1, <3>1, OtherTables
  <2>. QED  BY <2>1, <2>2, RowsKept
<1>7. CASE SyncPublicStatuses
  <2>1. tx' = WithStatuses(tx) /\ db' = db /\ quality_reviews' = quality_reviews
    BY <1>7 DEF SyncPublicStatuses, review
  <2>2. articles_json \in [Tags -> Statuses \cup {NoStatus}]
    BY DEF SourceTypes
  <2>3. Columns(tx') /\ Whole(tx') /\ Articles(tx') /\ Extends(tx, tx')
    BY <1>1, <2>1, <2>2, StatusesKeep
  <2>. QED  BY <2>1, <2>3, RowsKept
<1>8. CASE Commit
  <2>1. tx' = tx /\ db' = tx /\ quality_reviews' = quality_reviews
    BY <1>8 DEF Commit, review
  <2>. QED  BY <2>1 DEF RowsInv
<1>9. CASE FirstSelect \/ Environment \/ \E t \in Tags : OpenForm(t)
  <2>1. tx' = tx /\ db' = db /\ quality_reviews' = quality_reviews
    BY <1>9 DEF FirstSelect, Environment, OpenForm, review
  <2>. QED  BY <2>1 DEF RowsInv
<1>10. CASE SubmitForm
  <2>1. tx' = tx /\ db' = db
    BY <1>10 DEF SubmitForm
  <2>2. \A t \in Tags : quality_reviews'[t] # 0 => db.created_at[t] # 0
    <3>1. CASE db.created_at[form] = 0
      BY <1>10, <3>1 DEF SubmitForm, RowsInv
    <3>2. CASE db.created_at[form] # 0
      <4>1. quality_reviews' = [quality_reviews EXCEPT ![form] = @ + 1]
        BY <1>10, <3>2 DEF SubmitForm
      <4>2. \A t \in Tags : t # form => quality_reviews'[t] = quality_reviews[t]
        BY <4>1 DEF ProcessTypes
      <4>. QED  BY <3>2, <4>2 DEF RowsInv
    <3>. QED  BY <3>1, <3>2
  <2>. QED  BY <2>1, <2>2 DEF RowsInv
<1>11. CASE UNCHANGED vars
  BY <1>11 DEF vars, review, RowsInv
<1>. QED  BY <1>2, <1>3, <1>4, <1>5, <1>6, <1>7, <1>8, <1>9, <1>10, <1>11
          DEF Next, Pass, ReviewForm

-----------------------------------------------------------------------------
(* The fuse.                                                               *)

\* The rows that the two SELECTs of a pass found.
LEMMA Selected ==
    ASSUME ProcessTypes, SourceTypes, SecondSelect \/ SecondSelectRefused
    PROVE  \E rows \in [Stage -> [Tags -> Nat]] :
             /\ tx' = Fuses(tx, rows) /\ selected' = NoRows
             /\ rows["fuse"] = selected["fuse"]
             /\ \/ rows["fuse-warn"] = warned_threads /\ refusals' = refusals
                \/ refusals' = refusals + 1
             /\ UNCHANGED <<sources, db>>
<1>1. PICK found : found = [selected EXCEPT !["fuse-warn"] = warned_threads]
  OBVIOUS
<1>2. selected \in [Stage -> [Tags -> Nat]] /\ warned_threads \in [Tags -> Nat]
  BY DEF ProcessTypes, SourceTypes
<1>3. /\ found \in [Stage -> [Tags -> Nat]] /\ found["fuse-warn"] = warned_threads
      /\ found["fuse"] = selected["fuse"]
  BY <1>1, <1>2 DEF Stage
<1>4. CASE SecondSelect
  <2>1. /\ tx' = Fuses(tx, found) /\ selected' = NoRows /\ refusals' = refusals
        /\ UNCHANGED <<sources, db>>
    BY <1>1, <1>4 DEF SecondSelect, StoreFuses, Select, Queries, Fuses
  <2>. QED  BY <1>3, <2>1
<1>5. CASE SecondSelectRefused
  <2>1. /\ tx' = Fuses(tx, selected) /\ selected' = NoRows /\ refusals' = refusals + 1
        /\ UNCHANGED <<sources, db>>
    BY <1>5 DEF SecondSelectRefused, StoreFuses, Fuses
  <2>. QED  BY <1>2, <2>1
<1>. QED  BY <1>4, <1>5

LEMMA FusesStep ==
    ASSUME Types, RowsInv, FusesInv, [Next]_vars
    PROVE  FusesInv'
<1>. USE DEF Types
<1>1. Columns(tx) /\ Whole(tx) /\ Articles(tx)
  BY DEF RowsInv
<1>2. CASE Start \/ LogRaises \/ SyncRaises \/ Fail \/ Commit \/ ReviewForm
  <2>1. /\ tx' \in {db, tx} /\ db' \in {db, tx}
        /\ UNCHANGED <<frozen_threads, warned_threads, unfreezes, refusals>>
        /\ selected' = selected \/ selected' = NoRows
    BY <1>2 DEF Start, LogRaises, SyncRaises, Fail, Commit, Exit, ReviewForm, SubmitForm, OpenForm,
            sources, newsroom, fuse, faults, local
  <2>. QED  BY <2>1 DEF FusesInv, Tripped, NoRows, Stage
<1>3. CASE StoreMessage \/ CollectPostfixLog \/ CollectTokenUsage \/ SyncPublicStatuses
  <2>1. /\ UNCHANGED <<frozen_threads, warned_threads, unfreezes, refusals, selected, db>>
    BY <1>3 DEF StoreMessage, CollectPostfixLog, CollectTokenUsage, SyncPublicStatuses,
            sources, newsroom, fuse, faults, local
  <2>2. \A t \in Tags, s \in Stage : tx'.fuses[s][t] = tx.fuses[s][t]
    <3>1. CASE StoreMessage
      <4>1. PICK m \in Mails, cycle \in Nat : tx' = Added(tx, m, cycle)
        BY <3>1, StoreForm
      <4>. QED  BY <1>1, <4>1, AddedMail
    <3>2. CASE CollectPostfixLog
      <4>1. PICK bounces : tx' = [tx EXCEPT !.bounces = bounces]
        BY <3>2 DEF CollectPostfixLog, WithLog
      <4>. QED  BY <1>1, <4>1 DEF Columns, ColumnNames
    <3>3. CASE CollectTokenUsage
      <4>1. \A c \in ColumnNames \ {"token_usage"} : tx'[c] = tx[c]
        BY <1>1, <3>3, TokensKeep
      <4>. QED  BY <4>1 DEF ColumnNames
    <3>4. CASE SyncPublicStatuses
      <4>1. tx' = WithStatuses(tx) /\ articles_json \in [Tags -> Statuses \cup {NoStatus}]
        BY <3>4 DEF SyncPublicStatuses, SourceTypes
      <4>. QED  BY <1>1, <4>1, StatusesKeep
    <3>. QED  BY <1>3, <3>1, <3>2, <3>3, <3>4
  <2>3. "fuse" \in Stage /\ "fuse-warn" \in Stage
    BY DEF Stage
  <2>. QED  BY <2>1, <2>2, <2>3 DEF FusesInv, Tripped
<1>4. CASE FirstSelect
  <2>1. /\ selected' = [selected EXCEPT !["fuse"] = frozen_threads]
        /\ UNCHANGED <<frozen_threads, warned_threads, unfreezes, refusals, tx, db>>
    BY <1>4 DEF FirstSelect, Select, Queries, sources, newsroom, fuse, faults
  <2>2. selected'["fuse"] = frozen_threads
    BY <2>1 DEF ProcessTypes, Stage
  <2>. QED  BY <2>1, <2>2 DEF FusesInv, Tripped
<1>5. CASE SecondSelect \/ SecondSelectRefused
  <2>1. PICK rows \in [Stage -> [Tags -> Nat]] :
             /\ tx' = Fuses(tx, rows) /\ selected' = NoRows
             /\ rows["fuse"] = selected["fuse"]
             /\ \/ rows["fuse-warn"] = warned_threads /\ refusals' = refusals
                \/ refusals' = refusals + 1
             /\ UNCHANGED <<sources, db>>
    BY <1>5, Selected
  <2>2. /\ UNCHANGED <<frozen_threads, warned_threads, unfreezes, db>>
        /\ "fuse" \in Stage /\ "fuse-warn" \in Stage
    BY <2>1 DEF sources, newsroom, fuse, Stage
  <2>3. \A t \in Tags, s \in Stage :
            tx'.fuses[s][t] = IF tx.fuses[s][t] = 0 THEN rows[s][t] ELSE tx.fuses[s][t]
    BY <1>1, <2>1, BothFuses
  <2>4. refusals' = 0 => refusals = 0 /\ rows["fuse-warn"] = warned_threads
    <3>1. refusals \in Nat
      BY DEF ProcessTypes
    <3>. QED  BY <2>1, <3>1
  <2>5. ASSUME NEW t \in Tags
        PROVE  /\ Tripped(tx.fuses["fuse"][t], tx.fuses["fuse-warn"][t], t)
               /\ Tripped(db.fuses["fuse"][t], db.fuses["fuse-warn"][t], t)
               /\ rows["fuse"][t] # 0 /\ unfreezes[t] = 0 => frozen_threads[t] # 0
               /\ tx'.fuses["fuse"][t] # 0 => tx.fuses["fuse"][t] # 0 \/ rows["fuse"][t] # 0
               /\ tx.fuses["fuse-warn"][t] # 0 \/ rows["fuse-warn"][t] # 0 =>
                    tx'.fuses["fuse-warn"][t] # 0
    BY <2>1, <2>2, <2>3 DEF FusesInv
  <2>6. ASSUME NEW t \in Tags, tx'.fuses["fuse"][t] # 0, unfreezes[t] = 0
        PROVE  /\ frozen_threads[t] # 0
               /\ warned_threads[t] # 0 /\ refusals' = 0 => tx'.fuses["fuse-warn"][t] # 0
    BY <2>4, <2>5, <2>6 DEF Tripped
  <2>7. ASSUME NEW t \in Tags, db.fuses["fuse"][t] # 0, unfreezes[t] = 0
        PROVE  /\ frozen_threads[t] # 0
               /\ warned_threads[t] # 0 /\ refusals' = 0 => db.fuses["fuse-warn"][t] # 0
    BY <2>4, <2>5, <2>7 DEF Tripped
  <2>8. \A t \in Tags : selected'["fuse"][t] = 0
    BY <2>1, <2>2 DEF NoRows
  <2>. QED  BY <2>2, <2>6, <2>7, <2>8 DEF FusesInv, Tripped
<1>6. CASE Environment
  <2>1. UNCHANGED <<db, tx, selected, refusals>>
    BY <1>6 DEF Environment, local, faults
  <2>2. ASSUME NEW t \in Tags, unfreezes'[t] = 0
        PROVE  /\ unfreezes[t] = 0
               /\ frozen_threads[t] # 0 => frozen_threads'[t] # 0 /\ warned_threads'[t] = warned_threads[t]
    <3>1. unfreezes \in [Tags -> Nat]
      <4>1. unfreezes \in [Tags -> 0 .. MaxUnfreezes]
        BY DEF SourceTypes
      <4>. QED  BY <4>1
    <3>2. frozen_threads \in [Tags -> Nat] /\ warned_threads \in [Tags -> Nat]
      BY DEF SourceTypes
    <3>3. CASE UNCHANGED <<fuse, unfreezes>>
      BY <2>2, <3>3 DEF fuse
    <3>4. ASSUME NEW u \in Tags,
                 \A s \in Tags \ {u} : /\ frozen_threads'[s] = frozen_threads[s]
                                       /\ warned_threads'[s] = warned_threads[s]
                                       /\ unfreezes'[s] = unfreezes[s],
                 WarnThread(u) \/ FreezeThread(u) \/ DeleteFrozen(u) \/ DeleteWarned(u)
          PROVE  /\ unfreezes[t] = 0
                 /\ frozen_threads[t] # 0 => /\ frozen_threads'[t] # 0
                                             /\ warned_threads'[t] = warned_threads[t]
      <4>1. CASE t # u
        BY <2>2, <3>4, <4>1
      <4>2. CASE t = u /\ WarnThread(u)
        BY <2>2, <3>2, <4>2 DEF WarnThread, newsroom
      <4>3. CASE t = u /\ FreezeThread(u)
        BY <2>2, <3>2, <4>3 DEF FreezeThread, newsroom
      <4>4. CASE t = u /\ DeleteFrozen(u)
        <5>1. unfreezes' = [unfreezes EXCEPT ![t] = @ + 1] /\ unfreezes[t] \in Nat
          BY <3>1, <4>4 DEF DeleteFrozen
        <5>2. unfreezes'[t] # 0
          BY <3>1, <5>1
        <5>. QED  BY <2>2, <5>2
      <4>5. CASE t = u /\ DeleteWarned(u)
        BY <2>2, <3>1, <4>5 DEF DeleteWarned, newsroom
      <4>. QED  BY <3>4, <4>1, <4>2, <4>3, <4>4, <4>5
    <3>. QED  BY <1>6, <3>3, <3>4, EnvironmentStep
  <2>. QED  BY <2>1, <2>2 DEF FusesInv, Tripped
<1>7. CASE UNCHANGED vars
  BY <1>7 DEF vars, sources, newsroom, fuse, local, faults, FusesInv, Tripped
<1>. QED  BY <1>2, <1>3, <1>4, <1>5, <1>6, <1>7 DEF Next, Pass

-----------------------------------------------------------------------------
(* The review cycles.                                                      *)

\* The first record of a pass is stored, the others are left.
LEMMA NextRecord ==
    ASSUME records \in Seq(Mails), records # <<>>, records' = Tail(records),
           NEW m, m = Head(records)
    PROVE  /\ m \in Mails /\ Len(records) \in Nat /\ 1 \in 1 .. Len(records) /\ records[1] = m
           /\ records' \in Seq(Mails) /\ Len(records') = Len(records) - 1
           /\ \A i \in 1 .. Len(records') : /\ i + 1 \in 1 .. Len(records)
                                            /\ records'[i] = records[i + 1]
           /\ \A r : Pending(r) => (IsReview(m) /\ RowOf(m, r)) \/ Pending(r)'
<1>1. /\ m \in Mails /\ Len(records) \in Nat /\ 1 \in 1 .. Len(records) /\ records[1] = m
      /\ records' \in Seq(Mails) /\ Len(records') = Len(records) - 1
      /\ \A i \in 1 .. Len(records') : i + 1 \in 1 .. Len(records) /\ records'[i] = records[i + 1]
  OBVIOUS
<1>2. ASSUME NEW r, Pending(r), ~(IsReview(m) /\ RowOf(m, r))
      PROVE  \E i \in 1 .. Len(records') : IsReview(records'[i]) /\ RowOf(records'[i], r)
  <2>1. PICK i \in 1 .. Len(records) : IsReview(records[i]) /\ RowOf(records[i], r)
    BY <1>2 DEF Pending
  <2>2. i # 1
    BY <1>1, <1>2, <2>1
  <2>3. i - 1 \in 1 .. Len(records') /\ (i - 1) + 1 = i
    BY <1>1, <2>1, <2>2
  <2>4. records'[i - 1] = records[i]
    BY <1>1, <2>3
  <2>. QED  BY <2>1, <2>3, <2>4
<1>. QED  BY <1>1, <1>2 DEF Pending

LEMMA StoreCycles ==
    ASSUME Types, RowsInv, CyclesInv, StoreMessage
    PROVE  CyclesInv'
<1>. USE DEF Types
<1>1. PICK m \in Mails, cycle \in Nat :
             /\ pc = "maildir" /\ records # <<>> /\ m = Head(records) /\ records' = Tail(records)
             /\ tx' = Added(tx, m, cycle)
             /\ IsReview(m) =>
                    /\ cycle = revision_cycles[Mail[m].tag] + 1
                    /\ revision_cycles' = [revision_cycles EXCEPT ![Mail[m].tag] = cycle]
             /\ ~IsReview(m) => revision_cycles' = revision_cycles
             /\ UNCHANGED <<sources, db, pc, review, selected, log_year, faults>>
  BY StoreForm
<1>2. /\ records \in Seq(Mails) /\ revision_cycles \in [Tags -> Nat] /\ Columns(tx)
      /\ tx.revisions \subseteq Row
      /\ maildir' = maildir /\ db' = db /\ pc' = pc
  BY <1>1 DEF ProcessTypes, RowsInv, Columns, sources, newsroom
<1>3. /\ Len(records) \in Nat /\ 1 \in 1 .. Len(records) /\ records[1] = m
      /\ records' \in Seq(Mails) /\ Len(records') = Len(records) - 1
      /\ \A i \in 1 .. Len(records') : i + 1 \in 1 .. Len(records) /\ records'[i] = records[i + 1]
      /\ \A r : Pending(r) => (IsReview(m) /\ RowOf(m, r)) \/ Pending(r)'
  BY <1>1, <1>2, NextRecord
<1>4. /\ Sourced(db) /\ Sourced(tx) /\ Ordered(db.revisions) /\ Ordered(Written)
      /\ \A r \in Written : r.cycle_number <= revision_cycles[r.tag] /\ r.occurred_at <= Mail[m].sent_at
      /\ \A i \in 1 .. Len(records) - 1 : BySentAt(records[i], records[i + 1])
      /\ \A i \in 1 .. Len(records) : parse_message(records[i]) /\ maildir[records[i]] > 0
  BY <1>1 DEF CyclesInv
<1>5. /\ \A i \in 1 .. Len(records') - 1 : BySentAt(records'[i], records'[i + 1])
      /\ \A i \in 1 .. Len(records') : parse_message(records'[i]) /\ maildir[records'[i]] > 0
  <2>1. \A i \in 1 .. Len(records') - 1 :
            /\ i \in 1 .. Len(records') /\ i + 1 \in 1 .. Len(records')
            /\ i + 1 \in 1 .. Len(records) - 1
    BY <1>3
  <2>. QED  BY <1>3, <1>4, <2>1
<1>6. records' # <<>> => Mail[m].sent_at <= Mail[Head(records')].sent_at
  <2>1. ASSUME records' # <<>>
        PROVE  1 \in 1 .. Len(records) - 1 /\ Head(records') = records[1 + 1]
    <3>1. Len(records') \in Nat /\ Len(records') # 0 /\ Head(records') = records'[1]
      BY <1>3, <2>1
    <3>. QED  BY <1>3, <3>1
  <2>. QED  BY <1>3, <1>4, <2>1 DEF BySentAt
<1>7. Mail[m].sent_at \in Nat /\ \A r \in Row : r.tag \in Tags /\ r.occurred_at \in Nat /\ r.cycle_number \in Nat
  <2>1. Mail[m].sent_at \in 1 .. Now
    BY MailTypes
  <2>. QED  BY <2>1 DEF Row
<1>8. records' # <<>> => Mail[Head(records')].sent_at \in Nat
  <2>1. records' # <<>> => Head(records') \in Mails
    BY <1>3
  <2>2. \A n \in Mails : Mail[n].sent_at \in 1 .. Now
    BY MailTypes
  <2>. QED  BY <2>1, <2>2
<1>9. Columns(tx) /\ tx' = Added(tx, m, cycle)
  BY <1>1, <1>2
<1>10. CASE ~IsReview(m)
  <2>1. tx'.revisions = tx.revisions /\ revision_cycles' = revision_cycles
    <3>1. tx'.revisions = tx.revisions
      BY <1>10, <1>9, AddedMail
    <3>. QED  BY <1>1, <1>10, <3>1
  <2>2. Written' \subseteq Written
    BY <1>3, <1>10, <2>1 DEF Written
  <2>3. Sourced(tx)'
    BY <1>2, <1>4, <2>1 DEF Sourced
  <2>4. \A r \in Written' : /\ r.cycle_number <= revision_cycles'[r.tag]
                            /\ records' # <<>> => r.occurred_at <= Mail[Head(records')].sent_at
    <3>1. \A r \in Written : r \in Row
      BY <1>2 DEF Written
    <3>. QED  BY <1>4, <1>6, <1>7, <1>8, <2>1, <2>2, <3>1
  <2>. QED  BY <1>1, <1>2, <1>4, <1>5, <2>2, <2>3, <2>4 DEF CyclesInv, Ordered, Sourced
<1>11. CASE IsReview(m)
  <2>1. PICK r \in Row : /\ RowOf(m, r) /\ r.cycle_number = cycle
                         /\ tx'.revisions = {q \in tx.revisions : ~RowOf(m, q)} \cup {r}
    BY <1>11, <1>9, AddedMail
  <2>2. Written' \subseteq Written \cup {r}
    BY <1>3, <2>1 DEF Written
  <2>3. /\ r.tag = Mail[m].tag /\ r.occurred_at = Mail[m].sent_at /\ r.tag \in Tags
        /\ r.cycle_number = revision_cycles[r.tag] + 1
        /\ revision_cycles' = [revision_cycles EXCEPT ![r.tag] = r.cycle_number]
    BY <1>1, <1>7, <1>11, <2>1 DEF RowOf
  <2>4. \A q \in Written : q \in Row /\ q.tag \in Tags
    BY <1>2, <1>7 DEF Written
  <2>5. Sourced(tx)'
    <3>1. maildir'[m] > 0 /\ parse_message(m)
      BY <1>2, <1>3, <1>4
    <3>2. \A q \in tx'.revisions : q \in tx.revisions \/ q = r
      BY <2>1
    <3>. QED  BY <1>2, <1>4, <1>11, <2>1, <3>1, <3>2 DEF Sourced
  <2>6. \A q \in Written' : /\ q.cycle_number <= revision_cycles'[q.tag]
                            /\ records' # <<>> => q.occurred_at <= Mail[Head(records')].sent_at
    <3>1. ASSUME NEW q \in Written
          PROVE  q.cycle_number <= revision_cycles'[q.tag] /\ q.occurred_at <= Mail[m].sent_at
      <4>1. q.cycle_number <= revision_cycles[q.tag] /\ q.occurred_at <= Mail[m].sent_at
        BY <1>4
      <4>2. revision_cycles[q.tag] <= revision_cycles'[q.tag]
        BY <1>2, <2>3, <2>4
      <4>3. q.cycle_number \in Nat /\ revision_cycles[q.tag] \in Nat /\ revision_cycles'[q.tag] \in Nat
        BY <1>2, <1>7, <2>1, <2>3, <2>4
      <4>. QED  BY <4>1, <4>2, <4>3
    <3>2. r.cycle_number <= revision_cycles'[r.tag] /\ r.occurred_at <= Mail[m].sent_at
      BY <1>2, <1>7, <2>1, <2>3
    <3>. QED  BY <1>6, <1>7, <1>8, <2>1, <2>2, <2>4, <3>1, <3>2
  <2>7. Ordered(Written)'
    <3>1. ASSUME NEW p \in Written', NEW q \in Written', p.tag = q.tag, p.occurred_at < q.occurred_at
          PROVE  p.cycle_number < q.cycle_number
      <4>1. CASE p \in Written /\ q \in Written
        BY <1>4, <3>1, <4>1 DEF Ordered
      <4>2. CASE p \in Written /\ q = r
        <5>1. p.cycle_number <= revision_cycles[r.tag]
          BY <1>4, <3>1, <4>2
        <5>. QED  BY <1>2, <1>7, <2>3, <2>4, <4>2, <5>1
      <4>3. CASE q \in Written /\ p = r
        <5>1. q.occurred_at <= p.occurred_at
          BY <1>4, <2>3, <4>3
        <5>. QED  BY <1>7, <2>1, <2>4, <3>1, <4>3, <5>1
      <4>4. CASE p = r /\ q = r
        BY <1>7, <2>1, <3>1, <4>4
      <4>. QED  BY <2>2, <3>1, <4>1, <4>2, <4>3, <4>4
    <3>. QED  BY <3>1 DEF Ordered
  <2>. QED  BY <1>1, <1>2, <1>4, <1>5, <2>5, <2>6, <2>7 DEF CyclesInv, Ordered, Sourced
<1>. QED  BY <1>10, <1>11

LEMMA CyclesStep ==
    ASSUME Types, RowsInv, LogInv, CyclesInv, [Next]_vars
    PROVE  CyclesInv'
<1>. USE DEF Types
<1>1. Columns(tx) /\ Whole(tx) /\ Articles(tx) /\ Columns(db)
  BY DEF RowsInv
<1>2. CASE StoreMessage
  BY <1>2, StoreCycles
<1>3. CASE Start
  <2>1. /\ tx' = db /\ db' = db /\ maildir' = maildir /\ pc' = "maildir"
        /\ records' \in Readings
    BY <1>3 DEF Start, sources, newsroom
  <2>2. /\ records' \in Seq(Mails)
        /\ \A i \in 1 .. Len(records') : parse_message(records'[i]) /\ maildir[records'[i]] > 0
        /\ \A i \in 1 .. Len(records') - 1 : BySentAt(records'[i], records'[i + 1])
        /\ \A m \in Mails : parse_message(m) /\ maildir[m] > 0 =>
             \E i \in 1 .. Len(records') : records'[i] = m
    <3>1. maildir \in [Mails -> Nat]
      BY DEF SourceTypes
    <3>. QED  BY <2>1, <3>1, ReadingsFacts
  <2>3. Written' = {}
    <3>1. ASSUME NEW r \in db.revisions
          PROVE  \E i \in 1 .. Len(records') : IsReview(records'[i]) /\ RowOf(records'[i], r)
      <4>1. PICK m \in Mails : maildir[m] > 0 /\ parse_message(m) /\ IsReview(m) /\ RowOf(m, r)
        BY DEF CyclesInv, Sourced
      <4>. QED  BY <2>2, <4>1
    <3>. QED  BY <2>1, <3>1 DEF Written, Pending
  <2>. QED  BY <2>1, <2>2, <2>3 DEF CyclesInv, Ordered, Sourced
<1>4. CASE LogRaises \/ SyncRaises \/ Fail
  <2>1. tx' = db /\ db' = db /\ maildir' = maildir /\ pc' = "off"
    BY <1>4 DEF LogRaises, SyncRaises, Fail, Exit, sources, newsroom
  <2>. QED  BY <2>1 DEF CyclesInv, Sourced
<1>5. CASE Commit
  <2>1. tx' = tx /\ db' = tx /\ maildir' = maildir /\ pc' = "off" /\ pc = "commit"
    BY <1>5 DEF Commit, Exit, sources, newsroom
  <2>. QED  BY <2>1 DEF CyclesInv, Sourced
<1>6. CASE CollectPostfixLog
  <2>1. /\ db' = db /\ maildir' = maildir /\ pc' = "first_select"
        /\ pc = "maildir" /\ records = <<>>
    BY <1>6 DEF CollectPostfixLog, sources, newsroom
  <2>2. tx'.revisions = tx.revisions
    <3>1. PICK bounces : tx' = [tx EXCEPT !.bounces = bounces]
      BY <1>6 DEF CollectPostfixLog, WithLog
    <3>. QED  BY <1>1, <3>1 DEF Columns, ColumnNames
  <2>3. Written = tx.revisions
    BY <2>1 DEF Written, Pending
  <2>. QED  BY <2>1, <2>2, <2>3 DEF CyclesInv, Sourced
<1>7. CASE \/ FirstSelect \/ SecondSelect \/ SecondSelectRefused
           \/ CollectTokenUsage \/ SyncPublicStatuses
  <2>1. db' = db /\ maildir' = maildir /\ pc # "maildir" /\ pc' # "maildir"
    BY <1>7 DEF FirstSelect, SecondSelect, SecondSelectRefused, StoreFuses, CollectTokenUsage,
            SyncPublicStatuses, sources, newsroom
  <2>2. tx'.revisions = tx.revisions
    <3>1. CASE FirstSelect
      BY <3>1 DEF FirstSelect
    <3>2. CASE SecondSelect \/ SecondSelectRefused
      <4>1. PICK rows \in [Stage -> [Tags -> Nat]] : tx' = Fuses(tx, rows)
        BY <3>2, Selected
      <4>. QED  BY <1>1, <4>1, BothFuses
    <3>3. CASE CollectTokenUsage
      <4>1. \A c \in ColumnNames \ {"token_usage"} : tx'[c] = tx[c]
        BY <1>1, <3>3, TokensKeep
      <4>. QED  BY <4>1 DEF ColumnNames
    <3>4. CASE SyncPublicStatuses
      <4>1. tx' = WithStatuses(tx) /\ articles_json \in [Tags -> Statuses \cup {NoStatus}]
        BY <3>4 DEF SyncPublicStatuses, SourceTypes
      <4>. QED  BY <1>1, <4>1, StatusesKeep
    <3>. QED  BY <1>7, <3>1, <3>2, <3>3, <3>4
  <2>. QED  BY <2>1, <2>2 DEF CyclesInv, Sourced
<1>8. CASE ReviewForm \/ Environment \/ UNCHANGED vars
  <2>1. /\ UNCHANGED <<db, tx, pc, records, revision_cycles>>
        /\ \A m \in Mails : maildir[m] > 0 => maildir'[m] > 0
    <3>1. CASE ReviewForm \/ UNCHANGED vars
      BY <3>1 DEF ReviewForm, SubmitForm, OpenForm, vars, sources, newsroom, local
    <3>2. CASE Environment
      BY <3>2, EnvironmentStep DEF local
    <3>. QED  BY <1>8, <3>1, <3>2
  <2>2. Sourced(db)' /\ Sourced(tx)'
    BY <2>1 DEF CyclesInv, Sourced
  <2>3. Written' = Written
    BY <2>1 DEF Written, Pending
  <2>4. pc = "maildir" =>
            \A i \in 1 .. Len(records) : parse_message(records[i]) /\ maildir'[records[i]] > 0
    <3>1. \A i \in 1 .. Len(records) : records[i] \in Mails
      BY DEF ProcessTypes
    <3>. QED  BY <2>1, <3>1 DEF CyclesInv
  <2>. QED  BY <2>1, <2>2, <2>3, <2>4 DEF CyclesInv, Ordered
<1>. QED  BY <1>2, <1>3, <1>4, <1>5, <1>6, <1>7, <1>8 DEF Next, Pass

-----------------------------------------------------------------------------
(* The mails behind the rows.                                              *)

LEMMA AddedBacked ==
    ASSUME NEW T, Columns(T), Backed(T), NEW m \in Mails, NEW cycle \in Nat,
           NEW U, U = Added(T, m, cycle)
    PROVE  Backed(U)
<1>1. /\ Columns(U) /\ Recorded(U, m) /\ U.messages = T.messages \cup Recipients(m)
      /\ \A k \in Slots : k # <<Mail[m].tag, Mail[m].sent_at>> =>
               U.interventions[k] = T.interventions[k]
      /\ Mail[m].sender # Director => U.interventions = T.interventions
      /\ ~IsReview(m) => U.revisions = T.revisions
      /\ IsReview(m) => \E r \in Row : RowOf(m, r) /\ r.cycle_number = cycle
                        /\ U.revisions = {q \in T.revisions : ~RowOf(m, q)} \cup {r}
  BY AddedMail
<1>2. ASSUME NEW t \in Tags, NEW at \in 1 .. Now, U.interventions[<<t, at>>] # 0
      PROVE  /\ U.interventions[<<t, at>>] = 1
             /\ \E n \in Mails : /\ Recipients(n) \subseteq U.messages
                                 /\ Mail[n].tag = t /\ Mail[n].sent_at = at
                                 /\ Mail[n].sender = Director
  <2>1. CASE <<t, at>> # <<Mail[m].tag, Mail[m].sent_at>> \/ Mail[m].sender # Director
    <3>1. U.interventions[<<t, at>>] = T.interventions[<<t, at>>]
      <4>1. <<t, at>> \in Slots
        BY DEF Slots
      <4>. QED  BY <1>1, <2>1, <4>1
    <3>. QED  BY <1>1, <1>2, <3>1 DEF Backed
  <2>2. CASE <<t, at>> = <<Mail[m].tag, Mail[m].sent_at>> /\ Mail[m].sender = Director
    <3>1. Mail[m].tag = t /\ Mail[m].sent_at = at /\ t # NoTag
      BY <2>2, NameAssumption
    <3>2. U.interventions[<<t, at>>] = 1 /\ Recipients(m) \subseteq U.messages
      BY <1>1, <2>2, <3>1 DEF Recorded
    <3>. QED  BY <2>2, <3>1, <3>2
  <2>. QED  BY <2>1, <2>2
<1>3. ASSUME NEW r \in U.revisions
      PROVE  \E n \in Mails : Recipients(n) \subseteq U.messages /\ IsReview(n) /\ RowOf(n, r)
  <2>1. r \in T.revisions \/ (IsReview(m) /\ RowOf(m, r))
    BY <1>1
  <2>2. Recipients(m) \subseteq U.messages /\ T.messages \subseteq U.messages
    BY <1>1
  <2>. QED  BY <2>1, <2>2 DEF Backed
<1>4. ASSUME NEW n \in Mails, NEW r \in U.revisions, NEW s \in U.revisions, RowOf(n, r), RowOf(n, s)
      PROVE  r = s
  <2>1. CASE ~IsReview(m)
    BY <1>1, <1>4, <2>1 DEF Backed
  <2>2. CASE IsReview(m)
    <3>1. PICK row : RowOf(m, row) /\ U.revisions = {q \in T.revisions : ~RowOf(m, q)} \cup {row}
      BY <1>1, <2>2
    <3>2. RowOf(m, r) <=> RowOf(m, s)
      BY <1>4 DEF RowOf
    <3>3. CASE RowOf(m, r)
      BY <3>1, <3>2, <3>3
    <3>4. CASE ~RowOf(m, r)
      BY <1>4, <3>1, <3>2, <3>4 DEF Backed
    <3>. QED  BY <3>3, <3>4
  <2>. QED  BY <2>1, <2>2
<1>. QED  BY <1>2, <1>3, <1>4 DEF Backed

LEMMA BackedStep ==
    ASSUME Types, RowsInv, BackedInv, [Next]_vars
    PROVE  BackedInv'
<1>. USE DEF Types
<1>1. Columns(tx) /\ Whole(tx) /\ Articles(tx)
  BY DEF RowsInv
<1>2. CASE StoreMessage
  <2>1. PICK m \in Mails, cycle \in Nat : tx' = Added(tx, m, cycle) /\ db' = db
    BY <1>2, StoreForm
  <2>2. Backed(tx')
    BY <1>1, <2>1, AddedBacked DEF BackedInv
  <2>. QED  BY <2>1, <2>2 DEF BackedInv
<1>3. CASE Start \/ LogRaises \/ SyncRaises \/ Fail \/ Commit \/ FirstSelect \/ ReviewForm \/ Environment
           \/ UNCHANGED vars
  <2>1. tx' \in {db, tx} /\ db' \in {db, tx}
    BY <1>3 DEF Start, LogRaises, SyncRaises, Fail, Commit, FirstSelect, ReviewForm, SubmitForm, OpenForm,
            Environment, vars
  <2>. QED  BY <2>1 DEF BackedInv
<1>4. CASE \/ CollectPostfixLog \/ SecondSelect \/ SecondSelectRefused
           \/ CollectTokenUsage \/ SyncPublicStatuses
  <2>1. db' = db
    BY <1>4 DEF CollectPostfixLog, SecondSelect, SecondSelectRefused, StoreFuses,
            CollectTokenUsage, SyncPublicStatuses
  <2>2. /\ tx'.messages = tx.messages /\ tx'.interventions = tx.interventions
        /\ tx'.revisions = tx.revisions
    <3>1. CASE CollectPostfixLog
      <4>1. PICK bounces : tx' = [tx EXCEPT !.bounces = bounces]
        BY <3>1 DEF CollectPostfixLog, WithLog
      <4>. QED  BY <1>1, <4>1 DEF Columns, ColumnNames
    <3>2. CASE SecondSelect \/ SecondSelectRefused
      <4>1. PICK rows \in [Stage -> [Tags -> Nat]] : tx' = Fuses(tx, rows)
        BY <3>2, Selected
      <4>. QED  BY <1>1, <4>1, BothFuses
    <3>3. CASE CollectTokenUsage
      <4>1. \A c \in ColumnNames \ {"token_usage"} : tx'[c] = tx[c]
        BY <1>1, <3>3, TokensKeep
      <4>. QED  BY <4>1 DEF ColumnNames
    <3>4. CASE SyncPublicStatuses
      <4>1. tx' = WithStatuses(tx) /\ articles_json \in [Tags -> Statuses \cup {NoStatus}]
        BY <3>4 DEF SyncPublicStatuses, SourceTypes
      <4>. QED  BY <1>1, <4>1, StatusesKeep
    <3>. QED  BY <1>4, <3>1, <3>2, <3>3, <3>4
  <2>. QED  BY <2>1, <2>2 DEF BackedInv, Backed
<1>. QED  BY <1>2, <1>3, <1>4 DEF Next, Pass

-----------------------------------------------------------------------------
(* The columns of the report.                                              *)

LEMMA ReportColumns ==
    ASSUME Columns(db), Whole(db), Backed(db), NEW t \in Tags
    PROVE  Cardinality(InterventionsOf(t)) + Cardinality({r \in db.revisions : r.tag = t})
             <= Cardinality(MessagesOf(t))
<1>. DEFINE Sent == {m \in MessagesOf(t) : Mail[m].sender = Director}
            Reviewed == {m \in MessagesOf(t) : IsReview(m)}
            Reviews == {r \in db.revisions : r.tag = t}
            slot == [m \in Sent |-> <<Mail[m].sent_at, 1>>]
            row == [m \in Reviewed |-> CHOOSE r \in Reviews : RowOf(m, r)]
<1>1. MessagesOf(t) \subseteq Mails /\ IsFiniteSet(MessagesOf(t))
  <2>1. MessagesOf(t) \subseteq Mails
    BY DEF MessagesOf, Columns
  <2>2. IsFiniteSet(Mails)
    BY RecordAssumption
  <2>. QED  BY <2>1, <2>2, FS_Subset
<1>2. /\ IsFiniteSet(Sent) /\ IsFiniteSet(Reviewed) /\ IsFiniteSet(Sent \cup Reviewed)
      /\ Cardinality(Sent \cup Reviewed) <= Cardinality(MessagesOf(t))
  <2>1. /\ Sent \in SUBSET MessagesOf(t) /\ Reviewed \in SUBSET MessagesOf(t)
        /\ Sent \cup Reviewed \in SUBSET MessagesOf(t)
    OBVIOUS
  <2>. QED  BY <1>1, <2>1, FS_Subset
<1>3. Sent \cap Reviewed = {}
  BY NameAssumption DEF IsReview
<1>4. Cardinality(Sent) + Cardinality(Reviewed) <= Cardinality(MessagesOf(t))
  <2>1. Cardinality(Sent \cup Reviewed) = Cardinality(Sent) + Cardinality(Reviewed) - Cardinality({})
    BY <1>2, <1>3, FS_Union
  <2>2. Cardinality({}) = 0 /\ Cardinality(Sent) \in Nat /\ Cardinality(Reviewed) \in Nat
    BY <1>2, FS_EmptySet, FS_CardinalityType
  <2>. QED  BY <1>2, <2>1, <2>2
\* A mail with rows in messages is a message of its tag.
<1>5. ASSUME NEW m \in Mails, Recipients(m) \subseteq db.messages, Mail[m].tag = t
      PROVE  m \in MessagesOf(t)
  <2>1. \E x : <<m, x>> \in Recipients(m)
    <3>1. Mail[m].recipients # <<>> => Mail[m].recipients[1] \in Range(Mail[m].recipients)
      <4>1. Mail[m].recipients \in Seq(Agents)
        BY MailTypes
      <4>. QED  BY <4>1 DEF Range
    <3>. QED  BY <3>1 DEF Recipients
  <2>. QED  BY <1>5, <2>1 DEF MessagesOf
<1>6. slot \in Surjection(Sent, InterventionsOf(t))
  <2>1. ASSUME NEW m \in Sent PROVE slot[m] \in InterventionsOf(t)
    <3>1. PICK x \in db.messages : m = x[1] /\ Mail[m].tag = t /\ Mail[m].sender = Director
      BY DEF MessagesOf
    <3>2. Recorded(db, m) /\ t # NoTag /\ Mail[m].sent_at \in 1 .. Now /\ m \in Mails
      BY <1>1, <3>1, MailTypes, NameAssumption DEF Whole
    <3>3. db.interventions[<<t, Mail[m].sent_at>>] = 1
      BY <3>1, <3>2 DEF Recorded
    <3>4. <<Mail[m].sent_at, 1>> \in {Mail[m].sent_at} \X (1 .. 1)
      OBVIOUS
    <3>. QED  BY <3>2, <3>3, <3>4 DEF InterventionsOf
  <2>2. ASSUME NEW x \in InterventionsOf(t) PROVE \E m \in Sent : slot[m] = x
    <3>1. PICK at \in 1 .. Now : x \in {at} \X (1 .. db.interventions[<<t, at>>])
      BY DEF InterventionsOf
    <3>2. db.interventions[<<t, at>>] \in Nat
      BY DEF Columns, Slots
    <3>3. db.interventions[<<t, at>>] # 0
      BY <3>1, <3>2
    <3>4. PICK m \in Mails : /\ Recipients(m) \subseteq db.messages
                             /\ Mail[m].tag = t /\ Mail[m].sent_at = at /\ Mail[m].sender = Director
      BY <3>3 DEF Backed
    <3>5. db.interventions[<<t, at>>] = 1
      BY <3>3 DEF Backed
    <3>6. x = <<at, 1>>
      BY <3>1, <3>5
    <3>. QED  BY <1>5, <3>4, <3>6
  <2>. QED  BY <2>1, <2>2 DEF Surjection
<1>7. row \in Surjection(Reviewed, Reviews)
  <2>1. ASSUME NEW m \in Reviewed PROVE row[m] \in Reviews /\ RowOf(m, row[m])
    <3>1. PICK x \in db.messages : m = x[1] /\ Mail[m].tag = t /\ IsReview(m)
      BY DEF MessagesOf
    <3>2. \E r \in db.revisions : RowOf(m, r)
      BY <3>1 DEF Whole, Recorded
    <3>3. \E r \in Reviews : RowOf(m, r)
      BY <3>1, <3>2 DEF RowOf
    <3>. QED  BY <3>3
  <2>2. ASSUME NEW r \in Reviews PROVE \E m \in Reviewed : row[m] = r
    <3>1. PICK m \in Mails : Recipients(m) \subseteq db.messages /\ IsReview(m) /\ RowOf(m, r)
      BY DEF Backed
    <3>2. Mail[m].tag = t
      BY <3>1 DEF RowOf
    <3>3. m \in Reviewed
      BY <1>5, <3>1, <3>2
    <3>4. RowOf(m, row[m]) /\ row[m] \in Reviews
      BY <2>1, <3>3
    <3>5. row[m] = r
      BY <3>1, <3>4 DEF Backed
    <3>. QED  BY <3>3, <3>5
  <2>. QED  BY <2>1, <2>2 DEF Surjection
<1>8. Cardinality(InterventionsOf(t)) <= Cardinality(Sent) /\ Cardinality(Reviews) <= Cardinality(Reviewed)
  BY <1>2, <1>6, <1>7, FS_Surjection
<1>9. /\ Cardinality(Sent) \in Nat /\ Cardinality(Reviewed) \in Nat /\ Cardinality(MessagesOf(t)) \in Nat
      /\ Cardinality(InterventionsOf(t)) \in Nat /\ Cardinality(Reviews) \in Nat
  BY <1>1, <1>2, <1>6, <1>7, FS_Surjection, FS_CardinalityType
<1>. QED  BY <1>4, <1>8, <1>9

-----------------------------------------------------------------------------
(* The tokens.                                                             *)

SessionTypes == sessions \in [Sessions -> [lines : Seq(Record), mtime : Days]]

\* No day is charged more than the tokens of the records that name it or none.
Charged(T) ==
    /\ T.token_usage \in [Agents \X Days -> Nat]
    /\ \A a \in Agents, d \in Days : T.token_usage[<<a, d>>] <= TokensOf(a, {d})

TokensInv ==
    /\ SessionTypes /\ Charged(db) /\ Charged(tx)
    /\ \A a \in Agents : AllStamped(a) =>
         \A d \in Days : db.token_usage[<<a, d>>] <= tx.token_usage[<<a, d>>]

\* The tokens of the lines picked[f] of every file f of a.
Units(ss, a, picked) == UNION {{f} \X TokensIn(ss[f].lines, picked[f]) : f \in FilesOf(a)}

\* The lines that name one of the days S or none; those charged to day d.
Naming(ss, S) ==
    [f \in Sessions |-> {i \in DOMAIN ss[f].lines : ss[f].lines[i].stamp \in S \cup {NoStamp}}]

ChargedTo(ss, d) ==
    [f \in Sessions |-> {i \in DOMAIN ss[f].lines : record_day(ss[f].lines[i], ss[f].mtime) = d}]

\* A union of finitely many finite sets, each marked with its index.
LEMMA MarkedUnion ==
    ASSUME NEW I, IsFiniteSet(I), NEW s, \A i \in I : IsFiniteSet(s[i])
    PROVE  IsFiniteSet(UNION {{i} \X s[i] : i \in I})
<1>. DEFINE Parts == {{i} \X s[i] : i \in I}
            part == [i \in I |-> {i} \X s[i]]
<1>1. part \in Surjection(I, Parts)
  BY DEF Surjection
<1>2. IsFiniteSet(Parts)
  BY <1>1, FS_Surjection
<1>3. ASSUME NEW i \in I PROVE IsFiniteSet({i} \X s[i])
  <2>1. IsFiniteSet({i}) /\ IsFiniteSet(s[i])
    BY FS_Singleton
  <2>. QED  BY <2>1, FS_Product
<1>4. \A P \in Parts : IsFiniteSet(P)
  BY <1>3
<1>. QED  BY <1>2, <1>4, FS_UNION

LEMMA TokensInFinite ==
    ASSUME NEW lines \in Seq(Record), NEW I \in SUBSET (DOMAIN lines)
    PROVE  IsFiniteSet(TokensIn(lines, I))
<1>1. PICK s : s = [i \in I |-> 1 .. usage_fields(lines[i])]
  OBVIOUS
<1>2. IsFiniteSet(I)
  <2>1. DOMAIN lines = 1 .. Len(lines) /\ 1 \in Int /\ Len(lines) \in Int
    OBVIOUS
  <2>2. IsFiniteSet(DOMAIN lines)
    BY <2>1, FS_Interval
  <2>. QED  BY <2>2, FS_Subset
<1>3. ASSUME NEW i \in I PROVE IsFiniteSet(s[i])
  <2>1. lines[i] \in Record
    OBVIOUS
  <2>2. usage_fields(lines[i]) \in Int /\ 1 \in Int
    BY <2>1 DEF Record, usage_fields
  <2>3. IsFiniteSet(1 .. usage_fields(lines[i]))
    BY <2>2, FS_Interval
  <2>. QED  BY <1>1, <2>3
<1>4. IsFiniteSet(UNION {{i} \X s[i] : i \in I})
  BY <1>2, <1>3, MarkedUnion
<1>5. {{i} \X s[i] : i \in I} = {{i} \X (1 .. usage_fields(lines[i])) : i \in I}
  BY <1>1
<1>. QED  BY <1>4, <1>5, Zenon DEF TokensIn

LEMMA UnitsFinite ==
    ASSUME NEW ss \in [Sessions -> [lines : Seq(Record), mtime : Days]], NEW a,
           NEW picked, \A f \in Sessions : picked[f] \subseteq DOMAIN ss[f].lines
    PROVE  IsFiniteSet(Units(ss, a, picked)) /\ Cardinality(Units(ss, a, picked)) \in Nat
<1>1. FilesOf(a) \in SUBSET Sessions
  BY DEF FilesOf
<1>2. IsFiniteSet(FilesOf(a))
  BY <1>1, SessionAssumption, FS_Subset
<1>3. PICK s : s = [f \in FilesOf(a) |-> TokensIn(ss[f].lines, picked[f])]
  OBVIOUS
<1>4. ASSUME NEW f \in FilesOf(a) PROVE IsFiniteSet(s[f])
  <2>1. ss[f].lines \in Seq(Record) /\ picked[f] \in SUBSET (DOMAIN ss[f].lines)
    BY <1>1
  <2>2. IsFiniteSet(TokensIn(ss[f].lines, picked[f]))
    BY <2>1, TokensInFinite
  <2>. QED  BY <1>3, <2>2
<1>5. IsFiniteSet(UNION {{f} \X s[f] : f \in FilesOf(a)})
  BY <1>2, <1>4, MarkedUnion
<1>6. {{f} \X s[f] : f \in FilesOf(a)} = {{f} \X TokensIn(ss[f].lines, picked[f]) : f \in FilesOf(a)}
  BY <1>3
<1>7. IsFiniteSet(Units(ss, a, picked))
  BY <1>5, <1>6, Zenon DEF Units
<1>. QED  BY <1>7, FS_CardinalityType

\* More lines with no fewer tokens are no fewer tokens.
LEMMA UnitsGrow ==
    ASSUME NEW ss \in [Sessions -> [lines : Seq(Record), mtime : Days]],
           NEW tt \in [Sessions -> [lines : Seq(Record), mtime : Days]], NEW a,
           NEW picked, NEW more, \A f \in Sessions : more[f] \subseteq DOMAIN tt[f].lines,
           \A f \in Sessions : picked[f] \subseteq DOMAIN ss[f].lines,
           \A f \in Sessions : \A i \in picked[f] :
                i \in more[f] /\ usage_fields(ss[f].lines[i]) <= usage_fields(tt[f].lines[i])
    PROVE  Cardinality(Units(ss, a, picked)) <= Cardinality(Units(tt, a, more))
<1>1. ASSUME NEW f \in FilesOf(a)
      PROVE  TokensIn(ss[f].lines, picked[f]) \subseteq TokensIn(tt[f].lines, more[f])
  <2>1. f \in Sessions
    BY DEF FilesOf
  <2>2. ASSUME NEW i \in picked[f]
        PROVE  /\ i \in more[f]
               /\ 1 .. usage_fields(ss[f].lines[i]) \subseteq 1 .. usage_fields(tt[f].lines[i])
    <3>1. /\ i \in more[f] /\ usage_fields(ss[f].lines[i]) <= usage_fields(tt[f].lines[i])
          /\ i \in DOMAIN ss[f].lines /\ i \in DOMAIN tt[f].lines
      BY <2>1
    <3>2. ss[f].lines[i] \in Record /\ tt[f].lines[i] \in Record
      BY <2>1, <3>1
    <3>3. usage_fields(ss[f].lines[i]) \in Nat /\ usage_fields(tt[f].lines[i]) \in Nat
      BY <3>2 DEF usage_fields, Record
    <3>. QED  BY <3>1, <3>3
  <2>. QED  BY <2>2 DEF TokensIn
<1>2. Units(ss, a, picked) \in SUBSET Units(tt, a, more)
  <2>1. ASSUME NEW u \in Units(ss, a, picked) PROVE u \in Units(tt, a, more)
    <3>1. PICK f \in FilesOf(a) : u \in {f} \X TokensIn(ss[f].lines, picked[f])
      BY DEF Units
    <3>2. u \in {f} \X TokensIn(tt[f].lines, more[f])
      BY <1>1, <3>1
    <3>. QED  BY <3>2 DEF Units
  <2>. QED  BY <2>1
<1>3. IsFiniteSet(Units(tt, a, more))
  BY UnitsFinite
<1>. QED  BY <1>2, <1>3, FS_Subset

LEMMA NamingUnits ==
    ASSUME NEW ss, NEW a, NEW S
    PROVE  Cardinality(UNION {{f} \X TokensIn(ss[f].lines,
                {i \in DOMAIN ss[f].lines : ss[f].lines[i].stamp \in S \cup {NoStamp}})
                    : f \in FilesOf(a)})
             = Cardinality(Units(ss, a, Naming(ss, S)))
<1>1. ASSUME NEW f \in FilesOf(a)
      PROVE  {i \in DOMAIN ss[f].lines : ss[f].lines[i].stamp \in S \cup {NoStamp}} = Naming(ss, S)[f]
  BY DEF FilesOf, Naming
<1>2. {{f} \X TokensIn(ss[f].lines,
                {i \in DOMAIN ss[f].lines : ss[f].lines[i].stamp \in S \cup {NoStamp}})
          : f \in FilesOf(a)}
      = {{f} \X TokensIn(ss[f].lines, Naming(ss, S)[f]) : f \in FilesOf(a)}
  BY <1>1
<1>. QED  BY <1>2, Zenon DEF Units

LEMMA TokensOfUnits ==
    ASSUME NEW a, NEW S
    PROVE  /\ TokensOf(a, S) = Cardinality(Units(sessions, a, Naming(sessions, S)))
           /\ TokensOf(a, S)' = Cardinality(Units(sessions', a, Naming(sessions', S)))
BY NamingUnits, Zenon DEF TokensOf

LEMMA ScanUnits ==
    ASSUME NEW ss, NEW a, NEW d \in Days
    PROVE  scan_agent_sessions(a, ss)[d] = Cardinality(Units(ss, a, ChargedTo(ss, d)))
<1>1. ASSUME NEW f \in FilesOf(a)
      PROVE  scan_session_lines(ss[f].lines, ss[f].mtime)[d]
               = TokensIn(ss[f].lines, ChargedTo(ss, d)[f])
  BY DEF FilesOf, ChargedTo, scan_session_lines
<1>2. {{f} \X scan_session_lines(ss[f].lines, ss[f].mtime)[d] : f \in FilesOf(a)}
      = {{f} \X TokensIn(ss[f].lines, ChargedTo(ss, d)[f]) : f \in FilesOf(a)}
  BY <1>1
<1>3. scan_agent_sessions(a, ss)[d]
        = Cardinality(UNION {{f} \X scan_session_lines(ss[f].lines, ss[f].mtime)[d] : f \in FilesOf(a)})
  BY DEF scan_agent_sessions
<1>. QED  BY <1>2, <1>3, Zenon DEF Units

\* The records of tt are those of ss and more, finished or as they were.
Grown(ss, tt) ==
    \A f \in Sessions : \A i \in DOMAIN ss[f].lines :
        /\ i \in DOMAIN tt[f].lines /\ tt[f].lines[i].stamp = ss[f].lines[i].stamp
        /\ usage_fields(ss[f].lines[i]) <= usage_fields(tt[f].lines[i])

LEMMA SessionsGrow ==
    ASSUME SourceTypes, SessionTypes, Environment
    PROVE  SessionTypes' /\ Grown(sessions, sessions')
<1>1. today \in Days /\ today' \in Days
  <2>1. SourceTypes'
    BY EnvironmentStep
  <2>. QED  BY <2>1 DEF SourceTypes
<1>2. ASSUME NEW f \in Sessions, NEW i \in DOMAIN sessions[f].lines
      PROVE  usage_fields(sessions[f].lines[i]) \in Nat /\ sessions[f].lines[i] \in Record
  <2>1. sessions[f].lines \in Seq(Record)
    BY DEF SessionTypes
  <2>2. sessions[f].lines[i] \in Record
    BY <2>1
  <2>. QED  BY <2>2 DEF Record, usage_fields
<1>3. CASE sessions' = sessions
  BY <1>2, <1>3 DEF SessionTypes, Grown
<1>4. ASSUME NEW f \in Sessions, NEW lines \in Seq(Record),
             sessions' = [sessions EXCEPT ![f] = [lines |-> lines, mtime |-> today]],
             \A i \in DOMAIN sessions[f].lines :
                /\ i \in DOMAIN lines /\ lines[i].stamp = sessions[f].lines[i].stamp
                /\ usage_fields(sessions[f].lines[i]) <= usage_fields(lines[i])
      PROVE  SessionTypes' /\ Grown(sessions, sessions')
  <2>1. [lines |-> lines, mtime |-> today] \in [lines : Seq(Record), mtime : Days]
    BY <1>1, <1>4
  <2>2. SessionTypes'
    BY <1>4, <2>1 DEF SessionTypes
  <2>3. sessions'[f].lines = lines /\ \A g \in Sessions : g # f => sessions'[g] = sessions[g]
    BY <1>4 DEF SessionTypes
  <2>4. ASSUME NEW g \in Sessions, NEW i \in DOMAIN sessions[g].lines
        PROVE  /\ i \in DOMAIN sessions'[g].lines
               /\ sessions'[g].lines[i].stamp = sessions[g].lines[i].stamp
               /\ usage_fields(sessions[g].lines[i]) <= usage_fields(sessions'[g].lines[i])
    <3>1. CASE g = f
      BY <1>4, <2>3, <2>4, <3>1
    <3>2. CASE g # f
      BY <1>2, <2>3, <2>4, <3>2
    <3>. QED  BY <3>1, <3>2
  <2>. QED  BY <2>2, <2>4 DEF Grown
<1>5. ASSUME NEW f \in Sessions, AppendRecord(f)
      PROVE  SessionTypes' /\ Grown(sessions, sessions')
  <2>1. PICK r \in [whole : BOOLEAN, tokens : {1}, stamp : {today, NoStamp}] :
            sessions' = [sessions EXCEPT ![f] = [lines |-> Append(@.lines, r), mtime |-> today]]
    BY <1>5 DEF AppendRecord
  <2>2. r \in Record /\ sessions[f].lines \in Seq(Record)
    <3>1. r.tokens \in Nat /\ r.stamp \in Days \cup {NoStamp}
      BY <1>1, <2>1
    <3>2. r = [whole |-> r.whole, tokens |-> r.tokens, stamp |-> r.stamp] /\ r.whole \in BOOLEAN
      BY <2>1
    <3>3. r \in Record
      BY <3>1, <3>2 DEF Record
    <3>. QED  BY <3>3 DEF SessionTypes
  <2>3. PICK lines : lines = Append(sessions[f].lines, r)
    OBVIOUS
  <2>4. /\ lines \in Seq(Record)
        /\ \A i \in DOMAIN sessions[f].lines :
                i \in DOMAIN lines /\ lines[i] = sessions[f].lines[i]
    BY <2>2, <2>3
  <2>5. \A i \in DOMAIN sessions[f].lines : usage_fields(sessions[f].lines[i]) <= usage_fields(lines[i])
    BY <1>2, <2>4
  <2>6. sessions' = [sessions EXCEPT ![f] = [lines |-> lines, mtime |-> today]]
    BY <2>1, <2>3
  <2>. QED  BY <1>4, <2>4, <2>5, <2>6
<1>6. ASSUME NEW f \in Sessions, FinishRecord(f)
      PROVE  SessionTypes' /\ Grown(sessions, sessions')
  <2>1. PICK n : n = Len(sessions[f].lines)
    OBVIOUS
  <2>2. /\ sessions[f] \in [lines : Seq(Record), mtime : Days] /\ sessions[f].lines \in Seq(Record)
        /\ n \in DOMAIN sessions[f].lines
    <3>1. sessions[f].lines \in Seq(Record) /\ sessions[f].lines # <<>>
      BY <1>6 DEF FinishRecord, Torn, SessionTypes
    <3>. QED  BY <2>1, <3>1 DEF SessionTypes
  <2>3. PICK r : r = [sessions[f].lines[n] EXCEPT !.whole = TRUE]
    OBVIOUS
  <2>4. PICK lines : lines = [sessions[f].lines EXCEPT ![n] = r]
    OBVIOUS
  <2>5. sessions' = [sessions EXCEPT ![f] = [lines |-> lines, mtime |-> today]]
    <3>1. sessions' = [sessions EXCEPT ![f].lines[n].whole = TRUE, ![f].mtime = today]
      BY <1>6, <2>1, Zenon DEF FinishRecord
    <3>2. PICK mid : mid = [sessions EXCEPT ![f].lines[n].whole = TRUE]
      OBVIOUS
    <3>3. sessions' = [mid EXCEPT ![f].mtime = today]
      BY <3>1, <3>2
    <3>4. PICK row : row = [sessions[f] EXCEPT !.lines = lines]
      OBVIOUS
    <3>5. row = [lines |-> lines, mtime |-> sessions[f].mtime]
      BY <2>2, <3>4
    <3>6. mid = [sessions EXCEPT ![f] = row]
      BY <2>2, <2>3, <2>4, <3>2, <3>4
    <3>7. mid[f] = row /\ f \in DOMAIN mid /\ DOMAIN mid = Sessions
      BY <3>6 DEF SessionTypes
    <3>8. sessions' = [mid EXCEPT ![f] = [lines |-> lines, mtime |-> today]]
      <4>1. PICK last : last = [mid[f] EXCEPT !.mtime = today]
        OBVIOUS
      <4>2. last = [lines |-> lines, mtime |-> today]
        BY <3>5, <3>7, <4>1
      <4>3. sessions' = [mid EXCEPT ![f] = last]
        BY <3>3, <4>1
      <4>. QED  BY <4>2, <4>3
    <3>. QED  BY <3>6, <3>8 DEF SessionTypes
  <2>6. r \in Record /\ r.stamp = sessions[f].lines[n].stamp
        /\ usage_fields(sessions[f].lines[n]) <= usage_fields(r)
    <3>1. PICK old \in Record : old = sessions[f].lines[n]
      BY <1>2, <2>2
    <3>2. /\ old.tokens \in Nat /\ old.stamp \in Days \cup {NoStamp} /\ old.whole \in BOOLEAN
          /\ old = [whole |-> old.whole, tokens |-> old.tokens, stamp |-> old.stamp]
      BY DEF Record
    <3>3. r = [whole |-> TRUE, tokens |-> old.tokens, stamp |-> old.stamp]
      BY <2>3, <3>1, <3>2
    <3>4. r \in Record
      BY <3>2, <3>3 DEF Record
    <3>5. usage_fields(old) <= usage_fields(r)
      BY <3>2, <3>3 DEF usage_fields
    <3>. QED  BY <3>1, <3>3, <3>4, <3>5
  <2>7. /\ lines \in Seq(Record)
        /\ DOMAIN lines = DOMAIN sessions[f].lines
        /\ lines[n] = r /\ \A i \in DOMAIN lines : i # n => lines[i] = sessions[f].lines[i]
    BY <2>2, <2>4, <2>6
  <2>8. \A i \in DOMAIN sessions[f].lines :
            /\ i \in DOMAIN lines /\ lines[i].stamp = sessions[f].lines[i].stamp
            /\ usage_fields(sessions[f].lines[i]) <= usage_fields(lines[i])
    <3>1. ASSUME NEW i \in DOMAIN sessions[f].lines
          PROVE  /\ i \in DOMAIN lines /\ lines[i].stamp = sessions[f].lines[i].stamp
                 /\ usage_fields(sessions[f].lines[i]) <= usage_fields(lines[i])
      <4>1. CASE i = n
        BY <2>6, <2>7, <4>1
      <4>2. CASE i # n
        <5>1. lines[i] = sessions[f].lines[i] /\ i \in DOMAIN lines
          BY <2>7, <4>2
        <5>2. usage_fields(sessions[f].lines[i]) \in Nat
          BY <1>2
        <5>. QED  BY <5>1, <5>2
      <4>. QED  BY <4>1, <4>2
    <3>. QED  BY <3>1
  <2>. QED  BY <1>4, <2>5, <2>7, <2>8
<1>7. sessions' = sessions \/ \E f \in Sessions : AppendRecord(f) \/ FinishRecord(f)
  <2>1. \/ \E m \in Mails : Deliver(m)
        \/ NextDay
        \/ \E l \in Lines : LogLine(l)
        \/ \E t \in Tags : WarnThread(t) \/ FreezeThread(t)
        \/ \E t \in Tags : DeleteFrozen(t) \/ DeleteWarned(t)
        \/ \E f \in Sessions : AppendRecord(f) \/ FinishRecord(f)
        \/ \E t \in Tags, s \in Statuses : SetStatus(t, s)
        \/ BreakStatuses \/ RepairStatuses
    BY Zenon DEF Environment
  <2>. QED  BY <2>1 DEF Deliver, NextDay, LogLine, WarnThread, FreezeThread, DeleteFrozen,
            DeleteWarned, SetStatus, BreakStatuses, RepairStatuses, logs
<1>. QED  BY <1>3, <1>5, <1>6, <1>7

\* The tokens that name a day or none never get fewer.
LEMMA TokensGrow ==
    ASSUME SessionTypes, SessionTypes', Grown(sessions, sessions'), NEW a, NEW d \in Days
    PROVE  TokensOf(a, {d}) <= TokensOf(a, {d})' /\ TokensOf(a, {d}) \in Nat /\ TokensOf(a, {d})' \in Nat
<1>. DEFINE now == Naming(sessions, {d})
            next == Naming(sessions', {d})
<1>1. TokensOf(a, {d}) = Cardinality(Units(sessions, a, now))
  BY TokensOfUnits
<1>2. TokensOf(a, {d})' = Cardinality(Units(sessions', a, next))
  BY TokensOfUnits
<1>3. /\ \A f \in Sessions : now[f] \subseteq DOMAIN sessions[f].lines
      /\ \A f \in Sessions : next[f] \subseteq DOMAIN sessions'[f].lines
      /\ \A f \in Sessions : \A i \in now[f] :
            /\ i \in next[f]
            /\ usage_fields(sessions[f].lines[i]) <= usage_fields(sessions'[f].lines[i])
  BY DEF Naming, Grown
<1>4. /\ sessions \in [Sessions -> [lines : Seq(Record), mtime : Days]]
      /\ sessions' \in [Sessions -> [lines : Seq(Record), mtime : Days]]
  BY DEF SessionTypes
<1>. HIDE DEF now, next
<1>5. Cardinality(Units(sessions, a, now)) <= Cardinality(Units(sessions', a, next))
  BY <1>3, <1>4, UnitsGrow
<1>6. Cardinality(Units(sessions, a, now)) \in Nat /\ Cardinality(Units(sessions', a, next)) \in Nat
  BY <1>3, <1>4, UnitsFinite
<1>. QED  BY <1>1, <1>2, <1>5, <1>6

\* A scan charges a day only with records that name it or none, and with all of
\* them if every record names a day.
LEMMA ScanBound ==
    ASSUME SessionTypes, NEW a, NEW d \in Days
    PROVE  /\ scan_agent_sessions(a, sessions)[d] \in Nat
           /\ scan_agent_sessions(a, sessions)[d] <= TokensOf(a, {d})
           /\ AllStamped(a) => scan_agent_sessions(a, sessions)[d] = TokensOf(a, {d})
<1>. DEFINE charged == ChargedTo(sessions, d)
            naming == Naming(sessions, {d})
<1>1. /\ scan_agent_sessions(a, sessions)[d] = Cardinality(Units(sessions, a, charged))
      /\ TokensOf(a, {d}) = Cardinality(Units(sessions, a, naming))
  BY ScanUnits, TokensOfUnits
<1>2. sessions \in [Sessions -> [lines : Seq(Record), mtime : Days]]
  BY DEF SessionTypes
<1>3. ASSUME NEW f \in Sessions, NEW i \in DOMAIN sessions[f].lines
      PROVE  /\ sessions[f].lines[i] \in Record
             /\ usage_fields(sessions[f].lines[i]) \in Nat
  <2>1. sessions[f].lines \in Seq(Record)
    BY <1>2
  <2>2. sessions[f].lines[i] \in Record
    BY <2>1
  <2>. QED  BY <2>2 DEF Record, usage_fields
<1>4. /\ \A f \in Sessions : charged[f] \subseteq DOMAIN sessions[f].lines
      /\ \A f \in Sessions : naming[f] \subseteq DOMAIN sessions[f].lines
      /\ \A f \in Sessions : \A i \in charged[f] : i \in naming[f]
  BY DEF ChargedTo, Naming, record_day
<1>5. ASSUME AllStamped(a), NEW f \in FilesOf(a)
      PROVE  charged[f] = naming[f]
  <2>1. f \in Sessions /\ \A i \in DOMAIN sessions[f].lines : sessions[f].lines[i].stamp # NoStamp
    BY <1>5 DEF AllStamped, FilesOf
  <2>. QED  BY <2>1 DEF ChargedTo, Naming, record_day
<1>. HIDE DEF charged, naming
<1>6. \A f \in Sessions : \A i \in charged[f] :
        /\ i \in naming[f]
        /\ usage_fields(sessions[f].lines[i]) <= usage_fields(sessions[f].lines[i])
  BY <1>3, <1>4
<1>7. Cardinality(Units(sessions, a, charged)) <= Cardinality(Units(sessions, a, naming))
  BY <1>2, <1>4, <1>6, UnitsGrow
<1>8. Cardinality(Units(sessions, a, charged)) \in Nat
  BY <1>2, <1>4, UnitsFinite
<1>9. AllStamped(a) => Units(sessions, a, charged) = Units(sessions, a, naming)
  <2>. SUFFICES ASSUME AllStamped(a) PROVE Units(sessions, a, charged) = Units(sessions, a, naming)
    OBVIOUS
  <2>1. {{f} \X TokensIn(sessions[f].lines, charged[f]) : f \in FilesOf(a)} =
        {{f} \X TokensIn(sessions[f].lines, naming[f]) : f \in FilesOf(a)}
    BY <1>5
  <2>. QED  BY <2>1, Zenon DEF Units
<1>. QED  BY <1>1, <1>7, <1>8, <1>9

\* What collect_token_usage writes.
LEMMA TokensForm ==
    ASSUME Columns(tx), tx.token_usage \in [Agents \X Days -> Nat], SessionTypes, CollectTokenUsage
    PROVE  /\ tx'.token_usage \in [Agents \X Days -> Nat]
           /\ \A a \in Agents, d \in Days :
                tx'.token_usage[<<a, d>>] = IF scan_agent_sessions(a, sessions)[d] > 0
                                            THEN scan_agent_sessions(a, sessions)[d]
                                            ELSE tx.token_usage[<<a, d>>]
<1>. DEFINE stored(a) == upsert_daily_token_usage(tx, a, scan_agent_sessions(a, sessions))
<1>1. tx' = [tx EXCEPT !.token_usage = [k \in Agents \X Days |-> stored(k[1]).token_usage[k]]]
  BY DEF CollectTokenUsage
<1>2. PICK usage : usage = [k \in Agents \X Days |-> stored(k[1]).token_usage[k]]
  OBVIOUS
<1>3. tx' = [tx EXCEPT !.token_usage = usage]
  BY <1>1, <1>2, Zenon
<1>4. tx'.token_usage = usage
  BY <1>3 DEF Columns, ColumnNames
<1>5. ASSUME NEW a \in Agents, NEW d \in Days
      PROVE  usage[<<a, d>>] = IF scan_agent_sessions(a, sessions)[d] > 0
                               THEN scan_agent_sessions(a, sessions)[d]
                               ELSE tx.token_usage[<<a, d>>]
  <2>1. usage[<<a, d>>] = stored(a).token_usage[<<a, d>>]
    BY <1>2
  <2>2. PICK totals : totals = scan_agent_sessions(a, sessions)
    OBVIOUS
  <2>3. PICK column : column = [k \in Agents \X Days |->
                                  IF k[1] = a /\ totals[k[2]] > 0 THEN totals[k[2]]
                                  ELSE tx.token_usage[k]]
    OBVIOUS
  <2>4. stored(a) = [tx EXCEPT !.token_usage = column]
    BY <2>2, <2>3 DEF upsert_daily_token_usage
  <2>5. stored(a).token_usage = column
    BY <2>4 DEF Columns, ColumnNames
  <2>. QED  BY <2>1, <2>2, <2>3, <2>5
<1>6. ASSUME NEW k \in Agents \X Days PROVE usage[k] \in Nat
  <2>1. PICK a \in Agents, d \in Days : k = <<a, d>>
    OBVIOUS
  <2>2. scan_agent_sessions(a, sessions)[d] \in Nat /\ tx.token_usage[<<a, d>>] \in Nat
    BY ScanBound
  <2>. QED  BY <1>5, <2>1, <2>2
<1>7. DOMAIN usage = Agents \X Days /\ usage = [k \in Agents \X Days |-> usage[k]]
  BY <1>2
<1>8. usage \in [Agents \X Days -> Nat]
  BY <1>6, <1>7
<1>. QED  BY <1>4, <1>5, <1>8

LEMMA TokensStep ==
    ASSUME Types, RowsInv, TokensInv, [Next]_vars
    PROVE  TokensInv'
<1>1. /\ SessionTypes /\ Charged(db) /\ Charged(tx) /\ Columns(tx) /\ Whole(tx) /\ Articles(tx)
      /\ \A a \in Agents : AllStamped(a) =>
            \A d \in Days : db.token_usage[<<a, d>>] <= tx.token_usage[<<a, d>>]
  BY DEF TokensInv, RowsInv
<1>2. ASSUME NEW T, Charged(T), NEW a \in Agents, NEW d \in Days
      PROVE  T.token_usage[<<a, d>>] \in Nat
  BY <1>2 DEF Charged
\* As long as the session logs stay as they are.
<1>3. ASSUME sessions' = sessions
      PROVE  /\ SessionTypes' /\ \A a, d : TokensOf(a, {d})' = TokensOf(a, {d})
             /\ \A a : AllStamped(a)' <=> AllStamped(a)
  <2>1. SessionTypes'
    BY <1>1, <1>3 DEF SessionTypes
  <2>2. ASSUME NEW a, NEW d PROVE TokensOf(a, {d})' = TokensOf(a, {d})
    BY <1>3, TokensOfUnits
  <2>3. \A a : AllStamped(a)' <=> AllStamped(a)
    BY <1>3 DEF AllStamped
  <2>. QED  BY <2>1, <2>2, <2>3
<1>4. CASE Start \/ LogRaises \/ SyncRaises \/ Fail \/ Commit \/ FirstSelect \/ ReviewForm \/ UNCHANGED vars
  <2>1. /\ tx' = db' \/ (tx' = tx /\ db' = db)
        /\ tx' \in {db, tx} /\ db' \in {db, tx} /\ sessions' = sessions
    BY <1>4 DEF Start, LogRaises, SyncRaises, Fail, Commit, FirstSelect, ReviewForm, SubmitForm, OpenForm,
            vars, sources, logs
  <2>2. Charged(tx)' /\ Charged(db)'
    BY <1>1, <1>3, <2>1 DEF Charged
  <2>3. ASSUME NEW a \in Agents, AllStamped(a)', NEW d \in Days
        PROVE  db'.token_usage[<<a, d>>] <= tx'.token_usage[<<a, d>>]
    <3>1. CASE tx' = db'
      <4>1. db'.token_usage[<<a, d>>] \in Nat
        BY <2>2 DEF Charged
      <4>. QED  BY <3>1, <4>1
    <3>2. CASE tx' = tx /\ db' = db
      BY <1>1, <1>3, <2>1, <2>3, <3>2
    <3>. QED  BY <2>1, <3>1, <3>2
  <2>. QED  BY <1>3, <2>1, <2>2, <2>3 DEF TokensInv
<1>5. CASE StoreMessage \/ CollectPostfixLog \/ SecondSelect \/ SecondSelectRefused
           \/ SyncPublicStatuses
  <2>1. db' = db /\ sessions' = sessions
    BY <1>5 DEF StoreMessage, CollectPostfixLog, SecondSelect, SecondSelectRefused, StoreFuses,
            SyncPublicStatuses, sources, logs
  <2>2. tx'.token_usage = tx.token_usage
    <3>1. CASE StoreMessage
      <4>1. PICK m \in Mails, cycle \in Nat : tx' = Added(tx, m, cycle)
        BY <3>1, StoreForm DEF Types
      <4>. QED  BY <1>1, <4>1, AddedMail
    <3>2. CASE CollectPostfixLog
      <4>1. PICK bounces : tx' = [tx EXCEPT !.bounces = bounces]
        BY <3>2 DEF CollectPostfixLog, WithLog
      <4>. QED  BY <1>1, <4>1 DEF Columns, ColumnNames
    <3>3. CASE SecondSelect \/ SecondSelectRefused
      <4>1. PICK rows \in [Stage -> [Tags -> Nat]] : tx' = Fuses(tx, rows)
        BY <3>3, Selected DEF Types
      <4>. QED  BY <1>1, <4>1, BothFuses
    <3>4. CASE SyncPublicStatuses
      <4>1. tx' = WithStatuses(tx) /\ articles_json \in [Tags -> Statuses \cup {NoStatus}]
        BY <3>4 DEF SyncPublicStatuses, Types, SourceTypes
      <4>. QED  BY <1>1, <4>1, StatusesKeep
    <3>. QED  BY <1>5, <3>1, <3>2, <3>3, <3>4
  <2>. QED  BY <1>1, <1>3, <2>1, <2>2 DEF TokensInv, Charged
<1>6. CASE CollectTokenUsage
  <2>1. db' = db /\ sessions' = sessions
    BY <1>6 DEF CollectTokenUsage, sources, logs
  <2>2. /\ tx'.token_usage \in [Agents \X Days -> Nat]
        /\ \A a \in Agents, d \in Days :
             tx'.token_usage[<<a, d>>] = IF scan_agent_sessions(a, sessions)[d] > 0
                                         THEN scan_agent_sessions(a, sessions)[d]
                                         ELSE tx.token_usage[<<a, d>>]
    <3>1. tx.token_usage \in [Agents \X Days -> Nat]
      BY <1>1 DEF Charged
    <3>. QED  BY <1>1, <1>6, <3>1, TokensForm
  <2>3. ASSUME NEW a \in Agents, NEW d \in Days
        PROVE  /\ tx'.token_usage[<<a, d>>] <= TokensOf(a, {d})
               /\ AllStamped(a) => db.token_usage[<<a, d>>] <= tx'.token_usage[<<a, d>>]
    <3>1. PICK n \in Nat : /\ n = scan_agent_sessions(a, sessions)[d] /\ n <= TokensOf(a, {d})
                           /\ AllStamped(a) => n = TokensOf(a, {d})
      BY <1>1, ScanBound
    <3>2. PICK old \in Nat, kept \in Nat :
             old = tx.token_usage[<<a, d>>] /\ kept = db.token_usage[<<a, d>>]
      BY <1>1, <1>2
    <3>3. old <= TokensOf(a, {d}) /\ kept <= TokensOf(a, {d}) /\ (AllStamped(a) => kept <= old)
      BY <1>1, <3>2 DEF Charged
    <3>4. tx'.token_usage[<<a, d>>] = IF n > 0 THEN n ELSE old
      BY <2>2, <3>1, <3>2
    <3>. QED  BY <3>1, <3>2, <3>3, <3>4
  <2>4. Charged(tx)'
    BY <1>3, <2>1, <2>2, <2>3 DEF Charged
  <2>5. Charged(db)'
    BY <1>1, <1>3, <2>1 DEF Charged
  <2>. QED  BY <1>3, <2>1, <2>3, <2>4, <2>5 DEF TokensInv
<1>7. CASE Environment
  <2>1. db' = db /\ tx' = tx
    BY <1>7 DEF Environment
  <2>2. SessionTypes' /\ Grown(sessions, sessions')
    BY <1>1, <1>7, SessionsGrow DEF Types
  <2>3. ASSUME NEW a \in Agents, NEW d \in Days
        PROVE  /\ TokensOf(a, {d}) <= TokensOf(a, {d})'
               /\ TokensOf(a, {d}) \in Nat /\ TokensOf(a, {d})' \in Nat
    BY <1>1, <2>2, TokensGrow
  <2>4. ASSUME NEW T, Charged(T), NEW a \in Agents, NEW d \in Days
        PROVE  T.token_usage[<<a, d>>] <= TokensOf(a, {d})'
    <3>1. T.token_usage[<<a, d>>] \in Nat /\ T.token_usage[<<a, d>>] <= TokensOf(a, {d})
      BY <2>4 DEF Charged
    <3>. QED  BY <2>3, <3>1
  <2>5. Charged(db)' /\ Charged(tx)'
    BY <1>1, <2>1, <2>4 DEF Charged
  <2>6. ASSUME NEW a, AllStamped(a)' PROVE AllStamped(a)
    BY <2>2, <2>6 DEF AllStamped, Grown, FilesOf
  <2>. QED  BY <1>1, <2>1, <2>2, <2>5, <2>6 DEF TokensInv
<1>. QED  BY <1>4, <1>5, <1>6, <1>7 DEF Next, Pass

-----------------------------------------------------------------------------
(* The remaining types.                                                    *)

RestTypes ==
    broken \in BOOLEAN /\ failures \in 0 .. MaxFailures /\ breaks \in 0 .. MaxBreaks

LEMMA RestStep ==
    ASSUME RestTypes, [Next]_vars
    PROVE  RestTypes'
<1>. USE DEF RestTypes
<1>1. MaxFailures \in Nat /\ MaxBreaks \in Nat
  BY LimitAssumption
<1>2. CASE Start \/ Pass \/ ReviewForm \/ UNCHANGED vars
  <2>1. UNCHANGED <<broken, failures, breaks>>
    <3>1. CASE Start \/ ReviewForm \/ UNCHANGED vars
      BY <3>1 DEF Start, ReviewForm, SubmitForm, OpenForm, vars, sources, status, faults
    <3>2. CASE Pass
      BY <3>2 DEF Pass, StoreMessage, CollectPostfixLog, FirstSelect, SecondSelect,
              SecondSelectRefused, StoreFuses, CollectTokenUsage, SyncPublicStatuses, LogRaises, SyncRaises,
              Commit, sources, status, faults
    <3>. QED  BY <1>2, <3>1, <3>2
  <2>. QED  BY <2>1
<1>3. CASE Fail
  BY <1>1, <1>3 DEF Fail, sources, status
<1>4. CASE Environment
  <2>1. failures' = failures
    BY <1>4 DEF Environment, faults
  <2>2. broken' \in BOOLEAN /\ breaks' \in 0 .. MaxBreaks
    <3>1. CASE BreakStatuses
      BY <1>1, <3>1 DEF BreakStatuses
    <3>2. CASE RepairStatuses \/ \E t \in Tags, s \in Statuses : SetStatus(t, s)
      BY <3>2 DEF RepairStatuses, SetStatus
    <3>3. CASE \/ \E m \in Mails : Deliver(m)
               \/ NextDay
               \/ \E l \in Lines : LogLine(l)
               \/ \E t \in Tags : WarnThread(t) \/ FreezeThread(t)
               \/ \E t \in Tags : DeleteFrozen(t) \/ DeleteWarned(t)
               \/ \E f \in Sessions : AppendRecord(f) \/ FinishRecord(f)
      BY <3>3 DEF Deliver, NextDay, LogLine, WarnThread, FreezeThread, DeleteFrozen, DeleteWarned,
              AppendRecord, FinishRecord, status
    <3>. QED  BY <1>4, <3>1, <3>2, <3>3 DEF Environment
  <2>. QED  BY <2>1, <2>2
<1>. QED  BY <1>2, <1>3, <1>4 DEF Next

LEMMA TablesType ==
    ASSUME NEW T, Columns(T), Charged(T), Dated(T), Backed(T)
    PROVE  T \in Tables
<1>1. T = [created_at |-> T.created_at, title |-> T.title, status |-> T.status,
           messages |-> T.messages, interventions |-> T.interventions, bounces |-> T.bounces,
           fuses |-> T.fuses, revisions |-> T.revisions, token_usage |-> T.token_usage]
  BY DEF Columns, ColumnNames
<1>2. T.interventions \in {f \in [(Tags \cup {NoTag}) \X (1 .. Now) -> Nat] :
                               \A k \in Tags \X (1 .. Now) : f[k] <= 1}
  <2>1. ASSUME NEW t \in Tags, NEW at \in 1 .. Now
        PROVE  T.interventions[<<t, at>>] <= 1
    BY DEF Backed
  <2>2. T.interventions \in [(Tags \cup {NoTag}) \X (1 .. Now) -> Nat]
    BY DEF Columns, Slots
  <2>. QED  BY <2>1, <2>2
<1>3. T.bounces \in SUBSET [line : Lines, type : BounceKind, year : Nat]
  BY DEF Dated, Bounce
<1>4. /\ T.created_at \in [Tags -> 0 .. Now] /\ T.title \in [Tags -> Titles \cup {NoTitle}]
      /\ T.status \in [Tags -> Statuses \cup {NoStatus}]
      /\ T.messages \in SUBSET (Mails \X (Agents \cup {NoRecipient}))
      /\ T.fuses \in [Stage -> [Tags -> Nat]]
      /\ T.revisions \in SUBSET [tag : Tags, to_agent : Agents, occurred_at : 1 .. Now,
                                 cycle_number : Nat]
      /\ T.token_usage \in [Agents \X Days -> Nat]
  BY DEF Columns, Charged, Row
<1>. QED  BY <1>1, <1>2, <1>3, <1>4, Zenon DEF Tables

-----------------------------------------------------------------------------
(* What a pass adds.                                                       *)

\* U has every row of T that the report counts.
Gains(T, U) ==
    /\ T.messages \subseteq U.messages
    /\ \A k \in Tags \X (1 .. Now) : T.interventions[k] = 1 => U.interventions[k] = 1
    /\ \A s \in Stage, t \in Tags : T.fuses[s][t] # 0 => U.fuses[s][t] # 0
    /\ T.bounces \subseteq U.bounces

LEMMA GainsStep ==
    ASSUME Types, RowsInv, LogInv, Gains(db, tx), [Next]_vars
    PROVE  Gains(db, tx)'
<1>. USE DEF Types
<1>1. Columns(tx) /\ Whole(tx) /\ Articles(tx)
  BY DEF RowsInv
<1>2. CASE Start \/ LogRaises \/ SyncRaises \/ Fail \/ Commit
  <2>1. tx' = db'
    BY <1>2 DEF Start, LogRaises, SyncRaises, Fail, Commit
  <2>. QED  BY <2>1 DEF Gains
<1>3. CASE FirstSelect \/ ReviewForm \/ Environment \/ UNCHANGED vars
  <2>1. tx' = tx /\ db' = db
    BY <1>3 DEF FirstSelect, ReviewForm, SubmitForm, OpenForm, Environment, vars
  <2>. QED  BY <2>1 DEF Gains
<1>4. CASE StoreMessage
  <2>1. PICK m \in Mails, cycle \in Nat : tx' = Added(tx, m, cycle) /\ db' = db
    BY <1>4, StoreForm
  <2>2. Extends(tx, tx') /\ tx'.bounces = tx.bounces /\ tx'.fuses = tx.fuses
    BY <1>1, <2>1, AddedMail
  <2>. QED  BY <2>1, <2>2 DEF Gains, Extends
<1>5. CASE CollectPostfixLog
  <2>1. PICK more : tx' = [tx EXCEPT !.bounces = @ \cup more] /\ db' = db
    BY <1>5 DEF CollectPostfixLog, WithLog
  <2>2. /\ tx.bounces \subseteq tx'.bounces /\ tx'.messages = tx.messages
        /\ tx'.interventions = tx.interventions /\ tx'.fuses = tx.fuses
    BY <1>1, <2>1 DEF Columns, ColumnNames
  <2>. QED  BY <2>1, <2>2 DEF Gains
<1>6. CASE SecondSelect \/ SecondSelectRefused
  <2>1. PICK rows \in [Stage -> [Tags -> Nat]] : tx' = Fuses(tx, rows) /\ db' = db
    BY <1>6, Selected
  <2>2. /\ tx'.bounces = tx.bounces /\ tx'.messages = tx.messages
        /\ tx'.interventions = tx.interventions
        /\ \A t \in Tags, s \in Stage :
              tx'.fuses[s][t] = IF tx.fuses[s][t] = 0 THEN rows[s][t] ELSE tx.fuses[s][t]
    BY <1>1, <2>1, BothFuses
  <2>. QED  BY <2>1, <2>2 DEF Gains
<1>7. CASE CollectTokenUsage
  <2>1. \A c \in ColumnNames \ {"token_usage"} : tx'[c] = tx[c]
    BY <1>1, <1>7, TokensKeep
  <2>2. /\ tx'.bounces = tx.bounces /\ tx'.messages = tx.messages /\ db' = db
        /\ tx'.interventions = tx.interventions /\ tx'.fuses = tx.fuses
    BY <1>7, <2>1 DEF ColumnNames, CollectTokenUsage
  <2>. QED  BY <2>2 DEF Gains
<1>8. CASE SyncPublicStatuses
  <2>1. /\ tx' = WithStatuses(tx) /\ articles_json \in [Tags -> Statuses \cup {NoStatus}]
        /\ db' = db
    BY <1>8 DEF SyncPublicStatuses, SourceTypes
  <2>2. /\ tx'.bounces = tx.bounces /\ tx'.messages = tx.messages
        /\ tx'.interventions = tx.interventions
        /\ \A t \in Tags, s \in Stage : tx'.fuses[s][t] = tx.fuses[s][t]
    BY <1>1, <2>1, StatusesKeep
  <2>. QED  BY <2>1, <2>2 DEF Gains
<1>. QED  BY <1>2, <1>3, <1>4, <1>5, <1>6, <1>7, <1>8 DEF Next, Pass

-----------------------------------------------------------------------------
(* How many review cycles there are.                                       *)

ReviewsOf(t) == {n \in Mails : parse_message(n) /\ IsReview(n) /\ Mail[n].tag = t}

\* The copies of t's reviews in a maildir; those among the records rs.
CopiesOf(md, t) == UNION {{m} \X (1 .. md[m]) : m \in ReviewsOf(t)}

AheadIn(rs, t) == {i \in 1 .. Len(rs) : IsReview(rs[i]) /\ Mail[rs[i]].tag = t}

LEMMA CopiesFinite ==
    ASSUME NEW md \in [Mails -> Nat], NEW t
    PROVE  IsFiniteSet(CopiesOf(md, t)) /\ Cardinality(CopiesOf(md, t)) \in Nat
<1>1. ReviewsOf(t) \in SUBSET Mails
  BY DEF ReviewsOf
<1>2. IsFiniteSet(ReviewsOf(t))
  BY <1>1, RecordAssumption, FS_Subset
<1>3. PICK s : s = [m \in ReviewsOf(t) |-> 1 .. md[m]]
  OBVIOUS
<1>4. ASSUME NEW m \in ReviewsOf(t) PROVE IsFiniteSet(s[m])
  <2>1. 1 \in Int /\ md[m] \in Int
    BY <1>1
  <2>2. IsFiniteSet(1 .. md[m])
    BY <2>1, FS_Interval
  <2>. QED  BY <1>3, <2>2
<1>5. IsFiniteSet(UNION {{m} \X s[m] : m \in ReviewsOf(t)})
  BY <1>2, <1>4, MarkedUnion
<1>6. {{m} \X s[m] : m \in ReviewsOf(t)} = {{m} \X (1 .. md[m]) : m \in ReviewsOf(t)}
  BY <1>3
<1>7. IsFiniteSet(CopiesOf(md, t))
  BY <1>5, <1>6, Zenon DEF CopiesOf
<1>. QED  BY <1>7, FS_CardinalityType

LEMMA CopiesGrow ==
    ASSUME NEW md \in [Mails -> Nat], NEW me \in [Mails -> Nat], NEW t,
           \A m \in Mails : md[m] <= me[m]
    PROVE  Cardinality(CopiesOf(md, t)) <= Cardinality(CopiesOf(me, t))
<1>1. ASSUME NEW c \in CopiesOf(md, t) PROVE c \in CopiesOf(me, t)
  <2>1. PICK m \in ReviewsOf(t) : c \in {m} \X (1 .. md[m])
    BY DEF CopiesOf
  <2>2. m \in Mails /\ md[m] \in Nat /\ me[m] \in Nat /\ md[m] <= me[m]
    BY DEF ReviewsOf
  <2>3. c \in {m} \X (1 .. me[m])
    BY <2>1, <2>2
  <2>. QED  BY <2>3 DEF CopiesOf
<1>2. CopiesOf(md, t) \in SUBSET CopiesOf(me, t)
  BY <1>1
<1>3. IsFiniteSet(CopiesOf(me, t))
  BY CopiesFinite
<1>. QED  BY <1>2, <1>3, FS_Subset

LEMMA AheadFinite ==
    ASSUME NEW rs \in Seq(Mails), NEW t
    PROVE  IsFiniteSet(AheadIn(rs, t)) /\ Cardinality(AheadIn(rs, t)) \in Nat
<1>1. 1 \in Int /\ Len(rs) \in Int
  OBVIOUS
<1>2. IsFiniteSet(1 .. Len(rs))
  BY <1>1, FS_Interval
<1>3. AheadIn(rs, t) \in SUBSET (1 .. Len(rs))
  BY DEF AheadIn
<1>4. IsFiniteSet(AheadIn(rs, t))
  BY <1>2, <1>3, FS_Subset
<1>. QED  BY <1>4, FS_CardinalityType

\* The records of a pass hold every copy.
LEMMA AheadAll ==
    ASSUME maildir \in [Mails -> Nat], NEW s \in Readings, NEW t
    PROVE  Cardinality(AheadIn(s, t)) = Cardinality(CopiesOf(maildir, t))
<1>1. /\ s \in Seq(Mails)
      /\ \A i \in 1 .. Len(s) : parse_message(s[i]) /\ maildir[s[i]] > 0
      /\ \A m \in Mails : parse_message(m) =>
            Cardinality({i \in 1 .. Len(s) : s[i] = m}) = maildir[m]
  BY ReadingsFacts
<1>. DEFINE places(m) == {i \in 1 .. Len(s) : s[i] = m}
            b == [m \in ReviewsOf(t) |-> CHOOSE g : g \in Bijection(1 .. maildir[m], places(m))]
<1>2. ASSUME NEW m \in ReviewsOf(t)
      PROVE  b[m] \in Bijection(1 .. maildir[m], places(m))
  <2>1. Cardinality(places(m)) = maildir[m]
    BY <1>1 DEF ReviewsOf
  <2>2. IsFiniteSet(places(m))
    <3>1. 1 \in Int /\ Len(s) \in Int
      BY <1>1
    <3>2. IsFiniteSet(1 .. Len(s))
      BY <3>1, FS_Interval
    <3>3. places(m) \in SUBSET (1 .. Len(s))
      OBVIOUS
    <3>. QED  BY <3>2, <3>3, FS_Subset
  <2>3. ExistsBijection(1 .. maildir[m], places(m))
    BY <2>1, <2>2, FS_CardinalityType
  <2>4. \E g : g \in Bijection(1 .. maildir[m], places(m))
    BY <2>3, Zenon DEF ExistsBijection
  <2>. QED  BY <2>4
<1>. HIDE DEF b
<1>10. PICK glued : glued = [c \in CopiesOf(maildir, t) |-> b[c[1]][c[2]]]
  OBVIOUS
<1>3. ASSUME NEW c \in CopiesOf(maildir, t)
      PROVE  /\ c[1] \in ReviewsOf(t) /\ c[2] \in 1 .. maildir[c[1]] /\ c = <<c[1], c[2]>>
             /\ glued[c] \in AheadIn(s, t) /\ s[glued[c]] = c[1]
  <2>1. PICK m \in ReviewsOf(t) : c \in {m} \X (1 .. maildir[m])
    BY DEF CopiesOf
  <2>2. c[1] = m /\ c[2] \in 1 .. maildir[m] /\ c = <<c[1], c[2]>>
    BY <2>1
  <2>3. b[m] \in [1 .. maildir[m] -> places(m)]
    BY <1>2 DEF Bijection, Injection
  <2>4. b[m][c[2]] \in places(m)
    BY <2>2, <2>3
  <2>5. glued[c] = b[m][c[2]]
    BY <1>10, <2>2
  <2>6. IsReview(m) /\ Mail[m].tag = t
    BY DEF ReviewsOf
  <2>. QED  BY <2>2, <2>4, <2>5, <2>6 DEF AheadIn
<1>4. ASSUME NEW c \in CopiesOf(maildir, t), NEW d \in CopiesOf(maildir, t), glued[c] = glued[d]
      PROVE  c = d
  <2>1. c[1] = d[1] /\ c[1] \in ReviewsOf(t) /\ c[2] \in 1 .. maildir[c[1]] /\ d[2] \in 1 .. maildir[c[1]]
        /\ c = <<c[1], c[2]>> /\ d = <<d[1], d[2]>>
    <3>1. /\ c[1] \in ReviewsOf(t) /\ c[2] \in 1 .. maildir[c[1]] /\ c = <<c[1], c[2]>>
          /\ s[glued[c]] = c[1]
      BY <1>3
    <3>2. d[2] \in 1 .. maildir[d[1]] /\ d = <<d[1], d[2]>> /\ s[glued[d]] = d[1]
      BY <1>3
    <3>3. c[1] = d[1]
      BY <1>4, <3>1, <3>2
    <3>. QED  BY <3>1, <3>2, <3>3
  <2>2. b[c[1]][c[2]] = b[c[1]][d[2]]
    <3>1. glued[c] = b[c[1]][c[2]] /\ glued[d] = b[d[1]][d[2]]
      BY <1>10
    <3>. QED  BY <1>4, <2>1, <3>1
  <2>3. b[c[1]] \in Injection(1 .. maildir[c[1]], places(c[1]))
    BY <1>2, <2>1 DEF Bijection
  <2>4. c[2] = d[2]
    BY <2>1, <2>2, <2>3 DEF Injection, IsInjective
  <2>. QED  BY <2>1, <2>4
<1>5. ASSUME NEW i \in AheadIn(s, t) PROVE \E c \in CopiesOf(maildir, t) : glued[c] = i
  <2>1. i \in 1 .. Len(s) /\ s[i] \in ReviewsOf(t)
    BY <1>1 DEF AheadIn, ReviewsOf
  <2>2. b[s[i]] \in Surjection(1 .. maildir[s[i]], places(s[i]))
    BY <1>2, <2>1 DEF Bijection
  <2>3. i \in places(s[i])
    BY <2>1
  <2>4. PICK k \in 1 .. maildir[s[i]] : b[s[i]][k] = i
    BY <2>2, <2>3 DEF Surjection
  <2>5. <<s[i], k>> \in CopiesOf(maildir, t)
    BY <2>1 DEF CopiesOf
  <2>6. glued[<<s[i], k>>] = b[s[i]][k]
    BY <1>10, <2>5
  <2>. QED  BY <2>4, <2>5, <2>6
<1>6. glued \in Bijection(CopiesOf(maildir, t), AheadIn(s, t))
  <2>1. glued \in [CopiesOf(maildir, t) -> AheadIn(s, t)]
    <3>1. DOMAIN glued = CopiesOf(maildir, t) /\ glued = [c \in CopiesOf(maildir, t) |-> glued[c]]
      BY <1>10
    <3>2. \A c \in CopiesOf(maildir, t) : glued[c] \in AheadIn(s, t)
      BY <1>3
    <3>. QED  BY <3>1, <3>2
  <2>2. \A c, d \in CopiesOf(maildir, t) : glued[c] = glued[d] => c = d
    BY <1>4
  <2>3. \A i \in AheadIn(s, t) : \E c \in CopiesOf(maildir, t) : glued[c] = i
    BY <1>5
  <2>. QED  BY <2>1, <2>2, <2>3 DEF Bijection, Injection, Surjection, IsInjective
<1>7. IsFiniteSet(CopiesOf(maildir, t))
  BY CopiesFinite
<1>8. ExistsBijection(CopiesOf(maildir, t), AheadIn(s, t))
  BY <1>6, Zenon DEF ExistsBijection
<1>. QED  BY <1>7, <1>8, FS_Bijection

LEMMA AheadNext ==
    ASSUME NEW rs \in Seq(Mails), rs # <<>>, NEW t
    PROVE  Cardinality(AheadIn(rs, t)) =
             IF IsReview(Head(rs)) /\ Mail[Head(rs)].tag = t
             THEN Cardinality(AheadIn(Tail(rs), t)) + 1
             ELSE Cardinality(AheadIn(Tail(rs), t))
<1>. DEFINE shift == [i \in AheadIn(Tail(rs), t) |-> i + 1]
            Rest == AheadIn(rs, t) \ {1}
<1>1. /\ Tail(rs) \in Seq(Mails) /\ Len(rs) \in Nat /\ Len(Tail(rs)) = Len(rs) - 1
      /\ \A i \in 1 .. Len(rs) - 1 : Tail(rs)[i] = rs[i + 1]
      /\ Head(rs) = rs[1] /\ 1 \in 1 .. Len(rs)
  OBVIOUS
<1>2. ASSUME NEW i \in AheadIn(Tail(rs), t) PROVE i \in Nat /\ i + 1 \in Rest
  BY <1>1 DEF AheadIn
<1>3. ASSUME NEW j \in Rest PROVE j - 1 \in AheadIn(Tail(rs), t) /\ (j - 1) + 1 = j
  BY <1>1 DEF AheadIn
<1>4. shift \in Bijection(AheadIn(Tail(rs), t), Rest)
  <2>1. shift \in [AheadIn(Tail(rs), t) -> Rest]
    BY <1>2
  <2>2. \A i, j \in AheadIn(Tail(rs), t) : shift[i] = shift[j] => i = j
    BY <1>2
  <2>3. \A j \in Rest : \E i \in AheadIn(Tail(rs), t) : shift[i] = j
    BY <1>3
  <2>. QED  BY <2>1, <2>2, <2>3 DEF Bijection, Injection, Surjection, IsInjective
<1>5. IsFiniteSet(AheadIn(Tail(rs), t)) /\ IsFiniteSet(AheadIn(rs, t))
      /\ Cardinality(AheadIn(Tail(rs), t)) \in Nat /\ Cardinality(AheadIn(rs, t)) \in Nat
  BY <1>1, AheadFinite
<1>6. Cardinality(Rest) = Cardinality(AheadIn(Tail(rs), t))
  <2>1. ExistsBijection(AheadIn(Tail(rs), t), Rest)
    BY <1>4, Zenon DEF ExistsBijection
  <2>. QED  BY <1>5, <2>1, FS_Bijection
<1>7. Cardinality(Rest) = IF 1 \in AheadIn(rs, t) THEN Cardinality(AheadIn(rs, t)) - 1
                          ELSE Cardinality(AheadIn(rs, t))
  BY <1>5, FS_RemoveElement
<1>8. 1 \in AheadIn(rs, t) <=> IsReview(Head(rs)) /\ Mail[Head(rs)].tag = t
  BY <1>1 DEF AheadIn
<1>. HIDE DEF Rest
<1>. QED  BY <1>5, <1>6, <1>7, <1>8

\* The cycles of t that a pass has counted or has still to count.
KnownIn(cycles, rs, t) == cycles[t] + Cardinality(AheadIn(rs, t))

\* No cycle has a number that the copies of the maildir do not account for.
CountedIn(T, md) ==
    \A r \in T.revisions : r.cycle_number \in 1 .. Cardinality(CopiesOf(md, r.tag))

CountsInv ==
    /\ CountedIn(db, maildir) /\ CountedIn(tx, maildir)
    /\ pc = "maildir" => \A t \in Tags :
        /\ KnownIn(revision_cycles, records, t) <= Cardinality(CopiesOf(maildir, t))
        /\ \A r \in db.revisions : r.tag = t => r.cycle_number <= KnownIn(revision_cycles, records, t)
        /\ revision_cycles[t] # 0 =>
            \E r \in tx.revisions : r.tag = t /\ r.cycle_number = revision_cycles[t]
    /\ pc # "maildir" =>
        \A r \in db.revisions : \E s \in tx.revisions : s.tag = r.tag /\ s.cycle_number >= r.cycle_number

LEMMA MaildirGrows ==
    ASSUME maildir \in [Mails -> Nat], Environment
    PROVE  \A m \in Mails : maildir[m] <= maildir'[m]
<1>1. ASSUME NEW n \in Mails, Deliver(n) PROVE \A m \in Mails : maildir[m] <= maildir'[m]
  BY <1>1 DEF Deliver
<1>2. ASSUME maildir' = maildir PROVE \A m \in Mails : maildir[m] <= maildir'[m]
  BY <1>2
<1>3. (\E n \in Mails : Deliver(n)) \/ maildir' = maildir
  BY Zenon DEF Environment, NextDay, LogLine, WarnThread, FreezeThread, DeleteFrozen, DeleteWarned,
          AppendRecord, FinishRecord, SetStatus, BreakStatuses, RepairStatuses, newsroom
<1>. QED  BY <1>1, <1>2, <1>3

LEMMA CountedGrows ==
    ASSUME NEW T, T.revisions \subseteq Row, NEW md \in [Mails -> Nat], NEW me \in [Mails -> Nat],
           CountedIn(T, md), \A m \in Mails : md[m] <= me[m]
    PROVE  CountedIn(T, me)
<1>1. ASSUME NEW r \in T.revisions
      PROVE  r.cycle_number \in 1 .. Cardinality(CopiesOf(me, r.tag))
  <2>1. PICK x, y : x = Cardinality(CopiesOf(md, r.tag)) /\ y = Cardinality(CopiesOf(me, r.tag))
    OBVIOUS
  <2>2. x <= y
    BY <2>1, CopiesGrow
  <2>3. x \in Nat /\ y \in Nat
    BY <2>1, CopiesFinite
  <2>4. r.cycle_number \in 1 .. x
    BY <2>1 DEF CountedIn
  <2>5. r.cycle_number \in 1 .. y
    BY <2>2, <2>3, <2>4
  <2>. QED  BY <2>1, <2>5
<1>. QED  BY <1>1 DEF CountedIn

LEMMA StoreCounts ==
    ASSUME Types, RowsInv, CountsInv, StoreMessage
    PROVE  CountsInv'
<1>1. PICK m \in Mails, cycle \in Nat :
             /\ pc = "maildir" /\ records # <<>> /\ m = Head(records) /\ records' = Tail(records)
             /\ tx' = Added(tx, m, cycle)
             /\ IsReview(m) =>
                    /\ cycle = revision_cycles[Mail[m].tag] + 1
                    /\ revision_cycles' = [revision_cycles EXCEPT ![Mail[m].tag] = cycle]
             /\ ~IsReview(m) => revision_cycles' = revision_cycles
             /\ UNCHANGED <<sources, db, pc, review, selected, log_year, faults>>
  BY StoreForm DEF Types
<1>2. /\ records \in Seq(Mails) /\ records' \in Seq(Mails) /\ revision_cycles \in [Tags -> Nat]
      /\ Columns(tx) /\ tx.revisions \subseteq Row
      /\ maildir' = maildir /\ db' = db /\ pc' = pc /\ maildir \in [Mails -> Nat]
  <2>1. /\ records \in Seq(Mails) /\ revision_cycles \in [Tags -> Nat]
        /\ maildir \in [Mails -> Nat]
    BY DEF Types, ProcessTypes, SourceTypes
  <2>2. Columns(tx) /\ tx.revisions \subseteq Row
    BY DEF RowsInv, Columns
  <2>3. maildir' = maildir /\ db' = db /\ pc' = pc
    BY <1>1 DEF sources, newsroom
  <2>4. records' \in Seq(Mails)
    BY <1>1, <2>1
  <2>. QED  BY <2>1, <2>2, <2>3, <2>4
<1>3. /\ CountedIn(db, maildir) /\ CountedIn(tx, maildir)
      /\ \A t \in Tags :
            /\ KnownIn(revision_cycles, records, t) <= Cardinality(CopiesOf(maildir, t))
            /\ \A r \in db.revisions :
                  r.tag = t => r.cycle_number <= KnownIn(revision_cycles, records, t)
            /\ revision_cycles[t] # 0 =>
                \E r \in tx.revisions : r.tag = t /\ r.cycle_number = revision_cycles[t]
  BY <1>1 DEF CountsInv
<1>4. ASSUME NEW t \in Tags
      PROVE  Cardinality(AheadIn(records, t)) =
                IF IsReview(m) /\ Mail[m].tag = t
                THEN Cardinality(AheadIn(records', t)) + 1 ELSE Cardinality(AheadIn(records', t))
  BY <1>1, <1>2, AheadNext
<1>5. ASSUME NEW t \in Tags
      PROVE  Cardinality(AheadIn(records, t)) \in Nat /\ Cardinality(AheadIn(records', t)) \in Nat
  BY <1>2, AheadFinite
\* What is known does not change.
<1>6. ASSUME NEW t \in Tags
      PROVE  KnownIn(revision_cycles', records', t) = KnownIn(revision_cycles, records, t)
  <2>1. CASE IsReview(m) /\ Mail[m].tag = t
    <3>1. revision_cycles'[t] = revision_cycles[t] + 1 /\ revision_cycles[t] \in Nat
      BY <1>1, <1>2, <2>1
    <3>2. Cardinality(AheadIn(records, t)) = Cardinality(AheadIn(records', t)) + 1
      BY <1>4, <2>1
    <3>. QED  BY <1>5, <3>1, <3>2 DEF KnownIn
  <2>2. CASE ~(IsReview(m) /\ Mail[m].tag = t)
    <3>1. revision_cycles'[t] = revision_cycles[t]
      BY <1>1, <1>2, <2>2
    <3>2. Cardinality(AheadIn(records, t)) = Cardinality(AheadIn(records', t))
      BY <1>4, <2>2
    <3>. QED  BY <3>1, <3>2 DEF KnownIn
  <2>. QED  BY <2>1, <2>2
<1>7. Columns(tx) /\ tx' = Added(tx, m, cycle)
  BY <1>1, <1>2
<1>8. CASE ~IsReview(m)
  <2>1. tx'.revisions = tx.revisions
    BY <1>7, <1>8, AddedMail
  <2>2. revision_cycles' = revision_cycles
    BY <1>1, <1>8
  <2>3. CountedIn(tx, maildir)' /\ CountedIn(db, maildir)'
    BY <1>2, <1>3, <2>1 DEF CountedIn
  <2>4. ASSUME NEW t \in Tags
        PROVE  /\ KnownIn(revision_cycles', records', t) <= Cardinality(CopiesOf(maildir', t))
               /\ \A r \in db'.revisions :
                    r.tag = t => r.cycle_number <= KnownIn(revision_cycles', records', t)
               /\ revision_cycles'[t] # 0 =>
                    \E r \in tx'.revisions : r.tag = t /\ r.cycle_number = revision_cycles'[t]
    BY <1>2, <1>3, <1>6, <2>1, <2>2
  <2>. QED  BY <1>1, <1>2, <2>3, <2>4 DEF CountsInv
<1>9. CASE IsReview(m)
  <2>1. PICK r \in Row : /\ RowOf(m, r) /\ r.cycle_number = cycle
                         /\ tx'.revisions = {q \in tx.revisions : ~RowOf(m, q)} \cup {r}
    BY <1>7, <1>9, AddedMail
  <2>2. /\ r.tag = Mail[m].tag /\ r.tag \in Tags /\ r.cycle_number = revision_cycles[r.tag] + 1
        /\ revision_cycles' = [revision_cycles EXCEPT ![r.tag] = r.cycle_number]
        /\ \A q : RowOf(m, q) => q.tag = r.tag
    BY <1>1, <1>9, <2>1 DEF RowOf, Row
  <2>3. r.cycle_number \in 1 .. Cardinality(CopiesOf(maildir, r.tag))
    <3>1. PICK now, left, copies : /\ now = revision_cycles[r.tag]
                                   /\ left = Cardinality(AheadIn(records, r.tag))
                                   /\ copies = Cardinality(CopiesOf(maildir, r.tag))
      OBVIOUS
    <3>2. now + left <= copies
      BY <1>3, <2>2, <3>1 DEF KnownIn
    <3>3. left = Cardinality(AheadIn(records', r.tag)) + 1
      BY <1>4, <1>9, <2>2, <3>1
    <3>4. Cardinality(AheadIn(records', r.tag)) \in Nat /\ now \in Nat
      BY <1>2, <1>5, <2>2, <3>1
    <3>5. copies \in Nat
      BY <1>2, <3>1, CopiesFinite
    <3>6. now + 1 \in 1 .. copies
      BY <3>2, <3>3, <3>4, <3>5
    <3>. QED  BY <2>2, <3>1, <3>6
  <2>4. CountedIn(tx, maildir)' /\ CountedIn(db, maildir)'
    <3>1. ASSUME NEW q \in tx'.revisions
          PROVE  q.cycle_number \in 1 .. Cardinality(CopiesOf(maildir, q.tag))
      <4>1. CASE q \in tx.revisions
        BY <1>3, <4>1 DEF CountedIn
      <4>2. CASE q = r
        BY <2>3, <4>2
      <4>. QED  BY <2>1, <4>1, <4>2
    <3>. QED  BY <1>2, <1>3, <3>1 DEF CountedIn
  <2>5. ASSUME NEW t \in Tags, revision_cycles'[t] # 0
        PROVE  \E q \in tx'.revisions : q.tag = t /\ q.cycle_number = revision_cycles'[t]
    <3>1. CASE t = r.tag
      <4>1. revision_cycles'[t] = r.cycle_number /\ r \in tx'.revisions
        BY <1>2, <2>1, <2>2, <3>1
      <4>. QED  BY <3>1, <4>1
    <3>2. CASE t # r.tag
      <4>1. revision_cycles'[t] = revision_cycles[t]
        BY <1>2, <2>2, <3>2
      <4>2. PICK q \in tx.revisions : q.tag = t /\ q.cycle_number = revision_cycles[t]
        BY <1>3, <2>5, <4>1
      <4>3. q \in tx'.revisions
        BY <2>1, <2>2, <3>2, <4>2
      <4>. QED  BY <4>1, <4>2, <4>3
    <3>. QED  BY <3>1, <3>2
  <2>6. ASSUME NEW t \in Tags
        PROVE  /\ KnownIn(revision_cycles', records', t) <= Cardinality(CopiesOf(maildir', t))
               /\ \A q \in db'.revisions :
                    q.tag = t => q.cycle_number <= KnownIn(revision_cycles', records', t)
    BY <1>2, <1>3, <1>6
  <2>. QED  BY <1>1, <1>2, <2>4, <2>5, <2>6 DEF CountsInv
<1>. QED  BY <1>8, <1>9

LEMMA CountsStep ==
    ASSUME Types, RowsInv, CountsInv, [Next]_vars
    PROVE  CountsInv'
<1>1. Columns(tx) /\ Whole(tx) /\ Articles(tx) /\ Columns(db) /\ maildir \in [Mails -> Nat]
      /\ tx.revisions \subseteq Row /\ db.revisions \subseteq Row
  BY DEF RowsInv, Types, SourceTypes, Columns
<1>2. CASE StoreMessage
  BY <1>2, StoreCounts
<1>3. CASE Start
  <2>1. /\ tx' = db /\ db' = db /\ maildir' = maildir /\ pc' = "maildir"
        /\ records' \in Readings /\ revision_cycles' = revision_cycles
        /\ revision_cycles = NoCycles
    BY <1>3 DEF Start, sources, newsroom, Types, ProcessTypes
  <2>2. CountedIn(db, maildir)
    BY DEF CountsInv
  <2>3. ASSUME NEW t \in Tags
        PROVE  /\ KnownIn(revision_cycles', records', t) = Cardinality(CopiesOf(maildir, t))
               /\ revision_cycles'[t] = 0
    <3>1. Cardinality(AheadIn(records', t)) = Cardinality(CopiesOf(maildir, t))
      BY <1>1, <2>1, AheadAll
    <3>2. Cardinality(CopiesOf(maildir, t)) \in Nat
      BY <1>1, CopiesFinite
    <3>3. revision_cycles'[t] = 0
      BY <2>1 DEF NoCycles
    <3>. QED  BY <3>1, <3>2, <3>3 DEF KnownIn
  <2>4. ASSUME NEW t \in Tags
        PROVE  /\ KnownIn(revision_cycles', records', t) <= Cardinality(CopiesOf(maildir', t))
               /\ \A r \in db'.revisions :
                    r.tag = t => r.cycle_number <= KnownIn(revision_cycles', records', t)
               /\ revision_cycles'[t] = 0
    <3>1. PICK copies \in Nat : copies = Cardinality(CopiesOf(maildir, t))
      BY <1>1, CopiesFinite
    <3>2. \A r \in db.revisions : r.tag = t => r.cycle_number \in 1 .. copies
      BY <2>2, <3>1 DEF CountedIn
    <3>3. KnownIn(revision_cycles', records', t) = copies /\ revision_cycles'[t] = 0
      BY <2>3, <3>1
    <3>. QED  BY <2>1, <3>1, <3>2, <3>3
  <2>5. CountedIn(db, maildir)' /\ CountedIn(tx, maildir)'
    BY <2>1, <2>2 DEF CountedIn
  <2>. QED  BY <2>1, <2>4, <2>5 DEF CountsInv
<1>4. ASSUME NEW T, T.revisions \subseteq Row, NEW r \in T.revisions
      PROVE  r.cycle_number >= r.cycle_number
  BY <1>4 DEF Row
<1>5. CASE LogRaises \/ SyncRaises \/ Fail \/ Commit
  <2>1. tx' = db' /\ db' \in {db, tx} /\ maildir' = maildir /\ pc' = "off"
    BY <1>5 DEF LogRaises, SyncRaises, Fail, Commit, Exit, sources, newsroom
  <2>2. CountedIn(db, maildir)' /\ CountedIn(tx, maildir)'
    BY <2>1 DEF CountedIn, CountsInv
  <2>3. \A r \in db'.revisions : r.cycle_number >= r.cycle_number
    BY <1>1, <1>4, <2>1
  <2>. QED  BY <2>1, <2>2, <2>3 DEF CountsInv
<1>6. CASE CollectPostfixLog
  <2>1. /\ db' = db /\ maildir' = maildir /\ pc' = "first_select"
        /\ pc = "maildir" /\ records = <<>>
    BY <1>6 DEF CollectPostfixLog, sources, newsroom
  <2>2. tx'.revisions = tx.revisions
    <3>1. PICK bounces : tx' = [tx EXCEPT !.bounces = bounces]
      BY <1>6 DEF CollectPostfixLog, WithLog
    <3>. QED  BY <1>1, <3>1 DEF Columns, ColumnNames
  <2>3. CountedIn(db, maildir)' /\ CountedIn(tx, maildir)'
    BY <2>1, <2>2 DEF CountedIn, CountsInv
  <2>4. ASSUME NEW r \in db.revisions
        PROVE  \E s \in tx.revisions : s.tag = r.tag /\ s.cycle_number >= r.cycle_number
    <3>1. r.tag \in Tags /\ r.cycle_number \in Nat
      BY <1>1 DEF Row
    <3>2. PICK now \in Nat : now = revision_cycles[r.tag]
      BY <3>1 DEF Types, ProcessTypes
    <3>3. Cardinality(AheadIn(records, r.tag)) = 0
      <4>1. AheadIn(records, r.tag) = {}
        BY <2>1 DEF AheadIn
      <4>. QED  BY <4>1, FS_EmptySet
    <3>4. KnownIn(revision_cycles, records, r.tag) = now
      BY <3>2, <3>3 DEF KnownIn
    <3>5. r.cycle_number <= now
      BY <2>1, <3>1, <3>4 DEF CountsInv
    <3>6. r.cycle_number >= 1
      <4>1. r.cycle_number \in 1 .. Cardinality(CopiesOf(maildir, r.tag))
        BY DEF CountsInv, CountedIn
      <4>. QED  BY <4>1
    <3>7. now # 0
      BY <3>1, <3>5, <3>6
    <3>8. PICK s \in tx.revisions : s.tag = r.tag /\ s.cycle_number = now
      BY <2>1, <3>1, <3>2, <3>7 DEF CountsInv
    <3>. QED  BY <3>1, <3>2, <3>5, <3>8
  <2>. QED  BY <2>1, <2>2, <2>3, <2>4 DEF CountsInv
<1>7. CASE \/ FirstSelect \/ SecondSelect \/ SecondSelectRefused
           \/ CollectTokenUsage \/ SyncPublicStatuses
  <2>1. db' = db /\ maildir' = maildir /\ pc # "maildir" /\ pc' # "maildir"
    BY <1>7 DEF FirstSelect, SecondSelect, SecondSelectRefused, StoreFuses, CollectTokenUsage,
            SyncPublicStatuses, sources, newsroom
  <2>2. tx'.revisions = tx.revisions
    <3>1. CASE FirstSelect
      BY <3>1 DEF FirstSelect
    <3>2. CASE SecondSelect \/ SecondSelectRefused
      <4>1. PICK rows \in [Stage -> [Tags -> Nat]] : tx' = Fuses(tx, rows)
        BY <3>2, Selected DEF Types
      <4>. QED  BY <1>1, <4>1, BothFuses
    <3>3. CASE CollectTokenUsage
      <4>1. \A c \in ColumnNames \ {"token_usage"} : tx'[c] = tx[c]
        BY <1>1, <3>3, TokensKeep
      <4>. QED  BY <4>1 DEF ColumnNames
    <3>4. CASE SyncPublicStatuses
      <4>1. tx' = WithStatuses(tx) /\ articles_json \in [Tags -> Statuses \cup {NoStatus}]
        BY <3>4 DEF SyncPublicStatuses, Types, SourceTypes
      <4>. QED  BY <1>1, <4>1, StatusesKeep
    <3>. QED  BY <1>7, <3>1, <3>2, <3>3, <3>4
  <2>. QED  BY <2>1, <2>2 DEF CountsInv, CountedIn
<1>8. CASE ReviewForm \/ UNCHANGED vars
  <2>1. UNCHANGED <<db, tx, pc, records, revision_cycles, maildir>>
    BY <1>8 DEF ReviewForm, SubmitForm, OpenForm, vars, sources, newsroom, local
  <2>. QED  BY <2>1 DEF CountsInv, CountedIn
<1>9. CASE Environment
  <2>1. UNCHANGED <<db, tx, pc, records, revision_cycles>> /\ maildir' \in [Mails -> Nat]
    BY <1>9, EnvironmentStep DEF Types, SourceTypes, local
  <2>2. \A m \in Mails : maildir[m] <= maildir'[m]
    BY <1>1, <1>9, MaildirGrows
  <2>3. CountedIn(db, maildir) /\ CountedIn(tx, maildir)
    BY DEF CountsInv
  <2>4. CountedIn(db, maildir') /\ CountedIn(tx, maildir')
    BY <1>1, <2>1, <2>2, <2>3, CountedGrows
  <2>5. CountedIn(db, maildir)' /\ CountedIn(tx, maildir)'
    BY <2>1, <2>4 DEF CountedIn
  <2>6. ASSUME NEW t \in Tags, pc = "maildir"
        PROVE  KnownIn(revision_cycles, records, t) <= Cardinality(CopiesOf(maildir', t))
    <3>1. PICK x, y, z : /\ x = KnownIn(revision_cycles, records, t)
                         /\ y = Cardinality(CopiesOf(maildir, t))
                         /\ z = Cardinality(CopiesOf(maildir', t))
      OBVIOUS
    <3>2. x <= y
      BY <2>6, <3>1 DEF CountsInv
    <3>3. y <= z
      BY <1>1, <2>1, <2>2, <3>1, CopiesGrow
    <3>4. y \in Nat /\ z \in Nat
      BY <1>1, <2>1, <3>1, CopiesFinite
    <3>5. x \in Nat
      <4>1. Cardinality(AheadIn(records, t)) \in Nat
        BY AheadFinite DEF Types, ProcessTypes
      <4>2. revision_cycles[t] \in Nat
        BY DEF Types, ProcessTypes
      <4>. QED  BY <3>1, <4>1, <4>2 DEF KnownIn
    <3>. QED  BY <3>1, <3>2, <3>3, <3>4, <3>5
  <2>. QED  BY <2>1, <2>5, <2>6 DEF CountsInv
<1>. QED  BY <1>2, <1>3, <1>5, <1>6, <1>7, <1>8, <1>9 DEF Next, Pass

-----------------------------------------------------------------------------
(* The numbers of the report never fall.                                   *)

LEMMA Fewer ==
    ASSUME NEW S, NEW T, IsFiniteSet(T), S \subseteq T
    PROVE  Cardinality(T) >= Cardinality(S)
<1>1. S \in SUBSET T
  OBVIOUS
<1>2. Cardinality(S) <= Cardinality(T) /\ IsFiniteSet(S)
  BY <1>1, FS_Subset
<1>3. Cardinality(S) \in Nat /\ Cardinality(T) \in Nat
  BY <1>2, FS_CardinalityType
<1>. QED  BY <1>2, <1>3

\* The elements above x shrink as x grows, and cannot do so for ever.
LEMMA FiniteMax ==
    ASSUME NEW S \in SUBSET Nat, IsFiniteSet(S), S # {}
    PROVE  \E x \in S : \A y \in S : x >= y
<1>. DEFINE above(x) == {y \in S : y > x}
            Aboves == {above(x) : x \in S}
            R == StrictSubsetOrdering(S)
<1>1. IsWellFoundedOn(R, FiniteSubsetsOf(S))
  BY FS_StrictSubsetOrderingWellFounded
<1>2. Aboves \subseteq FiniteSubsetsOf(S) /\ Aboves # {}
  <2>1. FiniteSubsetsOf(S) = SUBSET S
    BY FS_FiniteSubsetsOfFinite
  <2>2. \A x \in S : above(x) \in SUBSET S
    OBVIOUS
  <2>3. Aboves \subseteq SUBSET S
    BY <2>2
  <2>4. PICK x \in S : TRUE
    OBVIOUS
  <2>5. above(x) \in Aboves
    OBVIOUS
  <2>. HIDE DEF Aboves
  <2>. QED  BY <2>1, <2>3, <2>5
<1>3. PICK U \in Aboves : \A V \in Aboves : ~ (<<V, U>> \in R)
  <2>. HIDE DEF R, Aboves
  <2>. QED  BY <1>1, <1>2, WFMin
<1>4. PICK x \in S : U = above(x)
  OBVIOUS
<1>5. ASSUME NEW y \in S, ~(x >= y) PROVE FALSE
  <2>1. y \in above(x) /\ y \notin above(y) /\ x \in Nat /\ y \in Nat
    BY <1>5
  <2>2. above(y) \subseteq above(x)
    <3>1. ASSUME NEW z \in above(y) PROVE z \in above(x)
      <4>1. z \in S /\ z \in Nat /\ z > y /\ y > x
        BY <2>1
      <4>2. z > x
        BY <2>1, <4>1
      <4>. QED  BY <4>1, <4>2
    <3>. HIDE DEF above
    <3>. QED  BY <3>1
  <2>3. <<above(y), above(x)>> \in R
    <3>1. ASSUME NEW A \in SUBSET S, NEW B \in SUBSET S, A \subseteq B, A # B
          PROVE  <<A, B>> \in R
      BY <3>1 DEF StrictSubsetOrdering
    <3>2. above(y) \in SUBSET S /\ above(x) \in SUBSET S /\ above(y) # above(x)
      BY <2>1
    <3>. HIDE DEF above, R
    <3>. QED  BY <2>2, <3>1, <3>2
  <2>4. above(y) \in Aboves
    OBVIOUS
  <2>. QED  BY <1>3, <1>4, <2>3, <2>4
<1>. QED  BY <1>5

LEMMA MaxIs ==
    ASSUME NEW S \in SUBSET Nat, IsFiniteSet(S)
    PROVE  /\ MaxOrZero(S) \in S \cup {0} /\ MaxOrZero(S) \in Nat
           /\ \A y \in S : MaxOrZero(S) >= y
<1>. DEFINE Z == S \cup {0}
<1>1. Z \in SUBSET Nat /\ IsFiniteSet(Z) /\ Z # {}
  BY FS_AddElement
<1>2. \E x \in Z : \A y \in Z : x >= y
  <2>. HIDE DEF Z
  <2>. QED  BY <1>1, FiniteMax
<1>3. MaxOrZero(S) = CHOOSE x \in Z : \A y \in Z : x >= y
  BY Zenon DEF MaxOrZero, Max
<1>4. MaxOrZero(S) \in Z /\ \A y \in Z : MaxOrZero(S) >= y
  <2>. HIDE DEF Z
  <2>. QED  BY <1>2, <1>3
<1>. QED  BY <1>1, <1>4

LEMMA MaxGrows ==
    ASSUME NEW S \in SUBSET Nat, NEW T \in SUBSET Nat, IsFiniteSet(S), IsFiniteSet(T),
           \A x \in S : \E y \in T : y >= x
    PROVE  MaxOrZero(T) >= MaxOrZero(S)
<1>1. PICK s \in Nat : s = MaxOrZero(S)
  BY MaxIs
<1>2. PICK t \in Nat : t = MaxOrZero(T)
  BY MaxIs
<1>3. s \in S \cup {0}
  BY <1>1, MaxIs
<1>4. \A y \in T : t >= y
  BY <1>2, MaxIs
<1>5. t >= s
  <2>1. CASE s = 0
    BY <2>1
  <2>2. CASE s \in S
    <3>1. PICK y \in T : y >= s
      BY <2>2
    <3>2. t >= y /\ y \in Nat
      BY <1>4
    <3>. QED  BY <3>1, <3>2
  <2>. QED  BY <1>3, <2>1, <2>2
<1>. QED  BY <1>1, <1>2, <1>5

\* As many of each i as n says.
Marked(I, n) == UNION {{i} \X (1 .. n[i]) : i \in I}

LEMMA MarkedGrow ==
    ASSUME NEW I, IsFiniteSet(I), NEW J, J \subseteq I, NEW n \in [I -> Nat], NEW k,
           \A j \in J : k[j] \in Nat /\ k[j] <= n[j]
    PROVE  Cardinality(Marked(I, n)) >= Cardinality(Marked(J, k))
<1>1. PICK s : s = [i \in I |-> 1 .. n[i]]
  OBVIOUS
<1>2. ASSUME NEW i \in I PROVE IsFiniteSet(s[i])
  <2>1. 1 \in Int /\ n[i] \in Int
    OBVIOUS
  <2>2. IsFiniteSet(1 .. n[i])
    BY <2>1, FS_Interval
  <2>. QED  BY <1>1, <2>2
<1>3. IsFiniteSet(UNION {{i} \X s[i] : i \in I})
  BY <1>2, MarkedUnion
<1>4. {{i} \X s[i] : i \in I} = {{i} \X (1 .. n[i]) : i \in I}
  BY <1>1
<1>5. IsFiniteSet(Marked(I, n))
  BY <1>3, <1>4, Zenon DEF Marked
<1>6. Marked(J, k) \subseteq Marked(I, n)
  <2>1. ASSUME NEW j \in J PROVE j \in I /\ {j} \X (1 .. k[j]) \subseteq {j} \X (1 .. n[j])
    <3>1. k[j] \in Nat /\ n[j] \in Nat /\ k[j] <= n[j]
      OBVIOUS
    <3>2. 1 .. k[j] \subseteq 1 .. n[j]
      BY <3>1
    <3>. QED  BY <3>2
  <2>. QED  BY <2>1 DEF Marked
<1>. QED  BY <1>5, <1>6, Fewer

\* The numbers of the report, over any tables.
MessagesIn(T, t) == {row[1] : row \in {r \in T.messages : Mail[r[1]].tag = t}}

SentIn(T, t) == UNION {{at} \X (1 .. T.interventions[<<t, at>>]) : at \in 1 .. Now}

CyclesOf(T, t) == {r.cycle_number : r \in {q \in T.revisions : q.tag = t}}

ArticleIn(T, t) ==
    [messages       |-> Cardinality(MessagesIn(T, t)),
     max_hop        |-> MaxOrZero({Mail[m].hop : m \in MessagesIn(T, t)}),
     fuses          |-> Cardinality({s \in Stage : T.fuses[s][t] # 0}),
     director_mails |-> Cardinality(SentIn(T, t)),
     review_cycles  |-> MaxOrZero(CyclesOf(T, t))]

WeekIn(T, week) ==
    LET rows == {r \in T.messages : WeekOf[Mail[r[1]].sent_at] = week}
    IN  [messages    |-> Cardinality({r[1] : r \in rows}),
         active_tags |-> Cardinality({Mail[r[1]].tag : r \in rows} \ {NoTag}),
         bytes       |-> Cardinality(UNION {{r} \X (1 .. SizeOf[r[1]]) : r \in rows})]

FusesIn(T) == {row \in Stage \X Tags : T.fuses[row[1]][row[2]] # 0}

ReportNumbers(T, U) ==
    /\ \A t \in Tags : AtLeast(ArticleIn(U, t), ArticleIn(T, t))
    /\ \A at \in 1 .. Now : AtLeast(WeekIn(U, WeekOf[at]), WeekIn(T, WeekOf[at]))
    /\ Cardinality(FusesIn(U)) >= Cardinality(FusesIn(T))
    /\ \A type \in BounceKind :
         Cardinality({row \in U.bounces : row.type = type})
           >= Cardinality({row \in T.bounces : row.type = type})

LEMMA FiniteMessages ==
    ASSUME NEW T, Columns(T)
    PROVE  IsFiniteSet(T.messages) /\ \A row \in T.messages : row[1] \in Mails
<1>1. IsFiniteSet(Mails) /\ IsFiniteSet(Agents \cup {NoRecipient})
  BY RecordAssumption, CountAssumption, FS_AddElement
<1>2. IsFiniteSet(Mails \X (Agents \cup {NoRecipient}))
  BY <1>1, FS_Product
<1>3. T.messages \in SUBSET (Mails \X (Agents \cup {NoRecipient}))
  BY DEF Columns
<1>. QED  BY <1>2, <1>3, FS_Subset

LEMMA FiniteBounces ==
    ASSUME Dated(tx), today \in Days
    PROVE  IsFiniteSet(tx.bounces)
<1>1. PICK last \in Nat : last = YearOf[today]
  BY RecordAssumption
<1>. DEFINE Key == (Lines \X BounceKind) \X (0 .. last)
            key == [row \in tx.bounces |-> <<<<row.line, row.type>>, row.year>>]
<1>2. IsFiniteSet(Key)
  <2>1. IsFiniteSet(Lines)
    BY CountAssumption
  <2>2. IsFiniteSet(BounceKind)
    <3>1. BounceKind = {"bounce_matrice"} \cup {"bounce_tag"}
      BY DEF BounceKind
    <3>2. IsFiniteSet({"bounce_matrice"})
      BY FS_Singleton
    <3>. QED  BY <3>1, <3>2, FS_AddElement
  <2>3. IsFiniteSet(Lines \X BounceKind)
    BY <2>1, <2>2, FS_Product
  <2>4. IsFiniteSet(0 .. last)
    <3>1. 0 \in Int /\ last \in Int
      OBVIOUS
    <3>. QED  BY <3>1, FS_Interval
  <2>. QED  BY <2>3, <2>4, FS_Product
<1>3. ASSUME NEW row \in tx.bounces
      PROVE  /\ row \in Bounce /\ row.year \in 0 .. last
             /\ row = [line |-> row.line, type |-> row.type, year |-> row.year]
  <2>1. row \in Bounce /\ row.year \in Nat /\ row.year <= last
    BY <1>1 DEF Dated
  <2>. QED  BY <1>1, <2>1 DEF Bounce
<1>4. key \in Injection(tx.bounces, Key)
  <2>1. key \in [tx.bounces -> Key]
    BY <1>3 DEF Bounce
  <2>2. ASSUME NEW r \in tx.bounces, NEW s \in tx.bounces, key[r] = key[s] PROVE r = s
    <3>1. r.line = s.line /\ r.type = s.type /\ r.year = s.year
      BY <2>2
    <3>. QED  BY <1>3, <3>1
  <2>. QED  BY <2>1, <2>2 DEF Injection, IsInjective
<1>. QED  BY <1>2, <1>4, FS_Injection

\* One row of the report.
LEMMA ArticleGrows ==
    ASSUME NEW T, NEW U, Columns(T), Columns(U), Backed(T), Backed(U), Gains(T, U),
           NEW t \in Tags, NEW limit \in Nat,
           \A r \in T.revisions \cup U.revisions : r.tag = t => r.cycle_number <= limit,
           \A r \in T.revisions : \E s \in U.revisions :
                s.tag = r.tag /\ s.cycle_number >= r.cycle_number
    PROVE  AtLeast(ArticleIn(U, t), ArticleIn(T, t))
<1>1. /\ IsFiniteSet(MessagesIn(U, t)) /\ IsFiniteSet(MessagesIn(T, t))
      /\ MessagesIn(T, t) \subseteq MessagesIn(U, t)
      /\ MessagesIn(U, t) \in SUBSET Mails
  <2>1. MessagesIn(U, t) \in SUBSET Mails /\ MessagesIn(T, t) \subseteq MessagesIn(U, t)
    BY DEF MessagesIn, Columns, Gains
  <2>2. MessagesIn(T, t) \in SUBSET Mails
    BY <2>1
  <2>. QED  BY <2>1, <2>2, RecordAssumption, FS_Subset
<1>2. Cardinality(MessagesIn(U, t)) >= Cardinality(MessagesIn(T, t))
  BY <1>1, Fewer
<1>3. MaxOrZero({Mail[m].hop : m \in MessagesIn(U, t)})
        >= MaxOrZero({Mail[m].hop : m \in MessagesIn(T, t)})
  <2>1. ASSUME NEW M \in SUBSET Mails, IsFiniteSet(M)
        PROVE  {Mail[m].hop : m \in M} \in SUBSET Nat /\ IsFiniteSet({Mail[m].hop : m \in M})
    <3>1. {Mail[m].hop : m \in M} \in SUBSET Nat
      BY RecordAssumption
    <3>2. [m \in M |-> Mail[m].hop] \in Surjection(M, {Mail[m].hop : m \in M})
      BY DEF Surjection
    <3>. QED  BY <2>1, <3>1, <3>2, FS_Surjection
  <2>2. PICK A, B : /\ A = {Mail[m].hop : m \in MessagesIn(T, t)}
                    /\ B = {Mail[m].hop : m \in MessagesIn(U, t)}
    OBVIOUS
  <2>3. MessagesIn(T, t) \in SUBSET Mails /\ MessagesIn(U, t) \in SUBSET Mails
    BY <1>1
  <2>4. A \in SUBSET Nat /\ B \in SUBSET Nat /\ IsFiniteSet(A) /\ IsFiniteSet(B)
    BY <1>1, <2>1, <2>2, <2>3
  <2>5. ASSUME NEW x \in A PROVE \E y \in B : y >= x
    <3>1. x \in B /\ x \in Nat
      BY <1>1, <2>2, <2>4
    <3>2. x >= x
      BY <3>1
    <3>. QED  BY <3>1, <3>2
  <2>6. MaxOrZero(B) >= MaxOrZero(A)
    BY <2>4, <2>5, MaxGrows
  <2>. QED  BY <2>2, <2>6
<1>4. Cardinality({s \in Stage : U.fuses[s][t] # 0}) >= Cardinality({s \in Stage : T.fuses[s][t] # 0})
  <2>1. IsFiniteSet(Stage)
    <3>1. Stage = {"fuse-warn"} \cup {"fuse"}
      BY DEF Stage
    <3>2. IsFiniteSet({"fuse-warn"})
      BY FS_Singleton
    <3>. QED  BY <3>1, <3>2, FS_AddElement
  <2>2. {s \in Stage : U.fuses[s][t] # 0} \in SUBSET Stage
    OBVIOUS
  <2>3. IsFiniteSet({s \in Stage : U.fuses[s][t] # 0})
    BY <2>1, <2>2, FS_Subset
  <2>4. {s \in Stage : T.fuses[s][t] # 0} \subseteq {s \in Stage : U.fuses[s][t] # 0}
    BY DEF Gains
  <2>. QED  BY <2>3, <2>4, Fewer
<1>5. Cardinality(SentIn(U, t)) >= Cardinality(SentIn(T, t))
  <2>1. PICK n, k : /\ n = [at \in 1 .. Now |-> U.interventions[<<t, at>>]]
                    /\ k = [at \in 1 .. Now |-> T.interventions[<<t, at>>]]
    OBVIOUS
  <2>2. IsFiniteSet(1 .. Now)
    <3>1. 1 \in Int /\ Now \in Int
      BY RecordAssumption
    <3>. QED  BY <3>1, FS_Interval
  <2>3. ASSUME NEW at \in 1 .. Now
        PROVE  n[at] \in Nat /\ k[at] \in Nat /\ k[at] <= n[at]
    <3>1. <<t, at>> \in Slots /\ <<t, at>> \in Tags \X (1 .. Now)
      BY DEF Slots
    <3>2. U.interventions[<<t, at>>] \in Nat /\ T.interventions[<<t, at>>] \in Nat
      BY <3>1 DEF Columns
    <3>3. T.interventions[<<t, at>>] # 0 => T.interventions[<<t, at>>] = 1
      BY DEF Backed
    <3>4. T.interventions[<<t, at>>] = 1 => U.interventions[<<t, at>>] = 1
      BY <3>1 DEF Gains
    <3>. QED  BY <2>1, <3>2, <3>3, <3>4
  <2>4. n \in [1 .. Now -> Nat]
    BY <2>1, <2>3
  <2>5. PICK I : I = 1 .. Now
    OBVIOUS
  <2>6. IsFiniteSet(I) /\ I \subseteq I /\ n \in [I -> Nat]
        /\ \A at \in I : k[at] \in Nat /\ k[at] <= n[at]
    BY <2>2, <2>3, <2>4, <2>5
  <2>7. Cardinality(Marked(I, n)) >= Cardinality(Marked(I, k))
    BY <2>6, MarkedGrow
  <2>8. /\ {{at} \X (1 .. n[at]) : at \in I}
             = {{at} \X (1 .. U.interventions[<<t, at>>]) : at \in 1 .. Now}
        /\ {{at} \X (1 .. k[at]) : at \in I}
             = {{at} \X (1 .. T.interventions[<<t, at>>]) : at \in 1 .. Now}
    BY <2>1, <2>5
  <2>. QED  BY <2>7, <2>8, Zenon DEF SentIn, Marked
<1>6. MaxOrZero(CyclesOf(U, t)) >= MaxOrZero(CyclesOf(T, t))
  <2>1. CyclesOf(T, t) \in SUBSET Nat /\ CyclesOf(U, t) \in SUBSET Nat
    BY DEF CyclesOf, Columns, Row
  <2>2. (\A x \in CyclesOf(T, t) : x <= limit) /\ (\A x \in CyclesOf(U, t) : x <= limit)
    BY DEF CyclesOf
  <2>3. IsFiniteSet(CyclesOf(T, t)) /\ IsFiniteSet(CyclesOf(U, t))
    BY <2>1, <2>2, FS_BoundedSetOfNaturals
  <2>4. \A x \in CyclesOf(T, t) : \E y \in CyclesOf(U, t) : y >= x
    BY DEF CyclesOf
  <2>. QED  BY <2>1, <2>3, <2>4, MaxGrows
<1>7. PICK a1, a2, a3, a4, a5 :
         /\ a1 = Cardinality(MessagesIn(T, t)) /\ a4 = Cardinality(SentIn(T, t))
         /\ a2 = MaxOrZero({Mail[m].hop : m \in MessagesIn(T, t)})
         /\ a3 = Cardinality({s \in Stage : T.fuses[s][t] # 0})
         /\ a5 = MaxOrZero(CyclesOf(T, t))
  OBVIOUS
<1>8. PICK b1, b2, b3, b4, b5 :
         /\ b1 = Cardinality(MessagesIn(U, t)) /\ b4 = Cardinality(SentIn(U, t))
         /\ b2 = MaxOrZero({Mail[m].hop : m \in MessagesIn(U, t)})
         /\ b3 = Cardinality({s \in Stage : U.fuses[s][t] # 0})
         /\ b5 = MaxOrZero(CyclesOf(U, t))
  OBVIOUS
<1>9. /\ ArticleIn(T, t) = [messages |-> a1, max_hop |-> a2, fuses |-> a3, director_mails |-> a4,
                            review_cycles |-> a5]
      /\ ArticleIn(U, t) = [messages |-> b1, max_hop |-> b2, fuses |-> b3, director_mails |-> b4,
                            review_cycles |-> b5]
  BY <1>7, <1>8, Zenon DEF ArticleIn
<1>10. b1 >= a1 /\ b2 >= a2 /\ b3 >= a3 /\ b4 >= a4 /\ b5 >= a5
  BY <1>2, <1>3, <1>4, <1>5, <1>6, <1>7, <1>8
<1>. QED  BY <1>9, <1>10 DEF AtLeast

RowsOf(T, week) == {r \in T.messages : WeekOf[Mail[r[1]].sent_at] = week}

LEMMA WeekGrows ==
    ASSUME NEW T, NEW U, Columns(T), Columns(U), Gains(T, U), NEW week
    PROVE  AtLeast(WeekIn(U, week), WeekIn(T, week))
<1>. DEFINE mailsOf(rows) == {r[1] : r \in rows}
            tagsOf(rows) == {Mail[r[1]].tag : r \in rows} \ {NoTag}
            bytesOf(rows) == UNION {{r} \X (1 .. SizeOf[r[1]]) : r \in rows}
<1>1. PICK old, new : old = RowsOf(T, week) /\ new = RowsOf(U, week)
  OBVIOUS
<1>2. /\ old \subseteq new /\ IsFiniteSet(new)
      /\ \A r \in new : r[1] \in Mails
  <2>1. IsFiniteSet(U.messages) /\ \A r \in U.messages : r[1] \in Mails
    BY FiniteMessages
  <2>2. new \in SUBSET U.messages /\ old \subseteq new
    BY <1>1 DEF RowsOf, Gains
  <2>. QED  BY <2>1, <2>2, FS_Subset
<1>3. Cardinality(mailsOf(new)) >= Cardinality(mailsOf(old))
  <2>1. mailsOf(new) \in SUBSET Mails /\ mailsOf(old) \subseteq mailsOf(new)
    BY <1>2
  <2>2. IsFiniteSet(mailsOf(new))
    BY <2>1, RecordAssumption, FS_Subset
  <2>. QED  BY <2>1, <2>2, Fewer
<1>4. Cardinality(tagsOf(new)) >= Cardinality(tagsOf(old))
  <2>1. ASSUME NEW m \in Mails PROVE Mail[m].tag \in Tags \cup {NoTag}
    BY MailTypes
  <2>2. tagsOf(new) \in SUBSET Tags /\ tagsOf(old) \subseteq tagsOf(new)
    BY <1>2, <2>1
  <2>3. IsFiniteSet(tagsOf(new))
    BY <2>2, CountAssumption, FS_Subset
  <2>. QED  BY <2>2, <2>3, Fewer
<1>5. Cardinality(bytesOf(new)) >= Cardinality(bytesOf(old))
  <2>1. PICK n : n = [r \in new |-> SizeOf[r[1]]]
    OBVIOUS
  <2>2. ASSUME NEW r \in new PROVE n[r] \in Nat /\ n[r] <= n[r]
    <3>1. SizeOf[r[1]] \in Nat
      BY <1>2, SizeAssumption
    <3>. QED  BY <2>1, <3>1
  <2>3. n \in [new -> Nat] /\ \A r \in old : n[r] \in Nat /\ n[r] <= n[r]
    BY <1>2, <2>1, <2>2
  <2>4. Cardinality(Marked(new, n)) >= Cardinality(Marked(old, n))
    BY <1>2, <2>3, MarkedGrow
  <2>5. /\ {{r} \X (1 .. n[r]) : r \in new} = {{r} \X (1 .. SizeOf[r[1]]) : r \in new}
        /\ {{r} \X (1 .. n[r]) : r \in old} = {{r} \X (1 .. SizeOf[r[1]]) : r \in old}
    BY <1>2, <2>1
  <2>6. Marked(new, n) = bytesOf(new) /\ Marked(old, n) = bytesOf(old)
    BY <2>5, Zenon DEF Marked
  <2>. QED  BY <2>4, <2>6
<1>6. PICK a1, a2, a3 : /\ a1 = Cardinality(mailsOf(old)) /\ a2 = Cardinality(tagsOf(old))
                        /\ a3 = Cardinality(bytesOf(old))
  OBVIOUS
<1>7. PICK b1, b2, b3 : /\ b1 = Cardinality(mailsOf(new)) /\ b2 = Cardinality(tagsOf(new))
                        /\ b3 = Cardinality(bytesOf(new))
  OBVIOUS
<1>8. /\ WeekIn(T, week) = [messages |-> a1, active_tags |-> a2, bytes |-> a3]
      /\ WeekIn(U, week) = [messages |-> b1, active_tags |-> b2, bytes |-> b3]
  BY <1>1, <1>6, <1>7, Zenon DEF WeekIn, RowsOf
<1>9. b1 >= a1 /\ b2 >= a2 /\ b3 >= a3
  BY <1>3, <1>4, <1>5, <1>6, <1>7
<1>. QED  BY <1>8, <1>9 DEF AtLeast

LEMMA FusesGrow ==
    ASSUME NEW T, NEW U, Gains(T, U)
    PROVE  Cardinality(FusesIn(U)) >= Cardinality(FusesIn(T))
<1>1. IsFiniteSet(Stage)
  <2>1. Stage = {"fuse-warn"} \cup {"fuse"}
    BY DEF Stage
  <2>2. IsFiniteSet({"fuse-warn"})
    BY FS_Singleton
  <2>. QED  BY <2>1, <2>2, FS_AddElement
<1>2. IsFiniteSet(Stage \X Tags)
  BY <1>1, CountAssumption, FS_Product
<1>3. FusesIn(U) \in SUBSET (Stage \X Tags) /\ FusesIn(T) \subseteq FusesIn(U)
  BY DEF FusesIn, Gains
<1>4. IsFiniteSet(FusesIn(U))
  BY <1>2, <1>3, FS_Subset
<1>. QED  BY <1>3, <1>4, Fewer

LEMMA BouncesGrow ==
    ASSUME NEW T, Dated(tx), today \in Days, Gains(T, tx), NEW type
    PROVE  Cardinality({row \in tx.bounces : row.type = type})
             >= Cardinality({row \in T.bounces : row.type = type})
<1>. DEFINE old == {row \in T.bounces : row.type = type}
            new == {row \in tx.bounces : row.type = type}
<1>1. new \in SUBSET tx.bounces /\ old \subseteq new
  BY DEF Gains
<1>2. IsFiniteSet(new)
  <2>1. IsFiniteSet(tx.bounces)
    BY FiniteBounces
  <2>. HIDE DEF new
  <2>. QED  BY <1>1, <2>1, FS_Subset
<1>. HIDE DEF old, new
<1>3. Cardinality(new) >= Cardinality(old)
  BY <1>1, <1>2, Fewer
<1>. QED  BY <1>3 DEF old, new

LEMMA UsageGrows ==
    ASSUME Charged(db), Charged(tx), NEW a \in Agents,
           \A d \in Days : db.token_usage[<<a, d>>] <= tx.token_usage[<<a, d>>]
    PROVE  Cardinality(UNION {{d} \X (1 .. tx.token_usage[<<a, d>>]) : d \in Days})
             >= Cardinality(UNION {{d} \X (1 .. db.token_usage[<<a, d>>]) : d \in Days})
<1>1. PICK n, k : /\ n = [d \in Days |-> tx.token_usage[<<a, d>>]]
                  /\ k = [d \in Days |-> db.token_usage[<<a, d>>]]
  OBVIOUS
<1>2. ASSUME NEW d \in Days PROVE n[d] \in Nat /\ k[d] \in Nat /\ k[d] <= n[d]
  BY <1>1 DEF Charged
<1>3. n \in [Days -> Nat] /\ Days \subseteq Days /\ IsFiniteSet(Days)
  BY <1>1, <1>2, CountAssumption
<1>4. \A d \in Days : k[d] \in Nat /\ k[d] <= n[d]
  BY <1>2
<1>5. Cardinality(Marked(Days, n)) >= Cardinality(Marked(Days, k))
  BY <1>3, <1>4, MarkedGrow
<1>6. /\ {{d} \X (1 .. n[d]) : d \in Days} = {{d} \X (1 .. tx.token_usage[<<a, d>>]) : d \in Days}
      /\ {{d} \X (1 .. k[d]) : d \in Days} = {{d} \X (1 .. db.token_usage[<<a, d>>]) : d \in Days}
  BY <1>1
<1>. QED  BY <1>5, <1>6, Zenon DEF Marked

\* Only Commit changes the committed tables, and it adds what the pass gained.
LEMMA CommitGrows ==
    ASSUME Types, RowsInv, BackedInv, LogInv, TokensInv, Gains(db, tx), CountsInv, Commit
    PROVE  /\ ReportNumbers(db, tx)
           /\ \A a \in Agents : AllStamped(a) =>
                Cardinality(UNION {{d} \X (1 .. tx.token_usage[<<a, d>>]) : d \in Days})
                  >= Cardinality(UNION {{d} \X (1 .. db.token_usage[<<a, d>>]) : d \in Days})
<1>1. Columns(db) /\ Columns(tx) /\ Backed(db) /\ Backed(tx)
  BY DEF RowsInv, BackedInv
<1>2. pc # "maildir"
  BY DEF Commit
<1>3. \A r \in db.revisions : \E s \in tx.revisions : s.tag = r.tag /\ s.cycle_number >= r.cycle_number
  BY <1>2 DEF CountsInv
<1>4. ASSUME NEW t \in Tags PROVE AtLeast(ArticleIn(tx, t), ArticleIn(db, t))
  <2>1. PICK limit \in Nat : limit = Cardinality(CopiesOf(maildir, t))
    BY CopiesFinite DEF Types, SourceTypes
  <2>2. \A r \in db.revisions \cup tx.revisions : r.tag = t => r.cycle_number <= limit
    <3>1. ASSUME NEW r \in db.revisions \cup tx.revisions, r.tag = t PROVE r.cycle_number <= limit
      <4>1. r.cycle_number \in 1 .. limit
        BY <2>1, <3>1 DEF CountsInv, CountedIn
      <4>. QED  BY <4>1
    <3>. QED  BY <3>1
  <2>. QED  BY <1>1, <1>3, <2>2, ArticleGrows
<1>5. ASSUME NEW at \in 1 .. Now PROVE AtLeast(WeekIn(tx, WeekOf[at]), WeekIn(db, WeekOf[at]))
  BY <1>1, WeekGrows
<1>6. Cardinality(FusesIn(tx)) >= Cardinality(FusesIn(db))
  BY FusesGrow
<1>7. Dated(tx) /\ today \in Days
  BY DEF LogInv, Types, SourceTypes
<1>8. ASSUME NEW type \in BounceKind
      PROVE  Cardinality({row \in tx.bounces : row.type = type})
               >= Cardinality({row \in db.bounces : row.type = type})
  BY <1>7, BouncesGrow
<1>9. ReportNumbers(db, tx)
  BY <1>4, <1>5, <1>6, <1>8 DEF ReportNumbers
<1>10. ASSUME NEW a \in Agents, AllStamped(a)
       PROVE  Cardinality(UNION {{d} \X (1 .. tx.token_usage[<<a, d>>]) : d \in Days})
                >= Cardinality(UNION {{d} \X (1 .. db.token_usage[<<a, d>>]) : d \in Days})
  <2>1. Charged(db) /\ Charged(tx)
        /\ \A d \in Days : db.token_usage[<<a, d>>] <= tx.token_usage[<<a, d>>]
    BY <1>10 DEF TokensInv
  <2>. QED  BY <2>1, UsageGrows
<1>. QED  BY <1>9, <1>10

-----------------------------------------------------------------------------
(* The theorems.                                                           *)

CInv ==
    /\ Types /\ RestTypes /\ RowsInv /\ BackedInv /\ FusesInv /\ LogInv /\ CyclesInv
    /\ TokensInv /\ Gains(db, tx) /\ CountsInv

LEMMA CInit == Init => CInv
<1>. SUFFICES ASSUME Init PROVE CInv
  OBVIOUS
<1>1. Now \in Nat \ {0} /\ Days \subseteq Nat \ {0}
  BY RecordAssumption, SessionAssumption
<1>2. Columns(EmptyTables)
  <2>1. EmptyTables = [c \in ColumnNames |-> EmptyTables[c]]
    BY DEF EmptyTables, ColumnNames
  <2>2. 0 \in 0 .. Now
    BY <1>1
  <2>. QED  BY <2>1, <2>2 DEF Columns, EmptyTables, Slots
<1>3. /\ EmptyTables.messages = {} /\ EmptyTables.bounces = {} /\ EmptyTables.revisions = {}
      /\ \A t \in Tags : EmptyTables.created_at[t] = 0
      /\ \A t \in Tags, at \in 1 .. Now : EmptyTables.interventions[<<t, at>>] = 0
      /\ \A t \in Tags, s \in Stage : EmptyTables.fuses[s][t] = 0
      /\ "fuse" \in Stage /\ "fuse-warn" \in Stage
  BY DEF EmptyTables, Stage
<1>4. db = EmptyTables /\ tx = EmptyTables
  BY DEF Init
<1>5. RowsInv
  BY <1>2, <1>3, <1>4 DEF Init, RowsInv, Whole, Articles
<1>6. FusesInv
  BY <1>3, <1>4 DEF Init, FusesInv, Tripped, NoRows, Stage
<1>7. LogInv
  BY <1>1, <1>3, <1>4 DEF Init, LogInv, Dated
<1>8. CyclesInv
  BY <1>3, <1>4 DEF Init, CyclesInv, Sourced, Ordered
<1>9. BackedInv
  BY <1>3, <1>4 DEF BackedInv, Backed
<1>10. Types
  <2>1. {MaxReviews, MaxUnfreezes, MaxRefusals} \subseteq Nat /\ 1 \in Days
    BY LimitAssumption, RecordAssumption
  <2>2. 0 \in 0 .. MaxReviews /\ 0 \in 0 .. MaxUnfreezes /\ 0 \in 0 .. MaxRefusals
    BY <2>1
  <2>3. ProcessTypes
    BY <2>2 DEF Init, ProcessTypes, NoCycles, NoRows
  <2>4. SourceTypes
    BY <2>1, <2>2 DEF Init, SourceTypes
  <2>. QED  BY <2>3, <2>4 DEF Types
<1>11. RestTypes
  <2>1. 0 \in 0 .. MaxFailures /\ 0 \in 0 .. MaxBreaks
    BY LimitAssumption
  <2>. QED  BY <2>1 DEF Init, RestTypes
<1>12. TokensInv
  <2>1. SessionTypes
    <3>1. 1 \in Days /\ <<>> \in Seq(Record)
      BY RecordAssumption
    <3>2. [lines |-> <<>>, mtime |-> 1] \in [lines : Seq(Record), mtime : Days]
      BY <3>1
    <3>. QED  BY <3>2 DEF Init, SessionTypes
  <2>2. ASSUME NEW a \in Agents, NEW d \in Days PROVE TokensOf(a, {d}) \in Nat
    <3>1. \A f \in Sessions : Naming(sessions, {d})[f] \subseteq DOMAIN sessions[f].lines
      BY DEF Naming
    <3>2. Cardinality(Units(sessions, a, Naming(sessions, {d}))) \in Nat
      BY <2>1, <3>1, UnitsFinite DEF SessionTypes
    <3>. QED  BY <3>2, TokensOfUnits
  <2>3. EmptyTables.token_usage = [k \in Agents \X Days |-> 0]
    BY DEF EmptyTables
  <2>4. ASSUME NEW a \in Agents, NEW d \in Days
        PROVE  EmptyTables.token_usage[<<a, d>>] = 0 /\ 0 <= TokensOf(a, {d})
    BY <2>2, <2>3
  <2>5. Charged(EmptyTables)
    BY <2>3, <2>4 DEF Charged
  <2>6. ASSUME NEW a \in Agents, NEW d \in Days
        PROVE  db.token_usage[<<a, d>>] <= tx.token_usage[<<a, d>>]
    <3>1. db.token_usage[<<a, d>>] = 0 /\ tx.token_usage[<<a, d>>] = 0
      BY <1>4, <2>4
    <3>. QED  BY <3>1
  <2>7. Charged(db) /\ Charged(tx)
    BY <1>4, <2>5
  <2>. QED  BY <2>1, <2>6, <2>7 DEF TokensInv
<1>13. Gains(db, tx)
  BY <1>4 DEF Gains
<1>14. CountsInv
  BY <1>3, <1>4 DEF Init, CountsInv, CountedIn
<1>. QED  BY <1>5, <1>6, <1>7, <1>8, <1>9, <1>10, <1>11, <1>12, <1>13, <1>14 DEF CInv

\* What a pass, the newsroom and the director together keep true of the
\* metrics: the tables, the fuse, the log and the review cycles, each by a
\* step lemma of its own.
THEOREM CollectorInvariant == Spec => []CInv
<1>1. Init => CInv
  BY CInit
<1>2. CInv /\ [Next]_vars => CInv'
  <2>. SUFFICES ASSUME CInv, [Next]_vars PROVE CInv'
    OBVIOUS
  <2>1. /\ Types /\ RestTypes /\ RowsInv /\ BackedInv /\ FusesInv /\ LogInv /\ CyclesInv
        /\ TokensInv /\ Gains(db, tx) /\ CountsInv
    BY DEF CInv
  <2>2. Types'
    BY <2>1, TypesStep
  <2>3. RowsInv'
    BY <2>1, RowsStep
  <2>4. BackedInv'
    BY <2>1, BackedStep
  <2>5. FusesInv'
    BY <2>1, FusesStep
  <2>6. LogInv'
    BY <2>1, LogStep
  <2>7. CyclesInv'
    BY <2>1, CyclesStep
  <2>8. TokensInv'
    BY <2>1, TokensStep
  <2>9. Gains(db, tx)'
    BY <2>1, GainsStep
  <2>10. CountsInv'
    BY <2>1, CountsStep
  <2>11. RestTypes'
    BY <2>1, RestStep
  <2>. QED  BY <2>2, <2>3, <2>4, <2>5, <2>6, <2>7, <2>8, <2>9, <2>10, <2>11 DEF CInv
<1>. QED  BY <1>1, <1>2, PTL DEF Spec

\* No statement of a pass and no review ever names an article without a row
\* (upsert_article before every insert): the schema's foreign keys hold,
\* whichever table a pass first meets an article in.
THEOREM ForeignKeysAlways == Spec => []ForeignKeys
<1>1. CInv => ForeignKeys
  BY DEF CInv, RowsInv, Articles, ForeignKeys
<1>. QED  BY <1>1, CollectorInvariant, PTL

\* LEAST keeps an article as old as its oldest mail, though passes fail and
\* mails come in any order.
THEOREM CreatedFirstAlways == Spec => []CreatedFirst
<1>1. CInv => CreatedFirst
  BY DEF CInv, RowsInv, Whole, Recorded, CreatedFirst
<1>. QED  BY <1>1, CollectorInvariant, PTL

\* The torn pair of SELECTs, frozen threads first, never reports a freeze
\* without the warning that came before it.
THEOREM WarningPrecedesFreezeAlways == Spec => []WarningPrecedesFreeze
<1>1. CInv => WarningPrecedesFreeze
  BY DEF CInv, FusesInv, Tripped, WarningPrecedesFreeze
<1>. QED  BY <1>1, CollectorInvariant, PTL

\* A bounce is dated by its line, or else no later than the pass that read it.
THEOREM BouncesDatedAlways == Spec => []BouncesDated
<1>1. CInv => BouncesDated
  BY DEF CInv, LogInv, Dated, BouncesDated
<1>. QED  BY <1>1, CollectorInvariant, PTL

\* The cycles of an article follow the Dates of its reviews in every committed
\* state: a pass renumbers every row it finds, and commits all of it or nothing.
THEOREM CyclesInOrderAlways == Spec => []CyclesInOrder
<1>1. CInv => CyclesInOrder
  BY DEF CInv, CyclesInv, Ordered, CyclesInOrder
<1>. QED  BY <1>1, CollectorInvariant, PTL

\* The columns of the report agree: no director mail and no review of an
\* article is counted that is not one of its messages, nor twice.
THEOREM ColumnsAgreeAlways == Spec => []ColumnsAgree
<1>1. CInv => ColumnsAgree
  <2>. SUFFICES ASSUME CInv, NEW t \in Tags
                PROVE  PER_ARTICLE(t).director_mails + Cardinality({r \in db.revisions : r.tag = t})
                         <= PER_ARTICLE(t).messages
    BY Zenon DEF ColumnsAgree
  <2>1. Columns(db) /\ Whole(db) /\ Backed(db)
    BY DEF CInv, RowsInv, BackedInv
  <2>. QED  BY <2>1, ReportColumns DEF PER_ARTICLE
<1>. QED  BY <1>1, CollectorInvariant, PTL

\* Storing a mail that an earlier pass committed adds no row and changes none,
\* but for untagged interventions and the numbers of the review cycles.
THEOREM RerunKeepsRowsAlways == Spec => RerunKeepsRows
<1>1. CInv /\ [Next]_vars => [StoreAgain => Kept(tx') = Kept(tx)]_vars
  <2>. SUFFICES ASSUME CInv, StoreAgain PROVE Kept(tx') = Kept(tx)
    OBVIOUS
  <2>1. ProcessTypes /\ StoreMessage /\ Columns(tx) /\ Columns(db) /\ Whole(tx)
        /\ db.messages \subseteq tx.messages
    BY DEF CInv, Types, RowsInv, StoreAgain
  <2>2. PICK m \in Mails, cycle \in Nat : m = Head(records) /\ tx' = Added(tx, m, cycle)
    BY <2>1, StoreForm
  <2>3. Recorded(tx, m)
    BY <2>1, <2>2 DEF StoreAgain, Whole
  <2>. QED  BY <2>1, <2>2, <2>3, AddedAgain
<1>. QED  BY <1>1, CollectorInvariant, PTL DEF Spec, RerunKeepsRows

\* Every variable keeps its type: the columns of both copies of the tables and
\* the records a pass works on.
THEOREM CollectorTypes == Spec => []TypeOK
<1>1. CInv => TypeOK
  <2>. SUFFICES ASSUME CInv PROVE TypeOK
    OBVIOUS
  <2>1. /\ ProcessTypes /\ SourceTypes /\ RestTypes /\ SessionTypes
        /\ Columns(db) /\ Charged(db) /\ Dated(db) /\ Backed(db)
        /\ Columns(tx) /\ Charged(tx) /\ Dated(tx) /\ Backed(tx)
    BY DEF CInv, Types, TokensInv, RowsInv, LogInv, BackedInv
  <2>2. db \in Tables /\ tx \in Tables
    BY <2>1, TablesType
  <2>. QED  BY <2>1, <2>2, Zenon DEF TypeOK, ProcessTypes, SourceTypes, RestTypes, SessionTypes
<1>. QED  BY <1>1, CollectorInvariant, PTL

\* However often the session logs are scanned while they grow and their mtimes
\* move, no day is charged a token twice, or one that names another day.
THEOREM TokensCountedOnceAlways == Spec => []TokensCountedOnce
<1>1. CInv => TokensCountedOnce
  BY DEF CInv, TokensInv, Charged, TokensCountedOnce
<1>. QED  BY <1>1, CollectorInvariant, PTL

\* The report never shows a smaller number than the night before: what a pass
\* commits has every row it found there, and every cycle it renumbered.  Tokens
\* are spoken of for agents whose records all name their day.
THEOREM NeverLessAlways == Spec => NeverLess
<1>1. CInv /\ [Next]_vars => [db' # db =>
        /\ \A t \in Tags : AtLeast(PER_ARTICLE(t)', PER_ARTICLE(t))
        /\ \A at \in 1 .. Now : AtLeast(WEEKLY(WeekOf[at])', WEEKLY(WeekOf[at]))
        /\ \A type \in BounceKind \cup {"fusibile"} : EVENTS(type)' >= EVENTS(type)
        /\ \A a \in Agents : AllStamped(a) => TOKENS(a)' >= TOKENS(a)]_vars
  <2>. SUFFICES ASSUME CInv, Next, db' # db
                PROVE  /\ \A t \in Tags : AtLeast(PER_ARTICLE(t)', PER_ARTICLE(t))
                       /\ \A at \in 1 .. Now : AtLeast(WEEKLY(WeekOf[at])', WEEKLY(WeekOf[at]))
                       /\ \A type \in BounceKind \cup {"fusibile"} : EVENTS(type)' >= EVENTS(type)
                       /\ \A a \in Agents : AllStamped(a) => TOKENS(a)' >= TOKENS(a)
    OBVIOUS
  <2>1. Commit /\ db' = tx
    <3>1. Commit
      BY DEF Next, Pass, Start, StoreMessage, CollectPostfixLog, FirstSelect, SecondSelect,
             SecondSelectRefused, StoreFuses, CollectTokenUsage, SyncPublicStatuses, LogRaises, SyncRaises,
             Fail, ReviewForm, SubmitForm, OpenForm, Environment
    <3>. QED  BY <3>1 DEF Commit
  <2>2. /\ ReportNumbers(db, tx)
        /\ \A a \in Agents : AllStamped(a) =>
             Cardinality(UNION {{d} \X (1 .. tx.token_usage[<<a, d>>]) : d \in Days})
               >= Cardinality(UNION {{d} \X (1 .. db.token_usage[<<a, d>>]) : d \in Days})
    BY <2>1, CommitGrows DEF CInv
  <2>3. ASSUME NEW t \in Tags PROVE AtLeast(PER_ARTICLE(t)', PER_ARTICLE(t))
    <3>1. PER_ARTICLE(t) = ArticleIn(db, t) /\ PER_ARTICLE(t)' = ArticleIn(tx, t)
      BY <2>1, Zenon DEF PER_ARTICLE, ArticleIn, MessagesOf, MessagesIn, InterventionsOf, SentIn, CyclesOf
    <3>. QED  BY <2>2, <3>1 DEF ReportNumbers
  <2>4. ASSUME NEW at \in 1 .. Now PROVE AtLeast(WEEKLY(WeekOf[at])', WEEKLY(WeekOf[at]))
    <3>1. WEEKLY(WeekOf[at]) = WeekIn(db, WeekOf[at]) /\ WEEKLY(WeekOf[at])' = WeekIn(tx, WeekOf[at])
      BY <2>1, Zenon DEF WEEKLY, WeekIn
    <3>. QED  BY <2>2, <3>1 DEF ReportNumbers
  <2>5. ASSUME NEW type \in BounceKind \cup {"fusibile"} PROVE EVENTS(type)' >= EVENTS(type)
    <3>1. CASE type = "fusibile"
      <4>1. EVENTS(type) = Cardinality(FusesIn(db)) /\ EVENTS(type)' = Cardinality(FusesIn(tx))
        BY <2>1, <3>1, Zenon DEF EVENTS, FusesIn
      <4>. QED  BY <2>2, <4>1 DEF ReportNumbers
    <3>2. CASE type # "fusibile"
      <4>1. /\ EVENTS(type) = Cardinality({row \in db.bounces : row.type = type})
            /\ EVENTS(type)' = Cardinality({row \in tx.bounces : row.type = type})
        BY <2>1, <3>2, Zenon DEF EVENTS
      <4>. QED  BY <2>2, <3>2, <4>1 DEF ReportNumbers
    <3>. QED  BY <3>1, <3>2
  <2>6. ASSUME NEW a \in Agents, AllStamped(a) PROVE TOKENS(a)' >= TOKENS(a)
    <3>1. /\ TOKENS(a) = Cardinality(UNION {{d} \X (1 .. db.token_usage[<<a, d>>]) : d \in Days})
          /\ TOKENS(a)' = Cardinality(UNION {{d} \X (1 .. tx.token_usage[<<a, d>>]) : d \in Days})
      BY <2>1, Zenon DEF TOKENS
    <3>. QED  BY <2>2, <2>6, <3>1
  <2>. QED  BY <2>3, <2>4, <2>5, <2>6
<1>. QED  BY <1>1, CollectorInvariant, PTL DEF Spec, NeverLess
=============================================================================
