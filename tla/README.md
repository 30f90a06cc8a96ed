# menabò, specified

TLA+ models of menabò, a newsroom of six language-model agents that work by
e-mail only, with the runs that check them and the theorems proved about them.
Paths are relative to `src/`.

## The system

| Component | State it keeps | Operations | Modelled in |
|---|---|---|---|
| Mail filter (`spark-a/mail-server/filters/`) | SQLite: `thread_messages`, `frozen_threads`, `warned_threads`; files under `hold/`; `_hold_counter` and the budget in memory | `handle_DATA`, `message_count`, `record_message`, `is_frozen`, `freeze`, `warn`, `_hold`, `_reinject`, the two notices | `FilterRules`, `MailFilter`, `MessageFuse` |
| Collector and metrics database (`metrics/collector.py`, `db.py`, `schema.sql`) | MariaDB tables | one pass per night over five sources in one transaction | `Collector` |
| Readers (`metrics/maildir_reader.py`, `postfix_log.py`, `hermes_log.py`) | none; they read what changes under them | parse a mail, a log line, a session record | `Collector`, `PostfixLog`, `HermesLog` |
| Quality form (`metrics/quality_review.py`) | `quality_reviews` | questions, then one REPLACE | `Collector` |
| Weekly report (`metrics/report.py`) | none | four queries over committed tables | `Report` |
| Provisioning scripts (`scripts/setup-*.sh`) | `.env` files, CA and certificates, mailboxes, Garage layout, buckets and keys, WordPress | five scripts, each meant to be run again | `Provisioning` |
| Smoke test (`scripts/smoke-test.sh`, `smoke_mail_checks.py`) | the mail it sends, what it wipes | flood, barrier, boundary mail, verdict | `SmokeTest` |
| Director (`docs/RUNBOOK.it.md`) | - | reads BCC mail, unfreezes threads with three DELETEs, fills in the form, deletes files and keys, runs the scripts | in each model, as the actor it is there |
| Postfix and Dovecot (`spark-a/mail-server/config/`) | the mail queue, the mailboxes | accept under the delivery matrix, pass to the filter, retry, bounce, deliver, copy to the director | as environment of the models |
| Agents (`spark-a/agents/`) | their mailbox and session logs, `articles.json` | send mail | arbitrary inputs |
| Backup and restore, containers, linters | - | `scripts/backup.sh`, `docker-compose.yml`, `scripts/check-headers.sh` | not modelled |

How they interact: an agent submits a mail; Postfix checks the delivery matrix,
queues it and hands it to the filter (port 10025); the filter bounces it, holds
it, or counts it and re-injects it (port 10026), from where it reaches its
recipients and, through `always_bcc`, the director. The filter, the director's
shell and the collector share the SQLite file; the collector reads the
director's maildir, the Postfix log, the Hermes logs and `articles.json` while
all of them change; form and report share its database. The scripts leave the
secrets that make the parts trust each other; the smoke test drives the mail
system from outside.

What is hard in it: the filter commits to SQLite, sends mail and answers Postfix
in separate steps, any of which may fail or be the last before a crash, and
Postfix retries what was not answered; the director edits the filter's database
under its feet; the collector's idempotence rests on unique keys, and its
sources are read one after the other; a setup script takes a file's existence
for its completeness; the smoke test must conclude from what it sees of a queue
that reorders. PROJECT.json lists each hazard at its line, with the properties
that cover it; three have none, and say why.

## Modules

`FilterRules` - the pure functions of `mail_filter.py`. A subject is the
sequence of canonical tags in it and whether it carries `[SERVIZIO]`; an address
is a value with a lower-case spelling; `increment_hop` is the `X-Redazione-Hop`
header.

`MailFilter` - `FilterHandler.handle_DATA` over the SQLite tables, the hold
directory and the Postfix queue. `handle_DATA` never awaits, so one mail is
handled at a time, and `pc` says which call is next: `is_frozen`, `hold` or
`hold_freeze`, `freeze`, `notify_director`, `record`, `reinject`, `warn`,
`notify_caporedattore`, then the reply. Each call that leaves the process is
one action. A call may take effect and raise (`Returns`: a reply lost after
DATA, a commit that fails with its row in the open transaction) or raise before
its effect (`Raise`); aiosmtpd answers 500 to both. `ReinjectPartly` is
smtplib's refusal of some recipients, whose dictionary `_reinject` drops.
`Crash` loses everything volatile; `Restart` reads the budget again and resets
the hold counter; `GiveUp` is Postfix no longer waiting for a handler that goes
on. `DeleteFrozen`, `DeleteWarned`, `DeleteMessages` are the runbook's three
statements, each its own transaction. `delivered`, `reached`, `notices`,
`warnings`, `charged`, `allowance` and `unfreezes` are history: what the world
saw, and how many deliveries the lives of a thread are worth.

`MessageFuse` - the abstract fuse: a thread that is not frozen may deliver while
it has deliveries left; freezing, lifting and granting a new life are free.
`MailFilter!FuseSpec` is this specification under the mapping deliveries =
length of `delivered`, granted = `allowance`, frozen = `frozen_threads`.

`PostfixLog` and `HermesLog` - the two log readers as functions. A line of
`mail.log` is its markers, the format of its timestamp and whether it was
written on 29 February, which `parse_timestamp` raises on when it takes the line
to be of a year without one (`Raises`); a session record is
whether it is whole JSON yet, its tokens, and the day it names, if any. A sum
over records or rows, here and in `Report`, is the size of a set with one
element for each token or byte, which says the same as a fold and can be
reasoned about without induction.

`Collector` - `collector.py`. `tx` is the database as the open transaction sees
it, `db` what is committed. A pass stores the maildir's records one by one
(`StoreMessage` is `_store_message` whole), then the log, the two SELECTs on the
live filter state, the session logs and the public statuses, and commits;
`Fail` is an exception or a crash anywhere, and rolls back, as a status file
that is no JSON (`SyncRaises`) and a log line that cannot be dated (`LogRaises`)
do; `SecondSelectRefused` is an OperationalError
the code takes for an old state file. A table with a unique key is a function or
a set keyed by it, and each operator named after a method of `MetricsDb` does what its
ON DUPLICATE KEY clause does; NULL tags are not equal, so `insert_intervention`
counts the rows of untagged mail. A moment of a freeze is the number of the
thread's life; a Date is a number below `Now`. A mail may be in the maildir
twice, since the filter may re-inject it twice, and may lack what
`parse_message` needs. The order of same-second mail is arbitrary: directory
order is, and reading a mail renames its file. The review form asks, then
writes; its foreign key needs what a pass has committed.

`Report` - the numbers of `report.py`'s four queries as operators over `db`. It
adds no action: the report reads committed tables only and may be printed in
any state.

`SmokeTest` - the mail checks of `smoke-test.sh` as a sequence of commands
(submit, await, flood, assert a count, assert a silence) against a mail system
`sut` that is the one coded (`AsCoded`, which `MCSmokeTest` compares with
`FilterRules`) or a wrong one: warning late, freezing early or late, ignoring
the matrix or the tag, refusing in the margin, not holding. Submission queues;
`Filter` and `Arrive` take what is queued in any order, and Postfix may send a
mail to the filter twice. The queue survives a run that is cut short,
mailboxes survive all runs, and `Wipe` is the state the test's preparation
deletes. `Interrupt` runs the EXIT trap; `Kill` does not. `Hang` is a call that is
never answered: `imaplib.IMAP4` (`smoke_mail_checks.py:81`) and `docker compose
exec` have no timeout, and a deadline is looked at between two polls only. An
answer that comes late is a step of the script that takes long. That `docker
compose stop` and `start` return is assumed, and smtplib gives up after 60
seconds by itself.

`Provisioning` - `setup-env`, `setup-tls`, `setup-mailboxes`, `setup-storage`
and `setup-wordpress`, one action per command that leaves something behind; a
redirection or a `cp` that empties a file before it is written is two
(`AgentEnv`, `TruncateHimalaya`, `TruncateCopy`). `Die` may follow any of them.
`Misread` is the list of keys (`setup-storage.sh:51`) or of application passwords
(`setup-wordpress.sh:78-79`) failing behind `|| true`: the script goes on as if
nothing were there, creates every key again under a name that exists (`doubled`:
`bucket allow --key` then refuses the name), or revokes no password. The other
masked lists (mailboxes, buckets, layout, `wp core is-installed` and the like)
lead to the creation of what exists, which fails and ends the script, or, for the
core, does nothing: they are among the places where `Die` happens. The director
runs scripts in any order and deletes an
agent's `.env` or key as the runbook has it. `lost` records the commands a script
was about to run when it died and no later run repeats; `progress` how much of
the runbook was followed since.

`MailFilterProofs`, `MailFilterDelivery`, `MailFilterNotices`,
`MailFilterStages`, `CollectorProofs`, `ProvisioningProofs`, `RunbookProofs`,
`SmokeTestProofs` - the theorems below. `MCMailFilter`, `MCCollector`, `MCProvisioning`, `MCSmokeTest` -
instances for TLC. Definitions with a suffix (`CreateKey_SkipsGrants`) are slips: the
form a plausible mistake would give the definition they are named after, under
which a property must fail.

## Runs

The mail filter:

| Run | Question and bounds |
|---|---|
| `faults` | Four mails with two recipients on one thread, budgets 1 and 2 (a restart may change it), one crash, two errors, one Postfix timeout, one unfreezing. `FuseHolds` and its inductive form `FuseInv`: never more deliveries than the lives of the thread allow. `NoticeListsDeliveries`: without crashes and errors the freeze notice lists the last deliveries in order, and while the rows fit it omits none, whatever failed. `NothingLost`: what was answered 250 was re-injected or is on disk. `NotifiedOnce`: one notice and one warning per life. `TwoStages`: no freeze without a warning unless faults, or a change of budget, ate the margin. `NeverSilencedEarly`: no freeze before budget and grace are used, but for faults. `NoticesTellTheTruth`: numbers and claims of a notice hold when it is sent. `FrozenSilence`: nothing is re-injected on a frozen thread. `FuseSpec`: refinement. Four mails and three retries are seven passes of the handler, more than a hard limit of 3 and a second life need; mails are interchangeable (symmetry). |
| `all_kinds` | Eight mails: a bounce, a forged and a missing From, service mail, untagged mail, two threads, a mail with two recipients naming both tags, a sender spelt in two ways; budget 1, one crash, one timeout, under fairness. `OnlyViolationsBounce`, `NeverSilencedEarly` with traffic on another thread, `EveryMailAnswered`, `SpentThreadFreezes`, `TypeOK`. |
| `notify_exactly_once` | Refutes "notified exactly once per tag". |
| `unfreeze_race` | Refutes that the runbook's statements leave the thread open. |
| `partial_refusal` | Refutes "failures must remain visible" for a refused recipient. |

The collector, its readers, form and report:

| Run | Question and bounds |
|---|---|
| `nightly` | Two reviews in different seconds, one delivered up to twice, a director mail to two agents and a mail no record can be made of; a fuse that warns, freezes and is unfrozen once; one change of status; one review; one failing pass; any number of passes. `CyclesInOrder`, `CreatedFirst`, `WarningPrecedesFreeze`, `ForeignKeys` (neither a pass nor a review names an article without a row), `ColumnsAgree` (director mails and reviews of an article are among its mails), `RerunKeepsRows`, `TypeOK`. |
| `every_night` | One review, three log lines, one of them of 29 February, one session file, two days, one in a leap year and one in the next, one refused SELECT, one broken status file, under fairness. `BouncesDated`: an ISO line gets its own year, no line a year to come. `TokensCountedOnce`: no day is charged a token twice. `EveryMailCollected`, `FirstTripsCounted`, `LogsCollected`: mail, first trips, bounces and tokens reach their tables, also from a line first read half written, while the status file and the log can be read. `NeverLess`: no number of the report falls, the tokens of records that name no day apart; with one mail no cycle is ever renumbered here, which the theorem covers. |
| `rerun_duplicates` | Refutes "the (tag, occurred_at) key makes re-runs no-ops". |
| `second_freeze` | Refutes "both trips end up in the metrics". |
| `delivered_twice` | Refutes "each verificatore mail is one review cycle". |

Scripts:

| Run | Question and bounds |
|---|---|
| `smoke` | Two runs in different minutes, budget 4 (the smallest with a margin between flood and boundary), the first perhaps interrupted or killed, the system changed between them; one await cut short, one retry, one answer of an agent. The system as coded and eight wrong ones: seven with one fault each, one with more faults hidden behind the first. `PassMeansFuse`: a pass tells them apart. `NoFalseAlarm`: the right one fails no run. Both say how many retries they stand. `AgentsComeBack`: the agents the script stops are started again, unless it is killed or a call is never answered. `TypeOK`. About a million states. |
| `provisioning` | Three agents, two of them with S3 keys, two buckets, two failures (each a death anywhere or a list that fails unseen), one deletion, five secrets: enough for a death inside a loop, a second one or a misread list inside its repair, and the runbook after both; 20 million states. `RunbookRepairs`: after any history the runbook, followed once, completes a newsroom whose secrets agree, unless a script died in one of six places. Old WordPress passwords may stay valid if their list failed in the last script. `RerunDoesNoHarm`: a script run on a complete newsroom touches only what it writes anew (himalaya-password, the copy of the authority, the WordPress password), and leaves the newsroom complete when it ends by itself; if its list failed unseen, the keys or the single password are lost. `TypeOK`. |

Deadlock checking is off for the mail filter and the smoke test, whose instances
stop when their mails are answered or their runs are over.

Assumptions of the runs. `RestartWithinASecond` is FALSE: a new process does not
hold a mail in the second in which the old one held one. With TRUE,
`NothingLost` fails: the hold file is named after a second and a counter that
starts again, and is overwritten. `RerunKeepsRows` compares all tables but the
untagged interventions (see the finding) and the numbers of the cycles, about
which `CyclesInOrder` speaks. `WarningPrecedesFreeze` excepts a refused SELECT,
and the liveness properties of the collector a status file that stays broken and
a log that keeps a bounce of 29 February into a year without one: either undoes
every pass. No other source is poisonous for good in the runs (a value too long
for its column would be). Two runs of the smoke test do not start in the same
minute: their tags would be equal.
The director does not delete mail from the BCC maildir, and one pass of the
collector and one script run at a time.

## Fairness

`MailFilter`: weak fairness of the handler's steps (nothing in `handle_DATA`
waits for another process once a call has returned or raised), of `Restart`
(`restart: unless-stopped` in `spark-a/docker-compose.yml`) and of handing over
some queued mail, since Postfix retries. Errors, crashes and timeouts are never
fair, only bounded. That smtplib answers is assumed: it has no timeout at
`smtp_proxy.py:197`. Expiry of mail in the Postfix queue is left out.
`Collector`: weak fairness of starting a pass (cron) and of its steps; failures
are bounded, and nothing is fair about the sources. `SmokeTest`: weak fairness
of the script's steps and of the mail system's. An await ends after its timeout
whatever becomes of the mail it waits for, but only if each of its polls is
answered in the end: a poll that never is (`Hang`) stops the script, which
`AgentsComeBack` excepts, and only an interrupt by the director then runs the
EXIT trap. `Provisioning` states safety only: whether the
director runs a script again is up to him.

## What is proved

Every invariant and every action property that a passing run checks is a theorem
for all values of the constants that meet the assumptions below; TLC checked each
inductive invariant before it was proved. In a theorem faults, retries, passes
and deletions are bounded by constants as in the runs, whose values are
arbitrary.

`MailFilterProofs`, for all tags, mails, budgets and any number of faults:

- `TypeCorrect`: `Spec => []TypeOK`. Beyond types it says that a handler past
  its first reads works on a tagged thread, which later proofs need.
- `FuseInvariant`: `Spec => []FuseInv`. `FuseHolds` alone is not inductive: a
  delivery is bounded only because a row was written for it, and a row only
  because the count was below the limit. `FuseInv` therefore says that rows
  never exceed the ceiling, that rows ever charged plus the room left never
  exceed the allowance, that deliveries plus the one in flight never exceed the
  charges, and that a handler about to record or re-inject saw its thread below
  the limit and unfrozen. The director's DELETEs keep it because deleting rows
  grants exactly the room it makes.
- `FuseHoldsAlways`: `Spec => []FuseHolds`, from the last.
- `FrozenSilenceAlways`: `Spec => FrozenSilence`; only `Reinject` and
  `ReinjectPartly` deliver, and the invariant has the thread unfrozen there.
- `FilterImplementsFuse`: `Spec => FuseSpec`, action by action.

`MailFilterDelivery`:

- `OnlyViolationsBounceAlways`, by `BounceInv`: a mail the rules reject never
  gets past them, and without errors only such a mail gets to the 550.
- `NothingLostAlways`, by `KeptInv`: before the handler gets near a 250 its mail
  is delivered or in a hold file, and no hold file is lost, since the next name
  is new (`FreshName`: the files of this second were counted by this process).
  The hypothesis `~RestartWithinASecond` is what makes the name new; without it
  the property is false.

`MailFilterNotices`:

- `NotifiedOnceAlways`, by `OnceInv`: every notice sent or due is paid for by a
  flag that is still set or was deleted by the director. A warning's flag is
  deleted after the unfreezing began, so between the two DELETEs one is owed.
- `NoticesTruthful`, by `CountInvariant`: a verdict bounds the rows of its
  thread until the handler has acted on it, while nobody deletes rows
  (`CountInv`), and a thread is frozen only with the mail that trips the fuse on
  disk (`StageInv`).

`MailFilterStages`, for threads the director has not unfrozen:

- `SilencedAtLimit`, by `ShortInv`: a row without a delivery is one in flight or
  was paid for by a fault.
- `TwoStagesAlways`, by `UnwarnedInv`: a thread nobody was warned of has no more
  rows than some budget in use, plus the faults and the mail whose warning is due.
- `NoticeListsAlways`, by `RowsInv`: rows and deliveries are the same but for the
  mail in flight, and a notice still lists the rows, since a thread that got one
  is frozen and takes no more.

`CollectorProofs`, for all mails, tags, agents, lines, days and session files.
`CollectorInvariant` is `Spec => []CInv`, a conjunction of parts, each with a step
lemma of its own:

- `RowsInv`: in `db` and in `tx` a mail is recorded whole or not at all (`Whole`)
  and nothing names an article without a row (`Articles`). It gives
  `ForeignKeysAlways`, `CreatedFirstAlways` and, as storing a recorded mail
  changes no row, `RerunKeepsRowsAlways`.
- `BackedInv`: every director mail and every review counted goes back to a mail
  with rows in `messages`, no two to one. It gives `ColumnsAgreeAlways`, by an
  injection into these mails.
- `FusesInv`: a freeze stored, or read by the first SELECT, is in force until
  the director lifts it, and a thread is frozen after it is warned; so the
  second SELECT, which comes later, finds the warning of every freeze the first
  found. It gives `WarningPrecedesFreezeAlways`.
- `LogInv`: rows of bounces are dated by the line or by a year that has come. It
  gives `BouncesDatedAlways`.
- `CyclesInv`: while a pass goes through its sorted records, the rows it has
  written are in order, end at its counter and lie before the records ahead; the
  rows still to be written are named by a record, so at the end none is left
  with an old number. It gives `CyclesInOrderAlways`.
- `TokensInv` (`Charged`): no day is charged more than the records that name it
  or none, which growing and completed logs keep. It gives
  `TokensCountedOnceAlways`.
- `Gains` and `CountsInv`: `tx` has every row of `db`, and where it renumbers
  reviews, the cycles counted plus the records ahead are at least the numbers
  `db` has, since both count copies in a maildir that only grows. With these
  `NeverLessAlways` is a statement about `Commit` alone.
- `CollectorTypes`: `Spec => []TypeOK`, from the parts.

`ProvisioningProofs`, for all agents, keys, buckets and grants, and any number
of runs, failures and deletions:

- `RerunHarmless`: `Spec => RerunDoesNoHarm`. The property speaks of the two
  ends of a script's run; the invariant `RInv` says what holds in between. While
  a script runs that found the newsroom complete, all it does not write anew
  stays complete (`Kept`, `IntactBut`); what it does write anew is right again but
  for the turns still to come (`Rewritten`: the himalaya-password of an agent
  still to be done may be empty, the WordPress passwords are gone before the new
  one is created); and the keys stay complete unless the list of a run of
  `setup-storage.sh` failed (`KeysKept`). That needs two things more: such a
  script is never at one of the commands it only comes to when something is
  missing (`Repairs`), and an agent's `.env` with a password is not empty
  (`Written`), or sed would leave the new password out.

`RunbookProofs`:

- `ProvisioningTypes`: `Spec => []TypeOK`. That the secrets suffice needs
  `Enough`: a script has as many left as there are agents without a key, and one
  more if it did not see the keys, since it ends at the first key it creates again
  (`Ungranted`, `Doubling`: that key may use nothing yet, and its name is refused).
- `RunbookRepairsAlways`, by `RepairInv`: what only looks complete was left so in
  a window, or is being completed (`Excused`); wherever a password was written
  it is the one of `.env` (`Agreed`); what a command is done for, the commands
  before it have made (`Under`); what each script of the runbook has made is
  there while the runbook is followed (`Reached`).

`SmokeTestProofs`:

- `RunsShareNoTag`: two runs less than 4500 minutes apart share no tag, a run's
  two threads have different tags, and all lie in the years that are wiped. It
  is what lets `Wipe` and the checks tell the threads of two runs apart. The
  argument: year and number of a tag give the minute modulo 4500 back.
- `SmokeTypes`: `Spec => []TypeOK`, with the flood never past its count.
- `SmokeInvariant`: `Spec => [](TypeOK /\ SmokeInv)`, for every budget of at
  least 4, any set of mail systems and any number of runs. `Past`: no letter or
  count belongs to a run to come. `Learnt`: what a step of the script that
  succeeded shows of the system. `Counts`: what is counted and queued on the
  run's two threads is what it sent plus the retries. `Signs`: what an answer
  found in a mailbox tells of the system. `Promised`: with the system as coded
  and fewer retries than the margin, what the script waits for is queued, on
  its way or there. Each is kept by a case analysis on the step of the script
  or of the mail system.
- `PassMeansFuseAlways` and `NoFalseAlarmAlways`, from the last.

Assumptions. The types of the constants, budgets of at most `MaxBudget`, director
and agents distinct; finitely many tags, agents, mails, log lines, session files
and days, since SQL counts them; a first day on which the collector may start;
minutes less than 4500 apart, as the tags of the smoke test wrap around after
that; and `~RestartWithinASecond` for `NothingLostAlways` only.

What the proofs showed:

- `TwoStages` was stated for the budgets of the run; the proof attempt gave the
  form for every budget and margin, in which a restart may change the budget
  between the two thresholds.
- `PassMeansFuse` and `NoFalseAlarm` are false when mail is retried often: as many
  retries as the grace margin is wide use it up. Both now say how many they stand.
- `NeverLess` is false for records that name no day. Such a record is charged to
  the day of the file's mtime and moves on with it; the row of the old day is not
  written again, and stays too high until a late record of that day has it
  written, when the total of the agent falls. TLC has the counterexample with
  one file and two days.

Not proved, only checked by TLC: the liveness properties `EveryMailAnswered`,
`SpentThreadFreezes`, `EveryMailCollected`, `FirstTripsCounted`, `LogsCollected`
and `AgentsComeBack`. Liveness under fairness needs ENABLED, which is beyond the
prover. The six refutations are counterexamples of TLC.

## What disagrees with the documents

Six runs end in a counterexample; PROJECT.json quotes the line each refutes. The
freeze flag is committed before the notice is sent, so a crash in between leaves
a frozen thread nobody was told of. The runbook deletes the freeze flag first
and the counter last, so a mail in between freezes the thread again, now with an
empty history. A recipient refused at re-injection is forgotten. The collector
inserts each untagged director mail again every night, since NULL is equal to no
NULL; it drops every freeze of a tag after the first; and it counts a review
delivered twice as two cycles.

Other limits are exceptions in the properties:

- `RunbookRepairs` excepts six windows, though the runbook calls the scripts
  idempotent and repeatable. A script that dies between the copy of `.env` and
  sed leaves the template's passwords for good; between the redirection and sed,
  an empty agent `.env`; after `ca.crt`, no server certificate; after the layout
  is assigned, one that is never applied; after a key is created, an agent
  without its secret; after a plugin is installed, one that is not active. A
  `cp .env.example .env` cut short half way counts as the first of the six.
- `RerunDoesNoHarm` excepts what a run of a script writes anew and did not get to
  write, though the runbook calls the scripts repeatable: `himalaya-password` and
  `agents/ca.crt` are empty after a run that died between the redirection or cp
  and the write, and the WordPress password is revoked before there is a new
  one. The next run repairs these. It also excepts lists that fail behind
  `|| true`. When `garage key list` does, the run creates an agent's key again,
  puts its secret in the agent's `.env`, and ends at `bucket allow`, since two
  keys have the name: no later run repairs that, and only deleting both keys
  does. When the list of application passwords fails, the old one stays valid
  next to the new one until the next run.
- `AgentsComeBack` excepts a call that is never answered. A mail server that
  accepts and then stays silent keeps `smoke_mail_checks.py` in `imaplib.IMAP4`,
  past the deadline `cmd_await` computes, and the agents stay down until the
  director interrupts the script.
- `PassMeansFuse` and `NoFalseAlarm` except leftovers: two subjects the smoke
  test awaits carry no tag of the run, against `smoke-test.sh:62-64`, so a mail
  of an earlier run may satisfy the first await or fail the second. They also
  except retries: a mail Postfix sends to the filter twice counts twice, so
  retries can hide a wrong limit, or a second fault behind a first, and as many
  as the margin is wide fail the right system. A filter that warns too early
  passes the test.
- `BouncesDated` does not give a syslog line of December read in January its
  own year. A bounce of 29 February that is still in the log in the next year
  cannot be given that year at all: `datetime` raises, and no pass commits
  anything until the log is rotated, which the liveness properties except.
  `TokensCountedOnce` lets a record without a timestamp be charged
  to several days: the reader cannot know better. `NeverLess` speaks of the
  tokens of an agent only while all its records name their day.

## Not modelled

Data: header parsing (given by the constants `Mail`), the text of notices,
replies and report, the answers of the quality form, the details of bounces,
`published_at`, dates within a year (29 February apart), time zones, prompt and
completion tokens as separate numbers. Steps: the rollback of a row left in an open SQLite
transaction when the process dies, deletion of hold files, lock waits between
the collector and the form, two passes or two scripts at once, `setup-dirs.sh`
(it only creates directories, in every run) and the database initialisation
(once, by its container), the smoke test's checks 0, 1, 6, 7 and 9 (each asks
another service once and looks at the answer). Components: the delivery matrix,
Postfix, Dovecot and the containers are declarative configuration of third-party
software; the agents are prompts, and arbitrary input; `backup.sh` copies live
stores one after the other, and no document says what the copies must agree on
(its restore leaves the filter state out), so there is nothing to check it
against; the header linter keeps no state.

## Plan

1. `Newsroom`: delivery matrix, BCC copy and `X-Redazione-Hop` around the rules
   of `FilterRules`: who may reach whom, directly or by forwarding, with its
   types and its reachability bound proved.
2. An abstract ledger for the report, which only ever adds rows in one atomic
   step a night, and the collector shown to implement it; `NeverLess` and
   `RerunKeepsRows` hold the steps of that proof already.
3. Two passes of the collector at once, whose renumbering of cycles would meet.
