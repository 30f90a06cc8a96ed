------------------------------ MODULE MailFilter ------------------------------
(***************************************************************************)
(* The after-queue mail filter: FilterHandler.handle_DATA (smtp_proxy.py)  *)
(* over the SQLite thread state (thread_state.py) and the hold directory,  *)
(* between the Postfix queue that feeds it and the re-injection listener   *)
(* it feeds, with the director who unfreezes threads in the same database. *)
(*                                                                         *)
(* handle_DATA contains no await and smtplib blocks, so the single aiosmtpd*)
(* loop thread handles one message at a time; every effect visible outside *)
(* the process (a SQLite statement, a file, an SMTP transaction, the reply)*)
(* is a step of its own, and between two of them the director may write    *)
(* the database, Postfix may give up waiting, or the process may die.      *)
(***************************************************************************)
EXTENDS FilterRules, FiniteSets, SequencesExt

CONSTANTS
    Msgs,                 \* mails Postfix hands to the filter
    NoMsg,                \* no mail is being handled
    Mail,                 \* Mail[m]: envelope, From header and subject of m
    Budgets,              \* values NEWSROOM_MESSAGE_BUDGET may be given
    MaxBudget,            \* an upper bound on them
    SummaryLimit,         \* rows listed in the freeze notice (20)
    RestartWithinASecond, \* may a new process hold a mail in the second the
                          \* old one died in?
    MaxCrashes, MaxErrors, MaxTimeouts, MaxUnfreezes \* bounds on faults

ASSUME MsgAssumption == NoMsg \notin Msgs
ASSUME MailAssumption ==
    Mail \in [Msgs -> [sender  : Addresses \cup {NoAddress},
                       from    : Addresses \cup {NoAddress},
                       rcpts   : (SUBSET Addresses) \ {{}},
                       subject : Subject]]
ASSUME BudgetAssumption ==
    /\ MaxBudget \in Nat
    /\ Budgets # {} /\ Budgets \subseteq 0 .. MaxBudget
ASSUME SummaryAssumption == SummaryLimit \in Nat \ {0}
ASSUME BoundAssumption ==
    /\ RestartWithinASecond \in BOOLEAN
    /\ {MaxCrashes, MaxErrors, MaxTimeouts, MaxUnfreezes} \subseteq Nat

VARIABLES
    queue,           \* Postfix: "queued" until answered, then "sent" or "bounced"
    waiting,         \* is Postfix still waiting for the reply to msg?
    thread_messages, \* state.db: per tag, the rows in id order
    frozen_threads,  \* state.db
    warned_threads,  \* state.db
    hold,            \* files under hold/: [tag, stamp, counter, msg]
    clock,           \* wall clock, in seconds, as seen by restarts
    pc,              \* where handle_DATA stands; "down" when no process runs
    msg, verdict,    \* its local variables
    hold_counter,    \* _hold_counter, volatile
    budget,          \* config.budget, read at start
    unfreezing,      \* per tag, how many of the runbook's DELETEs are done
    \* History: what the outside world has seen.
    delivered,       \* per thread, the mails re-injected, in order
    reached,         \* per mail, the recipients a re-injection was accepted for
    charged,         \* per tag, rows ever recorded
    allowance,       \* per tag, Ceiling for every life of the thread
    notices,         \* per tag, the freeze notices sent to the director
    warnings,        \* per tag, the warnings sent to the caporedattore
    unfreezes,       \* per tag, DELETEs from frozen_threads
    crashes, errors, timeouts

postfix == <<queue, waiting>>
db      == <<thread_messages, frozen_threads, warned_threads>>
disk    == <<hold, hold_counter>>
local   == <<msg, verdict>>
process == <<clock, budget>>
mailed  == <<delivered, reached, notices, warnings>>
ledger  == <<charged, allowance, unfreezes>>
faults  == <<crashes, errors, timeouts>>
vars == <<postfix, db, disk, local, pc, process, unfreezing, mailed, ledger, faults>>

Threads == Tags \cup {NoTag}

\* The thread a mail is handled on; a bounce is passed through untouched.
ThreadOf(m) ==
    IF Mail[m].sender = NoAddress THEN NoTag ELSE extract_tag(Mail[m].subject)

tag == ThreadOf(msg)

Ceiling == HardLimit(MaxBudget)

HoldFile == [tag : Tags, stamp : Nat, counter : Nat, msg : Msgs]

\* The steps of handle_DATA that call SQLite, the file system or SMTP.
Working == {"is_frozen", "hold", "hold_freeze", "freeze", "notify_director",
            "record", "reinject", "warn", "notify_caporedattore"}

Answering == {"accept", "reject"}

-----------------------------------------------------------------------------
Init ==
    \* A mail not yet submitted behaves as one queued and not yet picked.
    /\ queue = [m \in Msgs |-> "queued"]
    /\ waiting = FALSE
    /\ thread_messages = [t \in Tags |-> <<>>]
    /\ frozen_threads = {} /\ warned_threads = {}
    /\ hold = {} /\ hold_counter = 0
    /\ clock = 0
    /\ pc = "idle" /\ msg = NoMsg /\ verdict = "accept"
    /\ budget \in Budgets
    /\ unfreezing = [t \in Tags |-> 0]
    /\ delivered = [t \in Threads |-> <<>>]
    /\ reached = [m \in Msgs |-> {}]
    /\ charged = [t \in Tags |-> 0]
    /\ allowance = [t \in Tags |-> Ceiling]
    /\ notices = [t \in Tags |-> <<>>]
    /\ warnings = [t \in Tags |-> 0]
    /\ unfreezes = [t \in Tags |-> 0]
    /\ crashes = 0 /\ errors = 0 /\ timeouts = 0

\* A slip: the count forgets its WHERE clause.
message_count_AllTags(t) == FoldSet(LAMBDA u, n : n + Len(thread_messages[u]), 0, Tags)

message_count(t) == Len(thread_messages[t])

\* A slip: the summary forgets DESC, and lists the oldest rows.
thread_summary_Oldest(t) ==
    LET n == Len(thread_messages[t])
    IN  SubSeq(thread_messages[t], 1, IF n > SummaryLimit THEN SummaryLimit ELSE n)

\* ORDER BY id DESC LIMIT ?, oldest first.
thread_summary(t) ==
    LET n == Len(thread_messages[t])
    IN  SubSeq(thread_messages[t],
               IF n > SummaryLimit THEN n - SummaryLimit + 1 ELSE 1, n)

\* What the two notices say: the numbers and the mails named in their bodies.
build_warning_notification(t) ==
    [tag |-> t, budget |-> budget, grace |-> grace_margin(budget)]

build_freeze_notification(t) ==
    [tag |-> t, budget |-> budget, entries |-> thread_summary(t)]

\* A call returns and control goes on at next, or it raises after having
\* taken effect (a reply lost after DATA, a row left in the connection's open
\* transaction by a failed commit): aiosmtpd answers 500.
Returns(next) ==
    /\ UNCHANGED <<crashes, timeouts>>
    /\ \/ pc' = next /\ UNCHANGED errors
       \/ errors < MaxErrors /\ pc' = "reject" /\ errors' = errors + 1

-----------------------------------------------------------------------------
(* Postfix opens a transaction and handle_DATA runs up to the first check  *)
(* that needs the database again.                                          *)

Receive(m) ==
    /\ pc = "idle" /\ queue[m] = "queued"
    /\ msg' = m
    /\ waiting' = TRUE
    /\ UNCHANGED <<queue, db, disk, process, unfreezing, mailed, ledger, faults>>

PassBounce(m) ==
    /\ Receive(m)
    /\ Mail[m].sender = NoAddress
    /\ pc' = "reinject" /\ verdict' = "accept"

RejectMismatch(m) ==
    /\ Receive(m)
    /\ Mail[m].sender # NoAddress
    /\ ~from_matches_sender(Mail[m].from, Mail[m].sender)
    /\ pc' = "reject" /\ verdict' = "accept"

\* A slip: the count leaves out the last mail accepted.
Evaluate_OneBehind(m) ==
    LET t == extract_tag(Mail[m].subject)
        count == IF t = NoTag \/ message_count(t) = 0 THEN 0 ELSE message_count(t) - 1
    IN  /\ Receive(m)
        /\ Mail[m].sender # NoAddress
        /\ from_matches_sender(Mail[m].from, Mail[m].sender)
        /\ verdict' = evaluate_subject(Mail[m].subject, count, budget)
        /\ pc' = CASE verdict' = "reject_no_tag" -> "reject"
                   [] verdict' # "reject_no_tag" /\ t = NoTag -> "reinject"
                   [] t # NoTag -> "is_frozen"

\* A slip: untagged service mail is checked against the frozen threads too.
Evaluate_TagForgotten(m) ==
    LET t == extract_tag(Mail[m].subject)
        count == IF t = NoTag THEN 0 ELSE message_count(t)
    IN  /\ Receive(m)
        /\ Mail[m].sender # NoAddress
        /\ from_matches_sender(Mail[m].from, Mail[m].sender)
        /\ verdict' = evaluate_subject(Mail[m].subject, count, budget)
        /\ pc' = IF verdict' = "reject_no_tag" THEN "reject" ELSE "is_frozen"

Evaluate(m) ==
    LET t == extract_tag(Mail[m].subject)
        count == IF t = NoTag THEN 0 ELSE message_count(t)
    IN  /\ Receive(m)
        /\ Mail[m].sender # NoAddress
        /\ from_matches_sender(Mail[m].from, Mail[m].sender)
        /\ verdict' = evaluate_subject(Mail[m].subject, count, budget)
        /\ pc' = CASE verdict' = "reject_no_tag" -> "reject"
                   [] verdict' # "reject_no_tag" /\ t = NoTag -> "reinject"
                   [] t # NoTag -> "is_frozen"

Begin(m) == PassBounce(m) \/ RejectMismatch(m) \/ Evaluate(m)

\* A slip: only the counter is looked at, not the freeze flag.
CheckFrozen_BudgetOnly ==
    /\ pc = "is_frozen"
    /\ pc' = IF verdict = "freeze" THEN "hold_freeze" ELSE "record"
    /\ UNCHANGED <<postfix, db, disk, local, process, unfreezing, mailed, ledger, faults>>

\* A slip: mail on a frozen thread is refused instead of held.
CheckFrozen_Refuses ==
    /\ pc = "is_frozen"
    /\ pc' = CASE tag \in frozen_threads -> "reject"
               [] tag \notin frozen_threads /\ verdict = "freeze" -> "hold_freeze"
               [] tag \notin frozen_threads /\ verdict # "freeze" -> "record"
    /\ UNCHANGED <<postfix, db, disk, local, process, unfreezing, mailed, ledger, faults>>

CheckFrozen ==
    /\ pc = "is_frozen"
    /\ pc' = CASE tag \in frozen_threads -> "hold"
               [] tag \notin frozen_threads /\ verdict = "freeze" -> "hold_freeze"
               [] tag \notin frozen_threads /\ verdict # "freeze" -> "record"
    /\ UNCHANGED <<postfix, db, disk, local, process, unfreezing, mailed, ledger, faults>>

\* A slip: the counter is not incremented, and names repeat within a second.
WriteHoldFile_NoCounter ==
    /\ hold' = {f \in hold : <<f.tag, f.stamp, f.counter>> # <<tag, clock, hold_counter>>}
               \cup {[tag |-> tag, stamp |-> clock, counter |-> hold_counter, msg |-> msg]}
    /\ UNCHANGED <<hold_counter, postfix, db, local, process, unfreezing, mailed, ledger>>

\* _hold: the file name is a second and a per-process counter; a second write
\* to one name replaces the file.
WriteHoldFile ==
    /\ hold_counter' = hold_counter + 1
    /\ hold' = {f \in hold : <<f.tag, f.stamp, f.counter>> # <<tag, clock, hold_counter'>>}
               \cup {[tag |-> tag, stamp |-> clock, counter |-> hold_counter', msg |-> msg]}
    /\ UNCHANGED <<postfix, db, local, process, unfreezing, mailed, ledger>>

HoldFrozen ==
    /\ pc = "hold"
    /\ WriteHoldFile
    /\ Returns("accept")

HoldOverBudget ==
    /\ pc = "hold_freeze"
    /\ WriteHoldFile
    /\ Returns("freeze")

\* A slip: the freeze flag is never committed.
Freeze_NotSaved ==
    /\ pc = "freeze"
    /\ Returns(IF tag \in frozen_threads THEN "accept" ELSE "notify_director")
    /\ UNCHANGED <<postfix, db, disk, local, process, unfreezing, mailed, ledger>>

\* INSERT OR IGNORE; only the caller whose insert wins notifies.
Freeze ==
    /\ pc = "freeze"
    /\ frozen_threads' = frozen_threads \cup {tag}
    /\ Returns(IF tag \in frozen_threads THEN "accept" ELSE "notify_director")
    /\ UNCHANGED <<postfix, thread_messages, warned_threads, disk, local, process,
                   unfreezing, mailed, ledger>>

NotifyDirector ==
    /\ pc = "notify_director"
    /\ notices' = [notices EXCEPT ![tag] = Append(@, build_freeze_notification(tag).entries)]
    /\ Returns("accept")
    /\ UNCHANGED <<postfix, db, disk, local, process, unfreezing,
                   delivered, reached, warnings, ledger>>

\* A slip: mail delivered in the grace zone is not counted.
RecordMessage_NotInGrace ==
    /\ pc = "record"
    /\ thread_messages' = IF verdict = "accept_warn" THEN thread_messages
                          ELSE [thread_messages EXCEPT ![tag] = Append(@, msg)]
    /\ charged' = [charged EXCEPT ![tag] = @ + 1]
    /\ Returns("reinject")
    /\ UNCHANGED <<postfix, frozen_threads, warned_threads, disk, local, process,
                   unfreezing, mailed, allowance, unfreezes>>

RecordMessage ==
    /\ pc = "record"
    /\ thread_messages' = [thread_messages EXCEPT ![tag] = Append(@, msg)]
    /\ charged' = [charged EXCEPT ![tag] = @ + 1]
    /\ Returns("reinject")
    /\ UNCHANGED <<postfix, frozen_threads, warned_threads, disk, local, process,
                   unfreezing, mailed, allowance, unfreezes>>

\* The re-injection is accepted for the recipients in R.  send_message raises
\* only when every recipient is refused; a partial refusal is returned in a
\* dictionary nobody reads.
SendTo(R) ==
    /\ delivered' = [delivered EXCEPT ![tag] = Append(@, msg)]
    /\ reached' = [reached EXCEPT ![msg] = @ \cup R]
    /\ UNCHANGED <<postfix, db, disk, local, process, unfreezing,
                   notices, warnings, ledger>>

AfterReinject == IF verdict = "accept_warn" THEN "warn" ELSE "accept"

Reinject ==
    /\ pc = "reinject"
    /\ SendTo(Mail[msg].rcpts)
    /\ Returns(AfterReinject)

ReinjectPartly ==
    /\ pc = "reinject" /\ errors < MaxErrors
    /\ \E R \in (SUBSET Mail[msg].rcpts) \ {{}, Mail[msg].rcpts} : SendTo(R)
    /\ pc' = AfterReinject
    /\ errors' = errors + 1
    /\ UNCHANGED <<crashes, timeouts>>

Warn ==
    /\ pc = "warn"
    /\ warned_threads' = warned_threads \cup {tag}
    /\ Returns(IF tag \in warned_threads THEN "accept" ELSE "notify_caporedattore")
    /\ UNCHANGED <<postfix, thread_messages, frozen_threads, disk, local, process,
                   unfreezing, mailed, ledger>>

NotifyCaporedattore ==
    /\ pc = "notify_caporedattore"
    /\ warnings' = [warnings EXCEPT ![tag] = @ + 1]
    /\ Returns("accept")
    /\ UNCHANGED <<postfix, db, disk, local, process, unfreezing,
                   delivered, reached, notices, ledger>>

\* A slip: the handler does not finish when Postfix has hung up.
Reply_NeedsClient ==
    /\ pc \in Answering /\ waiting
    /\ queue' = [queue EXCEPT ![msg] = IF pc = "accept" THEN "sent" ELSE "bounced"]
    /\ waiting' = FALSE
    /\ pc' = "idle" /\ msg' = NoMsg /\ verdict' = "accept"
    /\ UNCHANGED <<db, disk, process, unfreezing, mailed, ledger, faults>>

\* The SMTP reply: 250 takes the mail off the queue, 5xx bounces it.
Reply ==
    /\ pc \in Answering
    /\ queue' = IF waiting
                THEN [queue EXCEPT ![msg] = IF pc = "accept" THEN "sent" ELSE "bounced"]
                ELSE queue
    /\ waiting' = FALSE
    /\ pc' = "idle" /\ msg' = NoMsg /\ verdict' = "accept"
    /\ UNCHANGED <<db, disk, process, unfreezing, mailed, ledger, faults>>

HandlerStep ==
    \/ CheckFrozen \/ HoldFrozen \/ HoldOverBudget \/ Freeze \/ NotifyDirector
    \/ RecordMessage \/ Reinject \/ Warn \/ NotifyCaporedattore \/ Reply

-----------------------------------------------------------------------------
(* Faults.                                                                 *)

\* A call raises without having taken effect.
Raise ==
    /\ pc \in Working /\ errors < MaxErrors
    /\ pc' = "reject"
    /\ errors' = errors + 1
    /\ UNCHANGED <<postfix, db, disk, local, process, unfreezing, mailed, ledger,
                   crashes, timeouts>>

\* Postfix stops waiting for the reply (the re-injection blocks, without a
\* timeout of its own); the mail stays queued and the handler goes on.
GiveUp ==
    /\ waiting /\ timeouts < MaxTimeouts
    /\ waiting' = FALSE
    /\ timeouts' = timeouts + 1
    /\ UNCHANGED <<queue, db, disk, local, pc, process, unfreezing, mailed, ledger,
                   crashes, errors>>

\* The process dies between two steps; what it had not answered stays queued.
Crash ==
    /\ pc # "down" /\ crashes < MaxCrashes
    /\ pc' = "down" /\ msg' = NoMsg /\ verdict' = "accept"
    /\ waiting' = FALSE
    /\ crashes' = crashes + 1
    /\ UNCHANGED <<queue, db, disk, process, unfreezing, mailed, ledger, errors, timeouts>>

\* A new process: FilterConfig and FilterHandler.__init__ run again.
Restart ==
    /\ pc = "down"
    /\ pc' = "idle"
    /\ hold_counter' = 0
    /\ budget' \in Budgets
    /\ clock' \in {clock + 1} \cup (IF RestartWithinASecond THEN {clock} ELSE {})
    /\ UNCHANGED <<postfix, db, hold, local, unfreezing, mailed, ledger, faults>>

-----------------------------------------------------------------------------
(* The director unfreezes a thread: three DELETEs, each its own            *)
(* transaction in the sqlite3 shell, in the runbook's order.               *)

DeleteFrozen(t) ==
    /\ unfreezing[t] = 0 /\ t \in frozen_threads /\ unfreezes[t] < MaxUnfreezes
    /\ frozen_threads' = frozen_threads \ {t}
    /\ unfreezes' = [unfreezes EXCEPT ![t] = @ + 1]
    /\ unfreezing' = [unfreezing EXCEPT ![t] = 1]
    /\ UNCHANGED <<postfix, thread_messages, warned_threads, disk, local, pc, process,
                   mailed, charged, allowance, faults>>

DeleteWarned(t) ==
    /\ unfreezing[t] = 1
    /\ warned_threads' = warned_threads \ {t}
    /\ unfreezing' = [unfreezing EXCEPT ![t] = 2]
    /\ UNCHANGED <<postfix, thread_messages, frozen_threads, disk, local, pc, process,
                   mailed, ledger, faults>>

DeleteMessages(t) ==
    /\ unfreezing[t] = 2
    /\ thread_messages' = [thread_messages EXCEPT ![t] = <<>>]
    /\ allowance' = [allowance EXCEPT ![t] = @ + Ceiling]
    /\ unfreezing' = [unfreezing EXCEPT ![t] = 0]
    /\ UNCHANGED <<postfix, frozen_threads, warned_threads, disk, local, pc, process,
                   mailed, charged, unfreezes, faults>>

Director == \E t \in Tags : DeleteFrozen(t) \/ DeleteWarned(t) \/ DeleteMessages(t)

-----------------------------------------------------------------------------
Next ==
    \/ \E m \in Msgs : Begin(m)
    \/ HandlerStep \/ ReinjectPartly
    \/ Raise \/ GiveUp \/ Crash \/ Restart
    \/ Director

Spec == Init /\ [][Next]_vars

\* handle_DATA runs to its end once started, docker restarts the container
\* (restart: unless-stopped) and Postfix retries what it could not hand over.
Fairness ==
    /\ WF_vars(HandlerStep)
    /\ WF_vars(Restart)
    /\ WF_vars(\E m \in Msgs : Begin(m))

FairSpec == Spec /\ Fairness

-----------------------------------------------------------------------------
(* Safety.                                                                 *)

\* Every variable keeps its type, and a handler past its first reads of the
\* database works on a tagged thread.
TypeOK ==
    /\ queue \in [Msgs -> {"queued", "sent", "bounced"}]
    /\ waiting \in BOOLEAN
    /\ thread_messages \in [Tags -> Seq(Msgs)]
    /\ frozen_threads \subseteq Tags /\ warned_threads \subseteq Tags
    /\ hold \subseteq HoldFile /\ hold_counter \in Nat
    /\ clock \in Nat
    /\ pc \in Working \cup Answering \cup {"idle", "down"}
    /\ msg \in Msgs \cup {NoMsg} /\ verdict \in Verdict
    /\ pc \in Working \cup Answering => msg \in Msgs
    /\ pc \in Working \ {"reinject"} => tag \in Tags
    /\ pc = "reinject" /\ verdict = "accept_warn" => tag \in Tags
    /\ budget \in Budgets
    /\ unfreezing \in [Tags -> 0 .. 2]
    /\ delivered \in [Threads -> Seq(Msgs)]
    /\ reached \in [Msgs -> SUBSET Addresses]
    /\ charged \in [Tags -> Nat] /\ allowance \in [Tags -> Nat]
    /\ notices \in [Tags -> Seq(Seq(Msgs))]
    /\ warnings \in [Tags -> Nat] /\ unfreezes \in [Tags -> Nat]
    /\ crashes \in Nat /\ errors \in Nat /\ timeouts \in Nat

\* The fuse holds: whatever crashes, is retried or fails, and however the
\* director's DELETEs fall between the steps of a handler, a thread has never
\* re-injected more than HardLimit mails for each life it was given.
FuseHolds == \A t \in Tags : Len(delivered[t]) <= allowance[t]

\* Why it holds, inductively: rows never exceed Ceiling, each row uses up
\* allowance, each re-injection uses up a row recorded for it, and a handler
\* about to record or re-inject saw its thread unfrozen and below the limit,
\* which the director's DELETEs cannot undo.
InFlight(t) == IF pc = "reinject" /\ tag = t THEN 1 ELSE 0

FuseInv ==
    /\ \A t \in Tags :
        /\ Len(thread_messages[t]) <= Ceiling
        /\ charged[t] + (Ceiling - Len(thread_messages[t])) <= allowance[t]
        /\ Len(delivered[t]) + InFlight(t) <= charged[t]
    /\ pc = "record" \/ (pc = "is_frozen" /\ verdict # "freeze") =>
            Len(thread_messages[tag]) < Ceiling
    /\ pc \in {"record", "reinject"} => tag \notin frozen_threads

\* "Going silent is the point of the fuse": no step re-injects a mail of a
\* thread that is frozen, not even under a budget raised by a restart.
FrozenSilence ==
    [][\A t \in Tags : delivered'[t] # delivered[t] => t \notin frozen_threads]_vars

\* No mail is answered 250 and lost: it was re-injected, or a file under
\* hold/ still contains it.
NothingLost ==
    \A m \in Msgs : queue[m] = "sent" =>
        \/ m \in Range(delivered[ThreadOf(m)])
        \/ \E f \in hold : f.msg = m

\* The director gets at most one freeze notice, and the caporedattore at most
\* one warning, for each time the thread was given back by the director.
NotifiedOnce ==
    \A t \in Tags : /\ Len(notices[t]) <= 1 + unfreezes[t]
                    /\ warnings[t] <= 1 + unfreezes[t]

\* While nobody deletes rows, the freeze notice accounts for what the thread
\* delivered: without crashes and errors it lists the last deliveries, in
\* order, up to SummaryLimit; and as long as the rows fit it omits no delivered
\* mail, whatever failed or was retried.
NoticeListsDeliveries ==
    \A t \in Tags : notices[t] # <<>> /\ unfreezes[t] = 0 =>
        LET listed == Last(notices[t])
            n      == Len(delivered[t])
        IN  /\ crashes + errors = 0 =>
                 listed = SubSeq(delivered[t],
                                 IF n > SummaryLimit THEN n - SummaryLimit + 1 ELSE 1, n)
            /\ charged[t] <= SummaryLimit => Range(delivered[t]) \subseteq Range(listed)

\* The fuse has two stages: until the director unfreezes it, a thread is
\* frozen without having been warned only if crashes and errors ate what lies
\* between the budget it would have been warned at and the limit it was frozen
\* at.  Both belong to the budget in use, the grace margin apart, unless a
\* restart changed it in between.
TwoStages ==
    \A t \in frozen_threads :
        unfreezes[t] = 0 /\ t \notin warned_threads =>
            \E warn, trip \in Budgets :
                /\ warn + crashes + errors >= HardLimit(trip)
                /\ crashes = 0 => warn = budget /\ trip = budget

\* While nobody unfreezes it, a thread falls silent only after delivering the
\* budget and grace margin of some budget in use, less one mail for each crash
\* or error: retries and traffic on other threads never cost it anything.
NeverSilencedEarly ==
    \A t \in frozen_threads :
        unfreezes[t] = 0 =>
            \E b \in Budgets : Len(delivered[t]) + crashes + errors >= HardLimit(b)

\* What a notice says is true when it is sent, though the verdict it rests on
\* is some steps old: the thread has passed the budget, no more than the stated
\* margin remains and there is one left to warn about; or budget and margin are
\* used up, the thread is silent, and a mail of it waits in the hold directory.
NoticesTellTheTruth ==
    /\ pc = "notify_caporedattore" /\ unfreezes[tag] = 0 =>
        LET notice == build_warning_notification(tag)
        IN  message_count(tag) \in notice.budget + 1 .. notice.budget + notice.grace
    /\ pc = "notify_director" /\ unfreezes[tag] = 0 =>
        LET notice == build_freeze_notification(tag)
        IN  /\ message_count(tag) >= HardLimit(notice.budget)
            /\ tag \in frozen_threads
            /\ \E f \in hold : f.tag = tag /\ f.msg = msg

\* Only a mail the rules reject bounces: without errors, a crash, a retry or a
\* frozen thread never turns an acceptable mail into a bounce, and a bounced
\* mail was never re-injected.
OnlyViolationsBounce ==
    \A m \in Msgs : queue[m] = "bounced" /\ errors = 0 =>
        /\ Mail[m].sender # NoAddress
        /\ \/ ~from_matches_sender(Mail[m].from, Mail[m].sender)
           \/ extract_tag(Mail[m].subject) = NoTag /\ ~has_service_flag(Mail[m].subject)
        /\ m \notin Range(delivered[ThreadOf(m)])

-----------------------------------------------------------------------------
(* Liveness, under FairSpec.                                               *)

\* Postfix gets every mail off its queue, in spite of crashes and timeouts.
EveryMailAnswered == <>(\A m \in Msgs : queue[m] # "queued")

\* A mail waiting on a thread that has spent budget and grace freezes it,
\* unless a call of the handler raised and had the mail bounced.
SpentThreadFreezes ==
    \A t \in Tags :
        (/\ message_count(t) >= HardLimit(MaxBudget)
         /\ \E m \in Msgs \ {msg} :
                /\ queue[m] = "queued" /\ ThreadOf(m) = t
                /\ from_matches_sender(Mail[m].from, Mail[m].sender))
        ~> (t \in frozen_threads \/ errors > 0)

-----------------------------------------------------------------------------
(* What the code's own documents say of it, and the runs refute.           *)

\* thread_state.py: "frozen_threads guarantees the director is notified
\* exactly once per tag".
EveryFreezeIsNotified ==
    \A t \in Tags : t \in frozen_threads ~> notices[t] # <<>>

\* RUNBOOK.it.md: after the three DELETEs the thread is open again, its
\* counter cleared so that the next mail does not freeze it.
UnfreezeOpensThread ==
    \A t \in Tags :
        unfreezes[t] > 0 /\ unfreezing[t] = 0 /\ thread_messages[t] = <<>> =>
            t \notin frozen_threads

\* CODING-STANDARDS.md: "Failures must remain visible": a mail answered 250
\* and re-injected reached every recipient it was addressed to.
NoSilentRefusal ==
    \A m \in Msgs : queue[m] = "sent" /\ m \in Range(delivered[ThreadOf(m)]) =>
        reached[m] = Mail[m].rcpts

-----------------------------------------------------------------------------
\* The promise of the fuse, implemented by the counter and the freeze flag.
Fuse == INSTANCE MessageFuse WITH
            deliveries <- [t \in Tags |-> Len(delivered[t])],
            granted    <- allowance,
            frozen     <- frozen_threads

FuseSpec == Fuse!Spec
=============================================================================
