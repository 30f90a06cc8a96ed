------------------------------ MODULE SmokeTest ------------------------------
(***************************************************************************)
(* The mail checks of the smoke test (scripts/smoke-test.sh, prep and      *)
(* checks 2-5 and 8, and the primitives of scripts/smoke_mail_checks.py)   *)
(* against a mail system that may or may not be the one coded: what does a *)
(* verdict say?  Submission only queues a mail; the filter and the         *)
(* mailboxes see it later, in any order.  A run may fail, be interrupted   *)
(* or killed with mail still queued, and the test be run again, on a       *)
(* system that was changed meanwhile.                                      *)
(*                                                                         *)
(* A mail is the text of its subject and the run that sent it.  Mailboxes  *)
(* only show what some check looks for.                                    *)
(***************************************************************************)
EXTENDS FilterRules, FiniteSets, SequencesExt

CONSTANTS
    Budget,      \* the budget the script is written for (60)
    Systems,     \* mail systems the test is run against
    Minutes,     \* moments at which a run may compute its tags
    MaxRuns,     \* runs of the script
    MaxSlow,     \* awaits of a run that end with mail still on its way
    MaxRetries,  \* mails Postfix sends to the filter again
    MaxReplies   \* mails the agents answer

ASSUME SmokeAssumption ==
    /\ Budget \in Nat /\ Budget >= 4 /\ Minutes \subseteq Nat /\ MaxRuns \in Nat
    /\ {MaxSlow, MaxRetries, MaxReplies} \subseteq Nat
    /\ Systems \subseteq [warn : Nat, hard : Nat, matrix : BOOLEAN, tagged : BOOLEAN,
                          grace : BOOLEAN, holds : BOOLEAN]

\* The two tags of a run, from the minute it starts in.
SerialOf(minute) == minute % 4500
TAG(minute)  == <<2090 + SerialOf(minute) \div 450, 100 + (SerialOf(minute) % 450)>>
TAG2(minute) == <<2090 + SerialOf(minute) \div 450, 550 + (SerialOf(minute) % 450)>>
SmokeTags == {TAG(m) : m \in Minutes} \cup {TAG2(m) : m \in Minutes}
ASSUME SmokeTagAssumption == SmokeTags = Tags

\* The serial wraps around after 4500 minutes: runs are less far apart.
ASSUME MinuteAssumption == \A m, n \in Minutes : m - n < 4500

Boxes == {"verificatore", "director", "caporedattore", "cronista"}

\* What is sent, and what is answered to it.
Sent    == {"consegna", "fuori_matrice", "senza_etichetta", "riempimento", "grazia",
            "oltre", "servizio", "risposta"}
Answers == {"bounce", "in_margine", "fusibile"}
Runs    == 1 .. MaxRuns
Mail    == [kind : Sent, run : Runs]
Letter  == [box : Boxes, kind : Sent \cup Answers, run : Runs, hop : Int]

\* The system of this repository, as FilterRules has it.
AsCoded == [warn |-> Budget, hard |-> HardLimit(Budget), matrix |-> TRUE,
            tagged |-> TRUE, grace |-> TRUE, holds |-> TRUE]

VARIABLES
    sut,       \* the system under test
    agents_up, \* do the agents read and answer mail?
    queue,     \* per mail, its copies queued by Postfix, not yet through the filter
    counted, warned, frozen, \* the filter's state, per tag
    transit,   \* letters on their way to a mailbox
    inbox,     \* letters in the mailboxes
    run,       \* the current or last run
    minute,    \* per run, the minute of its tags
    pc,        \* index of the current step of the script; 0 between runs
    sent,      \* messages of the current flood already sent
    verdict,   \* of the last run: its exit status, or how it was cut short
    slow,      \* awaits of this run that ran out with mail on its way
    hung,      \* does the run wait for an answer that never comes?
    retries, replies

filter == <<counted, warned, frozen>>
boxes  == <<transit, inbox>>
script == <<run, minute, pc, sent, verdict, slow, hung>>
vars == <<sut, agents_up, queue, filter, boxes, script, retries, replies>>

Clean == [t \in Tags |-> FALSE]

Init ==
    /\ sut = AsCoded /\ agents_up = TRUE
    /\ queue = [m \in Mail |-> 0]
    /\ counted = [t \in Tags |-> 0] /\ warned = Clean /\ frozen = Clean
    /\ transit = {} /\ inbox = {}
    /\ run = 0 /\ minute = [r \in Runs |-> 0] /\ pc = 0 /\ sent = 0
    /\ verdict = "none" /\ slow = 0 /\ hung = FALSE
    /\ retries = 0 /\ replies = 0

-----------------------------------------------------------------------------
(* The script.                                                             *)

Await(box, kind, by) ==
    [op |-> "await", box |-> box, kind |-> kind, by |-> by, expect_hop |-> NoHop,
     expect_absent |-> FALSE]
Send(kind) == [op |-> "send", kind |-> kind, expect_refused |-> FALSE]
Flood(n)   == [op |-> "flood", count |-> n]
Count(n)   == [op |-> "await_filter_count", count |-> n]
Do(op)     == [op |-> op]

Delivery ==
    <<Send("consegna"),
      [Await("verificatore", "consegna", "tag") EXCEPT !.expect_hop = 0],
      [Await("director", "consegna", "tag") EXCEPT !.expect_hop = 0]>>

Refusals ==
    <<[Send("fuori_matrice") EXCEPT !.expect_refused = TRUE],
      Send("senza_etichetta"), Await("cronista", "bounce", "nonce")>>

Grace ==
    <<Flood(Budget), Count(Budget), Send("grazia"),
      Await("caporedattore", "in_margine", "tag"), Await("verificatore", "grazia", "text")>>

Freeze ==
    <<Flood(HardLimit(Budget) - Budget - 1), Count(HardLimit(Budget)), Send("oltre"),
      Await("director", "fusibile", "tag"),
      [Await("verificatore", "oltre", "text") EXCEPT !.expect_absent = TRUE]>>

Online == <<Do("start"), [Send("servizio") EXCEPT !.expect_refused = TRUE]>>

\* A slip: the barriers are left out.
Script_NoBarrier ==
    SelectSeq(<<Do("stop"), Do("wipe")>> \o Delivery \o Refusals \o Grace \o Freeze \o Online,
              LAMBDA s : s.op # "await_filter_count")

\* A slip: nobody waits for the freeze notice before looking for the mail.
Script_NoNotice ==
    SelectSeq(<<Do("stop"), Do("wipe")>> \o Delivery \o Refusals \o Grace \o Freeze \o Online,
              LAMBDA s : s.op # "await" \/ s.box # "director" \/ s.kind # "fusibile")

Script == <<Do("stop"), Do("wipe")>> \o Delivery \o Refusals \o Grace \o Freeze \o Online

Step == Script[pc]

\* The agents come back with the EXIT trap, however the script ends.
Ends(v) ==
    /\ pc' = 0 /\ sent' = 0 /\ verdict' = v /\ agents_up' = TRUE

Advance ==
    IF pc = Len(Script) THEN Ends("pass")
    ELSE /\ pc' = pc + 1 /\ UNCHANGED <<sent, verdict, agents_up>>

\* Not two runs in one minute: their tags would be the same.
StartRun ==
    /\ pc = 0 /\ run < MaxRuns
    /\ \E m \in Minutes :
        /\ run > 0 => m > minute[run]
        /\ minute' = [minute EXCEPT ![run + 1] = m]
    /\ run' = run + 1 /\ pc' = 1 /\ verdict' = "none" /\ slow' = 0
    /\ sut' \in Systems
    /\ UNCHANGED <<agents_up, queue, filter, boxes, sent, hung, retries, replies>>

compose(op) ==
    /\ Step.op = op /\ op \in {"stop", "start"}
    /\ agents_up' = (op = "start")
    /\ pc' = pc + 1
    /\ UNCHANGED <<sut, queue, filter, boxes, run, minute, sent, verdict, slow,
                   retries, replies>>

\* Every tag of the smoke years, those of other runs too.
Wipe ==
    /\ Step.op = "wipe"
    /\ counted' = [t \in Tags |-> 0] /\ warned' = Clean /\ frozen' = Clean
    /\ pc' = pc + 1
    /\ UNCHANGED <<sut, agents_up, queue, boxes, run, minute, sent, verdict, slow,
                   retries, replies>>

Enqueue(kind) == [queue EXCEPT ![[kind |-> kind, run |-> run]] = @ + 1]

Accepts(kind) == kind \in {"fuori_matrice", "servizio"} => ~sut.matrix

cmd_send ==
    /\ Step.op = "send"
    /\ queue' = IF Accepts(Step.kind) THEN Enqueue(Step.kind) ELSE queue
    /\ IF Accepts(Step.kind) = Step.expect_refused THEN Ends("fail") ELSE Advance
    /\ UNCHANGED <<sut, filter, boxes, run, minute, slow, retries, replies>>

\* A slip: the count of a flood is not reset.
cmd_flood_GoesOn ==
    /\ Step.op = "flood"
    /\ queue' = Enqueue("riempimento")
    /\ sent' = sent + 1
    /\ pc' = IF sent' >= Step.count THEN pc + 1 ELSE pc
    /\ UNCHANGED <<sut, agents_up, filter, boxes, run, minute, verdict, slow,
                   retries, replies>>

\* The messages of a flood, one after the other.
cmd_flood ==
    /\ Step.op = "flood"
    /\ queue' = Enqueue("riempimento")
    /\ sent' = (sent + 1) % Step.count
    /\ pc' = IF sent' = 0 THEN pc + 1 ELSE pc
    /\ UNCHANGED <<sut, agents_up, filter, boxes, run, minute, verdict, slow,
                   retries, replies>>

Idle == transit = {} /\ \A m \in Mail : queue[m] = 0

\* A slip: the loop has no deadline.
Expired_Never == FALSE

\* A deadline passes when nothing more will come, or the system is slow.
Expired ==
    \/ Idle /\ UNCHANGED slow
    \/ ~Idle /\ slow < MaxSlow /\ slow' = slow + 1

\* What --subject-contains tells two mails of one kind apart by.
Names(s, letter) ==
    CASE s.by = "tag"   -> TAG(minute[letter.run]) = TAG(minute[run])
      [] s.by = "nonce" -> letter.run = run
      [] s.by = "text"  -> TRUE

search_inbox(s) == {l \in inbox : l.box = s.box /\ l.kind = s.kind /\ Names(s, l)}

cmd_await ==
    /\ Step.op = "await"
    /\ LET found == search_inbox(Step)
       IN  \/ /\ found # {} /\ UNCHANGED slow
              /\ \E l \in found :
                    IF Step.expect_absent \/ Step.expect_hop \notin {NoHop, l.hop}
                    THEN Ends("fail") ELSE Advance
           \/ /\ found = {} /\ Expired
              /\ IF Step.expect_absent THEN Advance ELSE Ends("fail")
    /\ UNCHANGED <<sut, queue, filter, boxes, run, minute, retries, replies>>

await_filter_count ==
    /\ Step.op = "await_filter_count"
    /\ LET got == counted[TAG2(minute[run])]
       IN  \/ got >= Step.count /\ Advance /\ UNCHANGED slow
           \/ got < Step.count /\ Expired /\ Ends("fail")
    /\ UNCHANGED <<sut, queue, filter, boxes, run, minute, retries, replies>>

ScriptStep ==
    /\ pc # 0 /\ ~hung /\ UNCHANGED hung
    /\ compose("stop") \/ compose("start") \/ Wipe \/ cmd_send \/ cmd_flood
       \/ cmd_await \/ await_filter_count

\* imaplib.IMAP4 has no timeout, nor has docker compose exec: a server that
\* accepts and does not answer is waited for past any deadline.  smtplib gives up
\* after 60 seconds.
Hang ==
    /\ pc # 0 /\ ~hung
    /\ Step.op \in {"wipe", "await", "await_filter_count"}
    /\ hung' = TRUE
    /\ UNCHANGED <<sut, agents_up, queue, filter, boxes, run, minute, pc, sent, verdict, slow,
                   retries, replies>>

\* An interrupt runs the EXIT trap, SIGKILL does not.  The last run of an
\* instance is left to end.
Interrupt ==
    /\ pc # 0 /\ run < MaxRuns
    /\ Ends("interrupted") /\ hung' = FALSE
    /\ UNCHANGED <<sut, queue, filter, boxes, run, minute, slow, retries, replies>>

Kill ==
    /\ pc # 0 /\ run < MaxRuns
    /\ pc' = 0 /\ sent' = 0 /\ verdict' = "killed" /\ hung' = FALSE
    /\ UNCHANGED <<sut, agents_up, queue, filter, boxes, run, minute, slow, retries, replies>>

-----------------------------------------------------------------------------
(* The mail system.                                                        *)

TagOf(m) ==
    CASE m.kind \in {"consegna", "fuori_matrice"} -> TAG(minute[m.run])
      [] m.kind \in {"senza_etichetta", "servizio"} -> NoTag
      [] m.kind \in {"riempimento", "grazia", "oltre", "risposta"} -> TAG2(minute[m.run])

\* The verdict of sut on the next mail of a tag, when n were counted.
VerdictOn(tag, n) ==
    CASE n >= sut.hard -> "freeze"
      [] n < sut.hard /\ n >= sut.warn -> "accept_warn"
      [] n < sut.hard /\ n < sut.warn -> "accept"

\* Letters some check looks for: to the recipient, and the director's BCC.
Copies(m) ==
    {[box |-> b, kind |-> m.kind, run |-> m.run, hop |-> increment_hop(NoHop)] :
        b \in CASE m.kind = "consegna" -> {"verificatore", "director"}
                [] m.kind \in {"grazia", "oltre"} -> {"verificatore"}
                [] m.kind \notin {"consegna", "grazia", "oltre"} -> {}}

Notice(box, kind, m) == {[box |-> box, kind |-> kind, run |-> m.run, hop |-> NoHop]}

\* Untagged mail bounces, [SERVIZIO] mail passes uncounted.
Untagged(m) ==
    /\ TagOf(m) = NoTag
    /\ transit' = transit \cup
         (IF m.kind = "senza_etichetta" /\ sut.tagged THEN Notice("cronista", "bounce", m)
          ELSE Copies(m))
    /\ UNCHANGED filter

Accepted(m) ==
    LET t == TagOf(m)
        v == VerdictOn(t, counted[t])
        late == v = "accept_warn"
    IN  /\ t # NoTag /\ ~frozen[t] /\ v # "freeze"
        /\ counted' = [counted EXCEPT ![t] = @ + 1]
        /\ warned' = [warned EXCEPT ![t] = @ \/ late]
        /\ transit' = transit
             \cup (IF late /\ ~sut.grace THEN {} ELSE Copies(m))
             \cup (IF late /\ ~warned[t] THEN Notice("caporedattore", "in_margine", m) ELSE {})
        /\ UNCHANGED frozen

Held(m) ==
    LET t == TagOf(m)
    IN  /\ t # NoTag /\ (frozen[t] \/ VerdictOn(t, counted[t]) = "freeze")
        /\ frozen' = [frozen EXCEPT ![t] = TRUE]
        /\ transit' = transit
             \cup (IF sut.holds THEN {} ELSE Copies(m))
             \cup (IF frozen[t] THEN {} ELSE Notice("director", "fusibile", m))
        /\ UNCHANGED <<counted, warned>>

\* The filter handles a mail; Postfix may miss the answer and send it again.
Filter(m) ==
    /\ queue[m] > 0
    /\ Untagged(m) \/ Accepted(m) \/ Held(m)
    /\ \/ queue' = [queue EXCEPT ![m] = @ - 1] /\ UNCHANGED retries
       \/ retries < MaxRetries /\ retries' = retries + 1 /\ UNCHANGED queue
    /\ UNCHANGED <<sut, agents_up, inbox, script, replies>>

Arrive(l) ==
    /\ l \in transit
    /\ transit' = transit \ {l} /\ inbox' = inbox \cup {l}
    /\ UNCHANGED <<sut, agents_up, queue, filter, script, retries, replies>>

\* An agent that is up answers mail of the run, and keeps its tag.
Reply ==
    /\ pc # 0 /\ agents_up /\ counted[TAG2(minute[run])] > 0 /\ replies < MaxReplies
    /\ queue' = Enqueue("risposta")
    /\ replies' = replies + 1
    /\ UNCHANGED <<sut, agents_up, filter, boxes, script, retries>>

MailStep == (\E m \in Mail : Filter(m)) \/ (\E l \in transit : Arrive(l))

Next ==
    \/ StartRun \/ ScriptStep \/ Hang \/ Interrupt \/ Kill
    \/ MailStep \/ Reply

Spec == Init /\ [][Next]_vars

\* The script goes on, and so do Postfix, the filter and Dovecot.
FairSpec == Spec /\ WF_vars(ScriptStep) /\ WF_vars(MailStep)

-----------------------------------------------------------------------------
\* Types: no step past the script's end, no flood longer than asked for.
TypeOK ==
    /\ sut \in Systems \cup {AsCoded} /\ agents_up \in BOOLEAN /\ hung \in BOOLEAN
    /\ queue \in [Mail -> Nat]
    /\ counted \in [Tags -> Nat] /\ warned \in [Tags -> BOOLEAN]
    /\ frozen \in [Tags -> BOOLEAN]
    /\ transit \subseteq Letter /\ inbox \subseteq Letter
    /\ run \in 0 .. MaxRuns /\ minute \in [Runs -> Minutes \cup {0}]
    /\ pc \in 0 .. Len(Script)
    /\ sent \in 0 .. Budget /\ (sent > 0 => pc # 0 /\ Step.op = "flood" /\ sent < Step.count)
    /\ verdict \in {"none", "pass", "fail", "interrupted", "killed"} /\ slow \in 0 .. MaxSlow
    /\ retries \in 0 .. MaxRetries /\ replies \in 0 .. MaxReplies

\* A mail of an earlier run that this one takes for its own, as its subject is
\* looked for without the tag.
Leftover(kind) ==
    \E l \in inbox : l.kind = kind /\ l.box = "verificatore" /\ l.run < run

\* A run that passes has met a mail system that refuses mail against the matrix,
\* bounces untagged mail, warns in time, delivers in the grace margin and, at
\* exactly the mail past it, holds and tells the director: no wrong system is
\* let through by mail that was still on its way, overtook other mail or was
\* left by another run, if that did not start in the same minute.  Mail that
\* Postfix retries counts twice: it can hide a wrong limit, and a second fault
\* behind the first.
PassMeansFuse ==
    verdict = "pass" =>
        /\ sut.matrix /\ sut.tagged
        /\ retries = 0 => sut.hard = HardLimit(Budget) /\ sut.warn <= Budget
        /\ sut.warn <= Budget /\ retries < grace_margin(Budget) =>
                sut.grace \/ Leftover("grazia")
        /\ retries = 0 \/ sut.grace => sut.holds \/ slow > 0

\* The system as coded fails no run that gives it time and does not start in the
\* minute of another, however mails overtake each other or are left queued by a
\* run that was cut short, and though Postfix retries some, unless a mail past the
\* margin was once delivered to the verificatore.  As many retries as the margin
\* is wide use it up: the mail meant for it is then held, and the run fails.
NoFalseAlarm ==
    verdict = "fail" /\ sut = AsCoded /\ slow = 0 /\ retries < grace_margin(Budget) =>
        Leftover("oltre")

\* Whatever mail the mail system loses, delays or lets through, no check waits for
\* it longer than its deadline, and the agents the run stopped are started again,
\* unless it was killed.  Only a call that is never answered at all keeps the run
\* from its end, and the agents down.
AgentsComeBack == ~agents_up ~> agents_up \/ verdict = "killed" \/ hung
=============================================================================
