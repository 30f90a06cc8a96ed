-------------------------- MODULE MailFilterDelivery --------------------------
(***************************************************************************)
(* Theorems about what becomes of a mail, for every set of tags, mails and *)
(* budgets and every bound on the faults: only violations bounce, and what *)
(* was answered 250 is kept.                                               *)
(***************************************************************************)
EXTENDS MailFilterProofs

-----------------------------------------------------------------------------
(* What the steps do to deliveries, queue and files.                       *)

LEMMA AppendRange ==
    ASSUME NEW S, NEW s \in Seq(S), NEW e \in S
    PROVE  Range(Append(s, e)) = Range(s) \cup {e}
<1>. DEFINE a == Append(s, e)
<1>1. /\ a \in Seq(S) /\ Len(a) = Len(s) + 1 /\ Len(s) \in Nat
      /\ \A i \in 1 .. Len(s) : a[i] = s[i]
      /\ a[Len(s) + 1] = e
  BY AppendProperties, LenProperties
<1>2. DOMAIN s = 1 .. Len(s) /\ DOMAIN a = 1 .. Len(s) + 1
  BY <1>1, LenProperties
<1>. HIDE DEF a
<1>3. Range(a) \subseteq Range(s) \cup {e}
  <2>. SUFFICES ASSUME NEW i \in 1 .. Len(s) + 1 PROVE a[i] \in Range(s) \cup {e}
    BY <1>2 DEF Range
  <2>. QED  BY <1>1, <1>2 DEF Range
<1>4. Range(s) \subseteq Range(a)
  <2>. SUFFICES ASSUME NEW i \in 1 .. Len(s) PROVE s[i] \in Range(a)
    BY <1>2 DEF Range
  <2>. QED  BY <1>1, <1>2 DEF Range
<1>5. e \in Range(a)
  BY <1>1, <1>2 DEF Range
<1>. QED  BY <1>3, <1>4, <1>5 DEF a

\* A re-injection appends the mail at hand to the deliveries of its thread.
LEMMA SendAppends ==
    ASSUME TypeOK, Reinject \/ ReinjectPartly
    PROVE  /\ pc = "reinject" /\ msg \in Msgs /\ tag \in Threads
           /\ \A t \in Threads :
                Range(delivered'[t]) = Range(delivered[t]) \cup (IF t = tag THEN {msg} ELSE {})
<1>1. /\ pc = "reinject"
      /\ delivered' = [delivered EXCEPT ![tag] = Append(@, msg)]
  BY DEF Reinject, ReinjectPartly, SendTo
<1>2. msg \in Msgs /\ tag \in Threads
  BY <1>1, MailType DEF TypeOK, Working, tag
<1>3. delivered \in [Threads -> Seq(Msgs)]
  BY DEF TypeOK
<1>4. Range(Append(delivered[tag], msg)) = Range(delivered[tag]) \cup {msg}
  BY <1>2, <1>3, AppendRange
<1>. QED  BY <1>1, <1>2, <1>3, <1>4

\* No step takes a delivery back.
LEMMA DeliveriesStay ==
    ASSUME TypeOK, [Next]_vars, NEW t \in Threads
    PROVE  Range(delivered[t]) \subseteq Range(delivered'[t])
<1>1. CASE Reinject \/ ReinjectPartly
  BY <1>1, SendAppends
<1>2. CASE ~(Reinject \/ ReinjectPartly)
  BY <1>2, OnlySendingDelivers
<1>. QED  BY <1>1, <1>2

\* Only a reply takes a mail off the queue.
LEMMA OnlyRepliesAnswer ==
    ASSUME [Next]_vars, ~Reply
    PROVE  queue' = queue
<1>. USE DEF postfix, db, disk, local, process, mailed, ledger, faults
<1>1. CASE \E m \in Msgs : Begin(m)
  BY <1>1 DEF Begin, PassBounce, RejectMismatch, Evaluate, Receive
<1>2. CASE HandlerStep \/ ReinjectPartly
  BY <1>2 DEF HandlerStep, ReinjectPartly, CheckFrozen, HoldFrozen, HoldOverBudget,
              WriteHoldFile, Freeze, NotifyDirector, RecordMessage, Reinject, SendTo, Warn,
              NotifyCaporedattore
<1>3. CASE Raise \/ GiveUp \/ Crash \/ Restart
  BY <1>3 DEF Raise, GiveUp, Crash, Restart
<1>4. CASE Director
  BY <1>4 DEF Director, DeleteFrozen, DeleteWarned, DeleteMessages
<1>5. CASE UNCHANGED vars
  BY <1>5 DEF vars
<1>. QED  BY <1>1, <1>2, <1>3, <1>4, <1>5 DEF Next

\* A mail that begins leaves everything but the handler's variables alone.
LEMMA BeginLeaves ==
    ASSUME NEW m \in Msgs, Begin(m)
    PROVE  /\ pc = "idle" /\ msg' = m /\ tag' = ThreadOf(m) /\ queue[m] = "queued"
           /\ pc' \in {"reinject", "reject", "is_frozen"} \/ Evaluate(m)
           /\ UNCHANGED <<queue, db, disk, process, unfreezing, mailed, ledger, faults>>
BY DEF Begin, PassBounce, RejectMismatch, Evaluate, Receive, tag

\* Which verdict the rules give.
LEMMA VerdictFits ==
    ASSUME NEW s \in Subject, NEW n \in Nat, NEW b \in Budgets
    PROVE  LET v == evaluate_subject(s, n, b)
           IN  /\ extract_tag(s) = NoTag /\ has_service_flag(s) => v = "accept"
               /\ extract_tag(s) = NoTag /\ ~has_service_flag(s) => v = "reject_no_tag"
               /\ extract_tag(s) # NoTag =>
                    \/ v = "freeze" /\ n >= HardLimit(b)
                    \/ v = "accept_warn" /\ n \in b .. HardLimit(b) - 1
                    \/ v = "accept" /\ n < b
BY BudgetFacts DEF evaluate_subject

\* Where the rules send a mail, and what the count was then.
LEMMA EvaluateGoes ==
    ASSUME TypeOK, NEW m \in Msgs, Evaluate(m)
    PROVE  /\ ThreadOf(m) = extract_tag(Mail[m].subject)
           /\ ThreadOf(m) = NoTag /\ has_service_flag(Mail[m].subject) =>
                verdict' = "accept" /\ pc' = "reinject"
           /\ ThreadOf(m) = NoTag /\ ~has_service_flag(Mail[m].subject) => pc' = "reject"
           /\ ThreadOf(m) # NoTag =>
                /\ ThreadOf(m) \in Tags /\ pc' = "is_frozen"
                /\ \/ verdict' = "freeze" /\ message_count(ThreadOf(m)) >= HardLimit(budget)
                   \/ /\ verdict' = "accept_warn"
                      /\ message_count(ThreadOf(m)) \in budget .. HardLimit(budget) - 1
                   \/ verdict' = "accept" /\ message_count(ThreadOf(m)) < budget
<1>. DEFINE s == Mail[m].subject
            t == extract_tag(s)
            n == IF t = NoTag THEN 0 ELSE message_count(t)
<1>1. t \in Threads /\ ThreadOf(m) = t /\ s \in Subject
  BY MailType DEF Evaluate, ThreadOf
<1>2. n \in Nat /\ budget \in Budgets /\ (t # NoTag => t \in Tags)
  BY <1>1, LenProperties DEF TypeOK, message_count, Threads
<1>3. verdict' = evaluate_subject(s, n, budget)
  BY DEF Evaluate
<1>4. /\ t = NoTag /\ has_service_flag(s) => verdict' = "accept"
      /\ t = NoTag /\ ~has_service_flag(s) => verdict' = "reject_no_tag"
      /\ t # NoTag =>
            \/ verdict' = "freeze" /\ n >= HardLimit(budget)
            \/ verdict' = "accept_warn" /\ n \in budget .. HardLimit(budget) - 1
            \/ verdict' = "accept" /\ n < budget
  BY <1>1, <1>2, <1>3, VerdictFits
<1>5. t # NoTag => verdict' # "reject_no_tag"
  BY <1>4
<1>6. /\ verdict' = "reject_no_tag" => pc' = "reject"
      /\ verdict' # "reject_no_tag" /\ t = NoTag => pc' = "reinject"
      /\ t # NoTag => pc' = "is_frozen"
  BY <1>5, Zenon DEF Evaluate
<1>. QED  BY <1>1, <1>2, <1>4, <1>5, <1>6

\* A call of the handler leaves it at work on the same mail, or about to
\* answer; to answer 500 takes an error.
LEMMA CallGoesOn ==
    ASSUME TypeOK, HandlerStep \/ ReinjectPartly \/ Raise, ~Reply
    PROVE  /\ pc \in Working /\ msg' = msg /\ tag' = tag /\ msg \in Msgs
           /\ pc' \in Working \cup {"accept", "reject"}
           /\ crashes' = crashes /\ errors' \in {errors, errors + 1}
           /\ pc' = "reject" => errors' = errors + 1
<1>. USE DEF postfix, db, disk, local, process, mailed, ledger, faults
<1>1. CASE CheckFrozen
  <2>1. pc' \in {"hold", "hold_freeze", "record"}
    BY <1>1, Zenon DEF CheckFrozen
  <2>. QED  BY <1>1, <2>1 DEF CheckFrozen, TypeOK, Working, tag
<1>2. CASE HoldFrozen \/ HoldOverBudget
  BY <1>2 DEF HoldFrozen, HoldOverBudget, WriteHoldFile, Returns, TypeOK, Working, tag
<1>3. CASE Freeze \/ NotifyDirector \/ RecordMessage
  BY <1>3 DEF Freeze, NotifyDirector, RecordMessage, Returns, TypeOK, Working, tag
<1>4. CASE Reinject \/ ReinjectPartly
  BY <1>4 DEF Reinject, ReinjectPartly, SendTo, AfterReinject, Returns, TypeOK, Working, tag
<1>5. CASE Warn \/ NotifyCaporedattore \/ Raise
  BY <1>5 DEF Warn, NotifyCaporedattore, Raise, Returns, TypeOK, Working, tag
<1>. QED  BY <1>1, <1>2, <1>3, <1>4, <1>5 DEF HandlerStep

-----------------------------------------------------------------------------
(* Only violations bounce.                                                 *)

\* What the rules of mail_filter.py reject: a forged or missing From, or no
\* tag on a mail that is not service mail.
Violates(m) ==
    /\ Mail[m].sender # NoAddress
    /\ \/ ~from_matches_sender(Mail[m].from, Mail[m].sender)
       \/ extract_tag(Mail[m].subject) = NoTag /\ ~has_service_flag(Mail[m].subject)

\* A mail the rules reject never gets past the rules; any other gets to the
\* reply as accepted, unless a call raises.
BounceInv ==
    /\ \A m \in Msgs : Violates(m) => m \notin Range(delivered[ThreadOf(m)])
    /\ errors = 0 => \A m \in Msgs : queue[m] = "bounced" => Violates(m)
    /\ errors = 0 /\ pc = "reject" => Violates(msg)
    /\ pc \in Working \cup {"accept"} => ~Violates(msg)

LEMMA InitBounce == Init => BounceInv
<1>. SUFFICES ASSUME Init PROVE BounceInv
  OBVIOUS
<1>1. \A m \in Msgs : queue[m] = "queued" /\ delivered[ThreadOf(m)] = <<>>
  BY MailType DEF Init
<1>2. Range(<<>>) = {}
  BY DEF Range
<1>3. pc = "idle"
  BY DEF Init
<1>. QED  BY <1>1, <1>2, <1>3 DEF BounceInv, Working

LEMMA BeginBounce ==
    ASSUME TypeOK, BounceInv, NEW m \in Msgs, Begin(m)
    PROVE  BounceInv'
<1>1. msg' = m /\ UNCHANGED <<queue, delivered, errors>>
  BY BeginLeaves DEF postfix, mailed, faults
<1>2. CASE pc' = "reject" /\ Violates(m)
  BY <1>1, <1>2 DEF BounceInv, Working
<1>3. CASE pc' # "reject" /\ ~Violates(m)
  BY <1>1, <1>3 DEF BounceInv
<1>4. CASE PassBounce(m)
  BY <1>3, <1>4 DEF PassBounce, Violates
<1>5. CASE RejectMismatch(m)
  BY <1>2, <1>5 DEF RejectMismatch, Violates
<1>6. CASE Evaluate(m)
  <2>1. from_matches_sender(Mail[m].from, Mail[m].sender) /\ Mail[m].sender # NoAddress
    BY <1>6 DEF Evaluate
  <2>. QED  BY <1>2, <1>3, <1>6, <2>1, EvaluateGoes DEF Violates
<1>. QED  BY <1>4, <1>5, <1>6 DEF Begin

LEMMA CallBounce ==
    ASSUME TypeOK, BounceInv, HandlerStep \/ ReinjectPartly \/ Raise, ~Reply
    PROVE  BounceInv'
<1>1. /\ pc \in Working /\ msg' = msg
      /\ pc' \in Working \cup {"accept", "reject"}
      /\ errors \in Nat /\ errors' \in {errors, errors + 1}
      /\ pc' = "reject" => errors' = errors + 1
  BY CallGoesOn DEF TypeOK
<1>2. [Next]_vars
  BY DEF Next
<1>3. queue' = queue /\ ~Violates(msg)
  BY <1>1, <1>2, OnlyRepliesAnswer DEF BounceInv
<1>4. ASSUME NEW m \in Msgs, Violates(m)
      PROVE  m \notin Range(delivered'[ThreadOf(m)])
  <2>1. CASE Reinject \/ ReinjectPartly
    BY <1>3, <1>4, <2>1, SendAppends, MailType DEF BounceInv
  <2>2. CASE ~(Reinject \/ ReinjectPartly)
    BY <1>2, <1>4, <2>2, OnlySendingDelivers DEF BounceInv
  <2>. QED  BY <2>1, <2>2
<1>. QED  BY <1>1, <1>3, <1>4 DEF BounceInv, Working

LEMMA ReplyBounce ==
    ASSUME TypeOK, BounceInv, Reply
    PROVE  BounceInv'
<1>1. /\ pc \in Answering /\ pc' = "idle" /\ UNCHANGED <<delivered, errors>>
      /\ queue' = queue \/ queue' = [queue EXCEPT ![msg] = IF pc = "accept" THEN "sent"
                                                                          ELSE "bounced"]
  BY DEF Reply, mailed, faults
<1>2. ASSUME errors = 0, NEW m \in Msgs, queue'[m] = "bounced"
      PROVE  Violates(m)
  BY <1>1, <1>2 DEF BounceInv, TypeOK, Answering
<1>. QED  BY <1>1, <1>2 DEF BounceInv, Working

\* The steps that leave the handler where it is, or without a mail.
LEMMA OthersBounce ==
    ASSUME TypeOK, BounceInv, GiveUp \/ Crash \/ Restart \/ Director \/ UNCHANGED vars
    PROVE  BounceInv'
<1>. USE DEF postfix, db, disk, local, process, mailed, ledger, faults
<1>1. UNCHANGED <<queue, delivered, errors>>
  BY DEF GiveUp, Crash, Restart, Director, DeleteFrozen, DeleteWarned, DeleteMessages, vars
<1>2. UNCHANGED <<pc, msg>> \/ pc' \in {"down", "idle"}
  BY DEF GiveUp, Crash, Restart, Director, DeleteFrozen, DeleteWarned, DeleteMessages, vars
<1>. QED  BY <1>1, <1>2 DEF BounceInv, Working

LEMMA BounceStep ==
    ASSUME TypeOK, BounceInv, [Next]_vars
    PROVE  BounceInv'
BY BeginBounce, CallBounce, ReplyBounce, OthersBounce DEF Next, HandlerStep

\* Without errors, no interleaving, crash, retry or frozen thread makes a mail
\* bounce that the rules accept, and no bounced mail was re-injected.
THEOREM OnlyViolationsBounceAlways == Spec => []OnlyViolationsBounce
<1>1. TypeOK /\ BounceInv /\ [Next]_vars => BounceInv'
  BY BounceStep
<1>2. BounceInv => OnlyViolationsBounce
  BY DEF BounceInv, OnlyViolationsBounce, Violates
<1>. QED  BY <1>1, <1>2, InitBounce, TypeCorrect, PTL DEF Spec

-----------------------------------------------------------------------------
(* What was answered 250 is kept.                                          *)

Kept(m) ==
    \/ m \in Range(delivered[ThreadOf(m)])
    \/ \E f \in hold : f.msg = m

\* The name of the next hold file is new: no file is of a later second, and
\* those of this second have been counted by this process.
FreshName ==
    \A f \in hold : /\ f.stamp <= clock
                    /\ f.stamp = clock => f.counter <= hold_counter

\* The handler does not get near a 250 before the mail is kept.
KeptInv ==
    /\ FreshName
    /\ pc \in {"freeze", "notify_director", "warn", "notify_caporedattore", "accept"} =>
            Kept(msg)
    /\ \A m \in Msgs : queue[m] = "sent" => Kept(m)

LEMMA InitKept == Init => KeptInv
BY DEF Init, KeptInv, FreshName

\* The mail at hand is on disk once its hold file is written.
LEMMA HoldAdds ==
    ASSUME HoldFrozen \/ HoldOverBudget
    PROVE  \E f \in hold' : f.tag = tag /\ f.msg = msg
<1>. DEFINE new == [tag |-> tag, stamp |-> clock, counter |-> hold_counter', msg |-> msg]
<1>1. new \in hold'
  BY DEF HoldFrozen, HoldOverBudget, WriteHoldFile
<1>2. new.tag = tag /\ new.msg = msg
  OBVIOUS
<1>. QED  BY <1>1, <1>2

\* A hold file is a new one.
LEMMA WriteAdds ==
    ASSUME TypeOK, FreshName, HoldFrozen \/ HoldOverBudget
    PROVE  /\ \E f \in hold' : f.msg = msg /\ f.tag = tag
           /\ hold \subseteq hold'
           /\ FreshName'
<1>. DEFINE new == [tag |-> tag, stamp |-> clock, counter |-> hold_counter', msg |-> msg]
<1>1. /\ hold_counter' = hold_counter + 1 /\ clock' = clock
      /\ hold' = {f \in hold : <<f.tag, f.stamp, f.counter>> # <<tag, clock, hold_counter'>>}
                 \cup {new}
  BY DEF HoldFrozen, HoldOverBudget, WriteHoldFile, process
<1>2. hold \subseteq HoldFile /\ hold_counter \in Nat /\ clock \in Nat
  BY DEF TypeOK
<1>0. \A f \in hold : f.stamp \in Nat /\ f.counter \in Nat
  BY <1>2 DEF HoldFile
<1>3. ASSUME NEW f \in hold
      PROVE  f.stamp # clock \/ f.counter # hold_counter'
  BY <1>0, <1>1, <1>2, <1>3 DEF FreshName
<1>4. hold' = hold \cup {new}
  BY <1>1, <1>3
<1>5. new.msg = msg /\ new.tag = tag /\ new.stamp = clock /\ new.counter = hold_counter + 1
  BY <1>1
<1>6. ASSUME NEW f \in hold
      PROVE  /\ f.stamp <= clock
             /\ f.stamp = clock => f.counter <= hold_counter + 1
  <2>1. /\ f.stamp \in Nat /\ f.counter \in Nat /\ hold_counter \in Nat
        /\ f.stamp <= clock
        /\ f.stamp = clock => f.counter <= hold_counter
    BY <1>0, <1>2 DEF FreshName
  <2>. QED  BY <2>1
<1>. HIDE DEF new
<1>. QED  BY <1>1, <1>2, <1>4, <1>5, <1>6 DEF FreshName

\* No step removes a hold file, and a new process starts in a new second.
LEMMA HoldStays ==
    ASSUME ~RestartWithinASecond, TypeOK, FreshName, [Next]_vars
    PROVE  hold \subseteq hold' /\ FreshName'
<1>. USE DEF postfix, db, disk, local, process, mailed, ledger, faults
<1>1. CASE HoldFrozen \/ HoldOverBudget
  BY <1>1, WriteAdds
<1>2. CASE Restart
  <2>1. hold' = hold /\ clock' = clock + 1
    BY <1>2 DEF Restart
  <2>2. clock \in Nat /\ \A f \in hold : f.stamp \in Nat
    BY DEF TypeOK, HoldFile
  <2>3. ASSUME NEW f \in hold
        PROVE  f.stamp < clock'
    <3>1. f.stamp \in Nat /\ f.stamp <= clock
      BY <2>2 DEF FreshName
    <3>. QED  BY <2>1, <2>2, <3>1
  <2>. QED  BY <2>1, <2>2, <2>3 DEF FreshName
<1>3. ASSUME UNCHANGED <<hold, hold_counter, clock>>
      PROVE  hold \subseteq hold' /\ FreshName'
  BY <1>3 DEF FreshName
<1>4. CASE \E m \in Msgs : Begin(m)
  BY <1>3, <1>4 DEF Begin, PassBounce, RejectMismatch, Evaluate, Receive
<1>5. CASE (HandlerStep \/ ReinjectPartly) /\ ~(HoldFrozen \/ HoldOverBudget)
  BY <1>3, <1>5 DEF HandlerStep, ReinjectPartly, CheckFrozen, Freeze, NotifyDirector,
              RecordMessage, Reinject, SendTo, Warn, NotifyCaporedattore, Reply
<1>6. CASE Raise \/ GiveUp \/ Crash
  BY <1>3, <1>6 DEF Raise, GiveUp, Crash
<1>7. CASE Director
  BY <1>3, <1>7 DEF Director, DeleteFrozen, DeleteWarned, DeleteMessages
<1>8. CASE UNCHANGED vars
  BY <1>3, <1>8 DEF vars
<1>. QED  BY <1>1, <1>2, <1>4, <1>5, <1>6, <1>7, <1>8 DEF Next

\* What is kept stays kept.
LEMMA KeptStays ==
    ASSUME ~RestartWithinASecond, TypeOK, FreshName, [Next]_vars, NEW m \in Msgs, Kept(m)
    PROVE  Kept(m)'
<1>1. ThreadOf(m) \in Threads
  BY MailType
<1>2. CASE m \in Range(delivered[ThreadOf(m)])
  BY <1>1, <1>2, DeliveriesStay DEF Kept
<1>3. CASE \E f \in hold : f.msg = m
  BY <1>3, HoldStays DEF Kept
<1>. QED  BY <1>2, <1>3 DEF Kept

\* Each call that leads to a 250 keeps the mail, or finds it kept.
LEMMA CallKept ==
    ASSUME ~RestartWithinASecond, TypeOK, KeptInv,
           HandlerStep \/ ReinjectPartly \/ Raise, ~Reply,
           pc' \in {"freeze", "notify_director", "warn", "notify_caporedattore", "accept"}
    PROVE  Kept(msg)'
<1>1. msg' = msg /\ msg \in Msgs /\ pc \in Working
  BY CallGoesOn
<1>2. CASE HoldFrozen \/ HoldOverBudget
  BY <1>1, <1>2, WriteAdds DEF Kept, KeptInv
<1>3. CASE Reinject \/ ReinjectPartly
  <2>1. msg \in Range(delivered'[ThreadOf(msg)])
    BY <1>3, SendAppends DEF tag
  <2>. QED  BY <1>1, <2>1 DEF Kept
<1>4. CASE Freeze \/ NotifyDirector \/ Warn \/ NotifyCaporedattore
  <2>1. pc \in {"freeze", "notify_director", "warn", "notify_caporedattore"}
    BY <1>4 DEF Freeze, NotifyDirector, Warn, NotifyCaporedattore
  <2>. QED  BY <1>1, <1>4, <2>1, KeptStays DEF KeptInv, Next
<1>5. CASE RecordMessage \/ Raise
  BY <1>5 DEF RecordMessage, Raise, Returns
<1>6. CASE CheckFrozen
  <2>1. pc' \in {"hold", "hold_freeze", "record"}
    BY <1>6, Zenon DEF CheckFrozen
  <2>. QED  BY <2>1
<1>. QED  BY <1>2, <1>3, <1>4, <1>5, <1>6 DEF HandlerStep

LEMMA KeptStep ==
    ASSUME ~RestartWithinASecond, TypeOK, KeptInv, [Next]_vars
    PROVE  KeptInv'
<1>. DEFINE Keeping == {"freeze", "notify_director", "warn", "notify_caporedattore", "accept"}
<1>1. FreshName'
  BY HoldStays DEF KeptInv
<1>2. ASSUME pc' \in Keeping
      PROVE  Kept(msg)'
  <2>1. CASE (HandlerStep \/ ReinjectPartly \/ Raise) /\ ~Reply
    BY <1>2, <2>1, CallKept
  <2>2. CASE Reply \/ Crash \/ Restart
    BY <1>2, <2>2 DEF Reply, Crash, Restart
  <2>3. CASE \E m \in Msgs : Begin(m)
    <3>1. pc' \in {"reinject", "reject", "is_frozen"}
      <4>1. PICK m \in Msgs : Begin(m)
        BY <2>3
      <4>. QED  BY <4>1, BeginLeaves, EvaluateGoes
    <3>. QED  BY <1>2, <3>1
  <2>4. CASE GiveUp \/ Director \/ UNCHANGED vars
    <3>1. msg' = msg /\ pc' = pc
      BY <2>4 DEF GiveUp, Director, DeleteFrozen, DeleteWarned, DeleteMessages, vars, local
    <3>2. msg \in Msgs
      BY <1>2, <3>1 DEF TypeOK, Working, Answering
    <3>. QED  BY <1>2, <3>1, <3>2, KeptStays DEF KeptInv
  <2>. QED  BY <2>1, <2>2, <2>3, <2>4 DEF Next, HandlerStep
<1>3. ASSUME NEW m \in Msgs, queue'[m] = "sent"
      PROVE  Kept(m)'
  <2>1. queue[m] = "sent" \/ (Reply /\ pc = "accept" /\ m = msg)
    <3>1. CASE Reply
      BY <1>3, <3>1 DEF Reply, TypeOK
    <3>2. CASE ~Reply
      BY <1>3, <3>2, OnlyRepliesAnswer
    <3>. QED  BY <3>1, <3>2
  <2>2. Kept(m)
    BY <2>1 DEF KeptInv
  <2>. QED  BY <2>2, KeptStays DEF KeptInv
<1>. QED  BY <1>1, <1>2, <1>3 DEF KeptInv

\* When a new process starts in a new second, no mail is answered 250 and lost:
\* it was re-injected, or a file under hold/ still contains it.
THEOREM NothingLostAlways ==
    ASSUME ~RestartWithinASecond
    PROVE  Spec => []NothingLost
<1>1. TypeOK /\ KeptInv /\ [Next]_vars => KeptInv'
  BY KeptStep
<1>2. KeptInv => NothingLost
  BY DEF KeptInv, NothingLost, Kept
<1>. QED  BY <1>1, <1>2, InitKept, TypeCorrect, PTL DEF Spec
=============================================================================
