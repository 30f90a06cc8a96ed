--------------------------- MODULE MailFilterProofs ---------------------------
(***************************************************************************)
(* Theorems about MailFilter, for every set of tags, mails and budgets and *)
(* every bound on the faults.                                              *)
(***************************************************************************)
EXTENDS MailFilter, SequenceTheorems, TLAPS

-----------------------------------------------------------------------------
(* The operators the model is built from.                                  *)

LEMMA BudgetFacts ==
    /\ Ceiling \in Nat
    /\ \A b \in Budgets : b \in Nat /\ HardLimit(b) \in Nat /\ HardLimit(b) <= Ceiling
BY BudgetAssumption DEF HardLimit, Ceiling, grace_margin

LEMMA MailType ==
    ASSUME NEW m \in Msgs
    PROVE  /\ Mail[m].sender \in Addresses \cup {NoAddress}
           /\ Mail[m].rcpts \subseteq Addresses
           /\ Mail[m].subject \in Subject
           /\ extract_tag(Mail[m].subject) \in Threads
           /\ ThreadOf(m) \in Threads
<1>1. Mail[m] \in [sender  : Addresses \cup {NoAddress},
                   from    : Addresses \cup {NoAddress},
                   rcpts   : (SUBSET Addresses) \ {{}},
                   subject : Subject]
  BY MailAssumption
<1>2. Mail[m].subject.tags \in Seq(Tags)
  BY <1>1 DEF Subject
<1>3. extract_tag(Mail[m].subject) \in Threads
  BY <1>2, HeadTailProperties DEF extract_tag, Threads
<1>. QED  BY <1>1, <1>3 DEF ThreadOf, Threads

\* The verdict of a mail: a tagged one is frozen or accepted, an untagged one
\* is accepted without a warning or rejected.
LEMMA VerdictType ==
    ASSUME NEW s \in Subject, NEW n \in Nat, NEW b \in Budgets
    PROVE  LET v == evaluate_subject(s, n, b)
           IN  /\ v \in Verdict
               /\ extract_tag(s) = NoTag => v \in {"accept", "reject_no_tag"}
               /\ extract_tag(s) # NoTag => v # "reject_no_tag"
               /\ extract_tag(s) # NoTag /\ v # "freeze" => n < HardLimit(b)
BY BudgetFacts DEF evaluate_subject, Verdict

LEMMA SummaryType ==
    ASSUME NEW t \in Tags, thread_messages \in [Tags -> Seq(Msgs)]
    PROVE  thread_summary(t) \in Seq(Msgs)
<1>. DEFINE s == thread_messages[t]
<1>1. s \in Seq(Msgs)
  OBVIOUS
<1>. DEFINE first == IF Len(s) > SummaryLimit THEN Len(s) - SummaryLimit + 1 ELSE 1
<1>2. Len(s) \in Nat /\ SummaryLimit \in Nat /\ SummaryLimit # 0
  BY <1>1, LenProperties, SummaryAssumption
<1>3. first \in Nat /\ first >= 1
  BY <1>2
<1>4. SubSeq(s, first, Len(s)) \in Seq(Msgs)
  <2>. HIDE DEF first, s
  <2>1. \A i \in first .. Len(s) : s[i] \in Msgs
    BY <1>1, <1>2, <1>3, ElementOfSeq
  <2>. QED  BY <1>1, <1>2, <1>3, <2>1, SubSeqProperties
<1>. QED  BY <1>4 DEF thread_summary

-----------------------------------------------------------------------------
LEMMA InitType == Init => TypeOK
<1>1. <<>> \in Seq(Msgs) /\ <<>> \in Seq(Seq(Msgs))
  BY EmptySeq
<1>2. ASSUME Init PROVE waiting \in BOOLEAN
  BY <1>2 DEF Init
<1>3. ASSUME Init
      PROVE  /\ queue \in [Msgs -> {"queued", "sent", "bounced"}]
             /\ thread_messages \in [Tags -> Seq(Msgs)]
             /\ delivered \in [Threads -> Seq(Msgs)]
             /\ notices \in [Tags -> Seq(Seq(Msgs))]
             /\ reached \in [Msgs -> SUBSET Addresses]
             /\ unfreezing \in [Tags -> 0 .. 2]
  BY <1>1, <1>3 DEF Init
<1>4. ASSUME Init
      PROVE  /\ charged \in [Tags -> Nat] /\ allowance \in [Tags -> Nat]
             /\ warnings \in [Tags -> Nat] /\ unfreezes \in [Tags -> Nat]
  BY <1>4, BudgetFacts DEF Init
<1>5. ASSUME Init
      PROVE  /\ frozen_threads = {} /\ warned_threads = {} /\ hold = {}
             /\ hold_counter \in Nat /\ clock \in Nat /\ budget \in Budgets
             /\ pc = "idle" /\ msg = NoMsg /\ verdict = "accept"
             /\ crashes \in Nat /\ errors \in Nat /\ timeouts \in Nat
  BY <1>5 DEF Init
<1>. QED
  BY <1>2, <1>3, <1>4, <1>5 DEF TypeOK, Verdict, Working, Answering

\* Receive leaves everything alone but the mail at hand.
LEMMA BeginType ==
    ASSUME TypeOK, NEW m \in Msgs, Begin(m)
    PROVE  TypeOK'
<1>. USE DEF postfix, db, disk, local, process, mailed, ledger, faults
<1>1. /\ Mail[m].subject \in Subject
      /\ extract_tag(Mail[m].subject) \in Threads
      /\ ThreadOf(m) \in Threads
  BY MailType
<1>2. Receive(m) /\ msg' = m
  BY DEF Begin, PassBounce, RejectMismatch, Evaluate, Receive
<1>3. /\ pc' \in {"reinject", "reject", "is_frozen"}
      /\ verdict' \in Verdict
      /\ pc' = "is_frozen" => tag' \in Tags
      /\ pc' = "reinject" => verdict' # "accept_warn"
  <2>1. CASE PassBounce(m)
    BY <2>1 DEF PassBounce, Verdict
  <2>2. CASE RejectMismatch(m)
    BY <2>2 DEF RejectMismatch, Verdict
  <2>3. CASE Evaluate(m)
    <3>. DEFINE t == extract_tag(Mail[m].subject)
                n == IF t = NoTag THEN 0 ELSE message_count(t)
    <3>1. ThreadOf(m) = t
      BY <2>3 DEF Evaluate, ThreadOf
    <3>2. n \in Nat
      BY <1>1, LenProperties DEF TypeOK, message_count, Threads
    <3>3. budget \in Budgets
      BY DEF TypeOK
    <3>4. /\ verdict' \in Verdict
          /\ t = NoTag => verdict' \in {"accept", "reject_no_tag"}
          /\ t # NoTag => verdict' # "reject_no_tag"
      BY <1>1, <2>3, <3>2, <3>3, VerdictType DEF Evaluate
    <3>5. /\ verdict' = "reject_no_tag" => pc' = "reject"
          /\ verdict' # "reject_no_tag" /\ t = NoTag => pc' = "reinject"
          /\ t # NoTag => pc' = "is_frozen"
      BY <2>3, <3>4, Zenon DEF Evaluate
    <3>. QED  BY <1>1, <1>2, <3>1, <3>4, <3>5 DEF tag, Threads
  <2>. QED  BY <2>1, <2>2, <2>3 DEF Begin
<1>. QED  BY <1>2, <1>3 DEF TypeOK, Receive, Working, Answering, Verdict

LEMMA HandlerType ==
    ASSUME TypeOK, HandlerStep \/ ReinjectPartly
    PROVE  TypeOK'
<1>. USE DEF postfix, db, disk, local, process, mailed, ledger, faults
<1>0. ASSUME pc \in Working \cup Answering
      PROVE  msg \in Msgs /\ tag \in Threads /\ (pc \in Working \ {"reinject"} => tag \in Tags)
  BY <1>0, MailType DEF TypeOK, tag
<1>1. CASE CheckFrozen
  <2>1. pc' \in {"hold", "hold_freeze", "record"}
    BY <1>1, Zenon DEF CheckFrozen
  <2>. QED  BY <1>0, <1>1, <2>1 DEF CheckFrozen, TypeOK, Working, Answering, tag
<1>2. CASE HoldFrozen
  <2>1. hold' \subseteq HoldFile /\ hold_counter' \in Nat
    BY <1>0, <1>2 DEF HoldFrozen, WriteHoldFile, TypeOK, HoldFile, Working
  <2>2. /\ pc' \in {"accept", "reject"}
        /\ errors' \in Nat /\ crashes' \in Nat /\ timeouts' \in Nat
    BY <1>2 DEF HoldFrozen, Returns, TypeOK
  <2>3. UNCHANGED <<postfix, db, local, process, unfreezing, mailed, ledger>>
    BY <1>2 DEF HoldFrozen, WriteHoldFile
  <2>. QED  BY <1>0, <1>2, <2>1, <2>2, <2>3 DEF HoldFrozen, TypeOK, Working, Answering, tag
<1>3. CASE HoldOverBudget
  <2>1. hold' \subseteq HoldFile /\ hold_counter' \in Nat
    BY <1>0, <1>3 DEF HoldOverBudget, WriteHoldFile, TypeOK, HoldFile, Working
  <2>2. /\ pc' \in {"freeze", "reject"}
        /\ errors' \in Nat /\ crashes' \in Nat /\ timeouts' \in Nat
    BY <1>3 DEF HoldOverBudget, Returns, TypeOK
  <2>3. UNCHANGED <<postfix, db, local, process, unfreezing, mailed, ledger>>
    BY <1>3 DEF HoldOverBudget, WriteHoldFile
  <2>. QED  BY <1>0, <1>3, <2>1, <2>2, <2>3 DEF HoldOverBudget, TypeOK, Working, Answering, tag
<1>4. CASE Freeze
  <2>1. /\ pc' \in {"accept", "notify_director", "reject"}
        /\ frozen_threads' \subseteq Tags
        /\ errors' \in Nat /\ crashes' \in Nat /\ timeouts' \in Nat
    BY <1>0, <1>4 DEF Freeze, Returns, TypeOK, Working
  <2>. QED  BY <1>0, <1>4, <2>1 DEF Freeze, TypeOK, Working, Answering, tag
<1>5. CASE NotifyDirector
  <2>1. tag \in Tags /\ thread_summary(tag) \in Seq(Msgs)
    BY <1>0, <1>5, SummaryType DEF NotifyDirector, TypeOK, Working
  <2>2. notices' \in [Tags -> Seq(Seq(Msgs))]
    BY <1>5, <2>1, AppendProperties DEF NotifyDirector, build_freeze_notification, TypeOK
  <2>3. UNCHANGED <<postfix, db, disk, local, process, unfreezing,
                    delivered, reached, warnings, ledger>>
    BY <1>5 DEF NotifyDirector
  <2>4. /\ pc' \in {"accept", "reject"}
        /\ errors' \in Nat /\ crashes' \in Nat /\ timeouts' \in Nat
    BY <1>5 DEF NotifyDirector, Returns, TypeOK
  <2>. QED  BY <1>0, <1>5, <2>2, <2>3, <2>4 DEF NotifyDirector, TypeOK, Working, Answering, tag
<1>6. CASE RecordMessage
  <2>1. thread_messages' \in [Tags -> Seq(Msgs)]
    BY <1>0, <1>6, AppendProperties DEF RecordMessage, TypeOK, Working
  <2>. QED  BY <1>0, <1>6, <2>1 DEF RecordMessage, Returns, TypeOK, Working, Answering, tag
<1>7. CASE Reinject \/ ReinjectPartly
  <2>1. PICK R \in SUBSET Addresses : SendTo(R)
    BY <1>0, <1>7, MailType DEF Reinject, ReinjectPartly, Working
  <2>2. delivered' \in [Threads -> Seq(Msgs)]
    BY <1>0, <1>7, <2>1, AppendProperties DEF SendTo, Reinject, ReinjectPartly, TypeOK, Working
  <2>3. reached' \in [Msgs -> SUBSET Addresses]
    BY <1>0, <1>7, <2>1 DEF SendTo, Reinject, ReinjectPartly, TypeOK, Working
  <2>4. /\ pc' \in {"accept", "warn", "reject"}
        /\ pc' = "warn" => tag \in Tags
        /\ <<crashes, errors, timeouts>>' \in Nat \X Nat \X Nat
    BY <1>0, <1>7 DEF Reinject, ReinjectPartly, AfterReinject, Returns, TypeOK, Working
  <2>. QED  BY <1>0, <1>7, <2>1, <2>2, <2>3, <2>4
            DEF Reinject, ReinjectPartly, SendTo, TypeOK, Working, Answering, tag
<1>8. CASE Warn
  <2>1. /\ pc' \in {"accept", "notify_caporedattore", "reject"}
        /\ warned_threads' \subseteq Tags
        /\ errors' \in Nat /\ crashes' \in Nat /\ timeouts' \in Nat
    BY <1>0, <1>8 DEF Warn, Returns, TypeOK, Working
  <2>. QED  BY <1>0, <1>8, <2>1 DEF Warn, TypeOK, Working, Answering, tag
<1>9. CASE NotifyCaporedattore
  BY <1>0, <1>9 DEF NotifyCaporedattore, Returns, TypeOK, Working, Answering, tag
<1>10. CASE Reply
  BY <1>0, <1>10 DEF Reply, TypeOK, Working, Answering, Verdict
<1>. QED
  BY <1>1, <1>2, <1>3, <1>4, <1>5, <1>6, <1>7, <1>8, <1>9, <1>10 DEF HandlerStep

LEMMA OthersType ==
    ASSUME TypeOK, Raise \/ GiveUp \/ Crash \/ Restart \/ Director
    PROVE  TypeOK'
<1>. USE DEF postfix, db, disk, local, process, mailed, ledger, faults
<1>1. CASE Raise
  BY <1>1 DEF Raise, TypeOK, Working, Answering, tag
<1>2. CASE GiveUp
  <2>1. /\ waiting' \in BOOLEAN
        /\ UNCHANGED <<queue, db, disk, local, pc, process, unfreezing, mailed, ledger,
                       crashes, errors, tag>>
    BY <1>2 DEF GiveUp, tag
  <2>2. timeouts' \in Nat
    BY <1>2 DEF GiveUp, TypeOK
  <2>. QED  BY <2>1, <2>2 DEF TypeOK
<1>3. CASE Crash
  <2>1. /\ waiting' \in BOOLEAN
        /\ pc' = "down" /\ msg' = NoMsg /\ verdict' = "accept"
        /\ UNCHANGED <<queue, db, disk, process, unfreezing, mailed, ledger, errors, timeouts>>
    BY <1>3 DEF Crash
  <2>2. crashes' \in Nat
    BY <1>3 DEF Crash, TypeOK
  <2>. QED  BY <2>1, <2>2 DEF TypeOK, Working, Answering, Verdict
<1>4. CASE Restart
  BY <1>4 DEF Restart, TypeOK, Working, Answering
<1>5. ASSUME NEW t \in Tags, DeleteFrozen(t)
      PROVE  TypeOK'
  BY <1>5 DEF DeleteFrozen, TypeOK, tag
<1>6. ASSUME NEW t \in Tags, DeleteWarned(t)
      PROVE  TypeOK'
  BY <1>6 DEF DeleteWarned, TypeOK, tag
<1>7. ASSUME NEW t \in Tags, DeleteMessages(t)
      PROVE  TypeOK'
  <2>1. <<>> \in Seq(Msgs)
    BY EmptySeq
  <2>. QED  BY <1>7, <2>1, BudgetFacts DEF DeleteMessages, TypeOK, tag
<1>. QED
  BY <1>1, <1>2, <1>3, <1>4, <1>5, <1>6, <1>7 DEF Director

\* Every reachable state is well typed.
THEOREM TypeCorrect == Spec => []TypeOK
<1>1. TypeOK /\ [Next]_vars => TypeOK'
  <2>. SUFFICES ASSUME TypeOK, [Next]_vars PROVE TypeOK'
    OBVIOUS
  <2>1. CASE \E m \in Msgs : Begin(m)
    BY <2>1, BeginType
  <2>2. CASE HandlerStep \/ ReinjectPartly
    BY <2>2, HandlerType
  <2>3. CASE Raise \/ GiveUp \/ Crash \/ Restart \/ Director
    BY <2>3, OthersType
  <2>4. CASE UNCHANGED vars
    BY <2>4 DEF vars, postfix, db, disk, local, process, mailed, ledger, faults, TypeOK, tag
  <2>. QED  BY <2>1, <2>2, <2>3, <2>4 DEF Next
<1>. QED  BY <1>1, InitType, PTL DEF Spec

-----------------------------------------------------------------------------
(* The fuse.                                                               *)

LEMMA InitFuse == Init => FuseInv
<1>. SUFFICES ASSUME Init PROVE FuseInv
  OBVIOUS
<1>1. Len(<<>>) = 0
  OBVIOUS
<1>2. \A t \in Tags : /\ thread_messages[t] = <<>> /\ delivered[t] = <<>>
                      /\ charged[t] = 0 /\ allowance[t] = Ceiling
  BY DEF Init, Threads
<1>3. pc = "idle"
  BY DEF Init
<1>. QED  BY <1>1, <1>2, <1>3, BudgetFacts DEF FuseInv, InFlight

\* A step that touches no counter and ends past the re-injection, or in a
\* reply, or with the handler gone.
LEMMA SettledFuse ==
    ASSUME TypeOK, FuseInv,
           UNCHANGED <<thread_messages, charged, allowance, delivered>>,
           pc' \notin {"is_frozen", "record", "reinject"}
    PROVE  FuseInv'
<1>1. ASSUME NEW t \in Tags
      PROVE  /\ Len(delivered[t]) \in Nat /\ charged[t] \in Nat
             /\ Len(delivered[t]) <= charged[t]
  <2>1. delivered[t] \in Seq(Msgs) /\ charged[t] \in Nat
    BY DEF Threads, TypeOK
  <2>2. Len(delivered[t]) \in Nat
    BY <2>1, LenProperties
  <2>3. InFlight(t) \in {0, 1} /\ Len(delivered[t]) + InFlight(t) <= charged[t]
    BY DEF FuseInv, InFlight
  <2>. QED  BY <2>1, <2>2, <2>3
<1>2. \A t \in Tags : InFlight(t)' = 0
  BY DEF InFlight
<1>. QED  BY <1>1, <1>2 DEF FuseInv

LEMMA BeginFuse ==
    ASSUME TypeOK, FuseInv, NEW m \in Msgs, Begin(m)
    PROVE  FuseInv'
<1>. USE DEF postfix, db, disk, local, process, mailed, ledger, faults
<1>1. /\ pc = "idle" /\ msg' = m
      /\ UNCHANGED <<thread_messages, frozen_threads, charged, allowance, delivered, budget>>
  BY DEF Begin, PassBounce, RejectMismatch, Evaluate, Receive
<1>2. tag' = ThreadOf(m)
  BY <1>1 DEF tag
<1>3. CASE pc' = "reject"
  BY <1>1, <1>3, SettledFuse
<1>4. CASE pc' = "reinject" /\ tag' = NoTag
  BY <1>1, <1>4, TagAssumption DEF FuseInv, InFlight, TypeOK
<1>5. CASE /\ pc' = "is_frozen" /\ tag' \in Tags
           /\ verdict' # "freeze" => Len(thread_messages[tag']) < Ceiling
  BY <1>1, <1>5 DEF FuseInv, InFlight
<1>6. CASE PassBounce(m)
  BY <1>2, <1>4, <1>6 DEF PassBounce, ThreadOf
<1>7. CASE RejectMismatch(m)
  BY <1>3, <1>7 DEF RejectMismatch
<1>8. CASE Evaluate(m)
  <2>. DEFINE t == extract_tag(Mail[m].subject)
              n == IF t = NoTag THEN 0 ELSE message_count(t)
  <2>1. t \in Threads /\ ThreadOf(m) = t /\ Mail[m].subject \in Subject
    BY <1>8, MailType DEF Evaluate, ThreadOf
  <2>2. n \in Nat /\ budget \in Budgets
    BY <2>1, LenProperties DEF TypeOK, message_count, Threads
  <2>3. /\ verdict' \in Verdict
        /\ t = NoTag => verdict' \in {"accept", "reject_no_tag"}
        /\ t # NoTag => verdict' # "reject_no_tag"
        /\ t # NoTag /\ verdict' # "freeze" => n < HardLimit(budget)
    BY <1>8, <2>1, <2>2, VerdictType DEF Evaluate
  <2>4. /\ verdict' = "reject_no_tag" => pc' = "reject"
        /\ verdict' # "reject_no_tag" /\ t = NoTag => pc' = "reinject"
        /\ t # NoTag => pc' = "is_frozen"
    BY <1>8, <2>3, Zenon DEF Evaluate
  <2>5. CASE t = NoTag
    BY <1>2, <1>3, <1>4, <2>1, <2>4, <2>5
  <2>6. CASE t # NoTag
    <3>1. t \in Tags /\ n = Len(thread_messages[t])
      BY <2>1, <2>6 DEF Threads, message_count
    <3>2. verdict' # "freeze" => Len(thread_messages[t]) < Ceiling
      BY <2>2, <2>3, <2>6, <3>1, BudgetFacts
    <3>. QED  BY <1>2, <1>5, <2>1, <2>4, <2>6, <3>1, <3>2
  <2>. QED  BY <2>5, <2>6
<1>. QED  BY <1>6, <1>7, <1>8 DEF Begin

LEMMA CheckFrozenFuse ==
    ASSUME TypeOK, FuseInv, CheckFrozen
    PROVE  FuseInv'
<1>1. /\ pc = "is_frozen" /\ tag' = tag
      /\ UNCHANGED <<thread_messages, frozen_threads, charged, allowance, delivered, verdict>>
  BY DEF CheckFrozen, db, local, ledger, mailed, tag
<1>2. CASE tag \notin frozen_threads /\ verdict # "freeze"
  <2>1. pc' = "record"
    BY <1>2, Zenon DEF CheckFrozen
  <2>. QED  BY <1>1, <1>2, <2>1 DEF FuseInv, InFlight
<1>3. CASE tag \in frozen_threads \/ verdict = "freeze"
  <2>1. pc' \in {"hold", "hold_freeze"}
    BY <1>3, Zenon DEF CheckFrozen
  <2>. QED  BY <1>1, <2>1, SettledFuse
<1>. QED  BY <1>2, <1>3

LEMMA RecordFuse ==
    ASSUME TypeOK, FuseInv, RecordMessage
    PROVE  FuseInv'
<1>. USE DEF RecordMessage, postfix, db, disk, local, process, mailed, ledger
<1>1. /\ pc = "record" /\ pc' \in {"reinject", "reject"}
      /\ tag \in Tags /\ msg \in Msgs /\ tag' = tag
      /\ UNCHANGED <<frozen_threads, delivered, allowance>>
  BY DEF TypeOK, Working, Returns, tag
<1>2. /\ Len(thread_messages'[tag]) = Len(thread_messages[tag]) + 1
      /\ Len(thread_messages[tag]) \in Nat
      /\ \A t \in Tags \ {tag} : thread_messages'[t] = thread_messages[t]
  <2>1. thread_messages[tag] \in Seq(Msgs)
    BY <1>1 DEF TypeOK
  <2>. QED  BY <1>1, <2>1, AppendProperties, LenProperties DEF TypeOK
<1>3. charged \in [Tags -> Nat] /\ charged' = [charged EXCEPT ![tag] = @ + 1]
  BY DEF TypeOK
<1>4. \A t \in Tags : Len(delivered[t]) \in Nat /\ InFlight(t) = 0
  BY <1>1, LenProperties DEF TypeOK, Threads, InFlight
<1>5. ASSUME NEW t \in Tags
      PROVE  /\ Len(thread_messages'[t]) <= Ceiling
             /\ charged'[t] + (Ceiling - Len(thread_messages'[t])) <= allowance'[t]
             /\ Len(delivered'[t]) + InFlight(t)' <= charged'[t]
  <2>1. Ceiling \in Nat /\ allowance[t] \in Nat /\ charged[t] \in Nat
    BY BudgetFacts DEF TypeOK
  <2>2. CASE t = tag
    <3>1. /\ Len(thread_messages[t]) < Ceiling
          /\ charged[t] + (Ceiling - Len(thread_messages[t])) <= allowance[t]
          /\ Len(delivered[t]) <= charged[t]
      BY <1>1, <1>4, <2>1, <2>2 DEF FuseInv
    <3>2. /\ Len(thread_messages'[t]) = Len(thread_messages[t]) + 1
          /\ charged'[t] = charged[t] + 1
          /\ InFlight(t)' \in {0, 1}
      BY <1>1, <1>2, <1>3, <2>2 DEF InFlight
    <3>. QED  BY <1>1, <1>2, <1>4, <2>1, <2>2, <3>1, <3>2
  <2>3. CASE t # tag
    BY <1>1, <1>2, <1>3, <1>4, <2>1, <2>3 DEF FuseInv, InFlight
  <2>. QED  BY <2>2, <2>3
<1>6. tag' \notin frozen_threads'
  BY <1>1 DEF FuseInv
<1>. QED  BY <1>1, <1>5, <1>6 DEF FuseInv

\* What a re-injection does to the deliveries of each thread.
LEMMA SendDelivers ==
    ASSUME TypeOK, FuseInv, Reinject \/ ReinjectPartly
    PROVE  /\ pc = "reinject" /\ pc' \in {"accept", "warn", "reject"}
           /\ tag \in Threads /\ tag \notin frozen_threads
           /\ UNCHANGED <<thread_messages, frozen_threads, charged, allowance>>
           /\ \A t \in Tags : t # tag => delivered'[t] = delivered[t]
           /\ Len(delivered[tag]) \in Nat
           /\ Len(delivered'[tag]) = Len(delivered[tag]) + 1
<1>. USE DEF postfix, db, disk, local, process, mailed, ledger
<1>1. /\ pc = "reinject" /\ pc' \in {"accept", "warn", "reject"}
      /\ delivered' = [delivered EXCEPT ![tag] = Append(@, msg)]
      /\ UNCHANGED <<thread_messages, frozen_threads, charged, allowance>>
  BY DEF Reinject, ReinjectPartly, SendTo, Returns, AfterReinject
<1>2. msg \in Msgs /\ tag \in Threads
  BY <1>1, MailType DEF TypeOK, Working, tag
<1>3. delivered[tag] \in Seq(Msgs) /\ delivered \in [Threads -> Seq(Msgs)]
  BY <1>2 DEF TypeOK
<1>4. Len(delivered[tag]) \in Nat /\ Len(delivered'[tag]) = Len(delivered[tag]) + 1
  BY <1>1, <1>2, <1>3, LenProperties, AppendProperties
<1>5. \A t \in Tags : t # tag => delivered'[t] = delivered[t]
  BY <1>1, <1>3 DEF Threads
<1>. QED  BY <1>1, <1>2, <1>4, <1>5 DEF FuseInv

LEMMA ReinjectFuse ==
    ASSUME TypeOK, FuseInv, Reinject \/ ReinjectPartly
    PROVE  FuseInv'
<1>1. ASSUME NEW t \in Tags
     PROVE  /\ Len(thread_messages'[t]) <= Ceiling
            /\ charged'[t] + (Ceiling - Len(thread_messages'[t])) <= allowance'[t]
            /\ Len(delivered'[t]) + InFlight(t)' <= charged'[t]
  <2>1. InFlight(t)' = 0
    BY SendDelivers DEF InFlight
  <2>2. Len(delivered[t]) \in Nat /\ charged[t] \in Nat
    BY LenProperties DEF TypeOK, Threads
  <2>3. CASE t = tag
    <3>1. Len(delivered[t]) + 1 <= charged[t]
      BY <2>3, SendDelivers DEF FuseInv, InFlight
    <3>2. Len(delivered'[t]) = Len(delivered[t]) + 1
      BY <2>3, SendDelivers
    <3>. QED  BY <2>1, <2>2, <3>1, <3>2, SendDelivers DEF FuseInv
  <2>4. CASE t # tag
    BY <2>1, <2>2, <2>4, SendDelivers DEF FuseInv, InFlight
  <2>. QED  BY <2>3, <2>4
<1>. QED  BY <1>1, SendDelivers DEF FuseInv

\* The steps of the handler that touch neither counter nor deliveries.
LEMMA QuietFuse ==
    ASSUME TypeOK, FuseInv,
           \/ HoldFrozen \/ HoldOverBudget \/ Freeze \/ NotifyDirector
           \/ Warn \/ NotifyCaporedattore \/ Reply \/ Raise \/ Crash \/ Restart
    PROVE  FuseInv'
<1>. USE DEF postfix, db, disk, local, process, mailed, ledger, faults
<1>1. UNCHANGED <<thread_messages, charged, allowance, delivered>>
  BY DEF HoldFrozen, HoldOverBudget, WriteHoldFile, Freeze, NotifyDirector, Warn,
         NotifyCaporedattore, Reply, Raise, Crash, Restart
<1>2. pc' \notin {"is_frozen", "record", "reinject"}
  BY DEF HoldFrozen, HoldOverBudget, Freeze, NotifyDirector, Warn,
         NotifyCaporedattore, Reply, Raise, Crash, Restart, Returns
<1>. QED  BY <1>1, <1>2, SettledFuse

\* The director, a Postfix that hangs up, and a stuttering step leave the
\* handler where it is.
LEMMA DirectorFuse ==
    ASSUME TypeOK, FuseInv, Director
    PROVE  FuseInv'
<1>. USE DEF postfix, db, disk, local, process, mailed, ledger, faults
<1>1. UNCHANGED <<pc, msg, verdict, charged, delivered, tag>>
  BY DEF Director, DeleteFrozen, DeleteWarned, DeleteMessages, tag
<1>2. \A t \in Tags : InFlight(t)' = InFlight(t)
  BY <1>1 DEF InFlight
<1>3. ASSUME NEW t \in Tags, DeleteFrozen(t) \/ DeleteWarned(t)
      PROVE  FuseInv'
  <2>1. /\ UNCHANGED <<thread_messages, allowance>>
        /\ frozen_threads' \subseteq frozen_threads
    BY <1>3 DEF DeleteFrozen, DeleteWarned
  <2>. QED  BY <1>1, <1>2, <2>1 DEF FuseInv
<1>4. ASSUME NEW t \in Tags, DeleteMessages(t)
      PROVE  FuseInv'
  <2>1. /\ thread_messages'[t] = <<>> /\ allowance'[t] = allowance[t] + Ceiling
        /\ \A u \in Tags \ {t} : /\ thread_messages'[u] = thread_messages[u]
                                 /\ allowance'[u] = allowance[u]
        /\ frozen_threads' = frozen_threads
    BY <1>4 DEF DeleteMessages, TypeOK
  <2>2. /\ Len(<<>>) = 0 /\ Ceiling \in Nat
        /\ Len(thread_messages[t]) \in Nat /\ charged[t] \in Nat /\ allowance[t] \in Nat
    <3>1. thread_messages[t] \in Seq(Msgs)
      BY DEF TypeOK
    <3>. QED  BY <3>1, LenProperties, BudgetFacts DEF TypeOK
  <2>3. Len(thread_messages'[t]) = 0
    BY <2>1, <2>2
  <2>4. charged[t] + Ceiling <= allowance'[t]
    BY <2>1, <2>2 DEF FuseInv
  <2>5. ASSUME pc = "record" \/ (pc = "is_frozen" /\ verdict # "freeze")
        PROVE  Len(thread_messages'[tag]) < Ceiling
    <3>1. tag \in Tags
      BY <2>5 DEF TypeOK, Working
    <3>2. Len(thread_messages[tag]) < Ceiling
      BY <2>5 DEF FuseInv
    <3>. QED  BY <2>1, <2>2, <2>3, <3>1, <3>2
  <2>6. ASSUME NEW u \in Tags
        PROVE  /\ Len(thread_messages'[u]) <= Ceiling
               /\ charged[u] + (Ceiling - Len(thread_messages'[u])) <= allowance'[u]
               /\ Len(delivered[u]) + InFlight(u) <= charged[u]
    <3>1. /\ Len(thread_messages[u]) <= Ceiling
          /\ charged[u] + (Ceiling - Len(thread_messages[u])) <= allowance[u]
          /\ Len(delivered[u]) + InFlight(u) <= charged[u]
      BY DEF FuseInv
    <3>2. CASE u = t
      BY <2>2, <2>3, <2>4, <3>1, <3>2
    <3>3. CASE u # t
      BY <2>1, <3>1, <3>3
    <3>. QED  BY <3>2, <3>3
  <2>. QED  BY <1>1, <1>2, <2>1, <2>5, <2>6 DEF FuseInv
<1>. QED  BY <1>3, <1>4 DEF Director

LEMMA IdleFuse ==
    ASSUME FuseInv, GiveUp \/ UNCHANGED vars
    PROVE  FuseInv'
<1>1. UNCHANGED <<thread_messages, frozen_threads, charged, allowance, delivered,
                  pc, msg, verdict>>
  BY DEF GiveUp, vars, db, local, ledger, mailed
<1>. QED  BY <1>1 DEF FuseInv, InFlight, tag

LEMMA FuseStep ==
    ASSUME TypeOK, FuseInv, [Next]_vars
    PROVE  FuseInv'
<1>1. CASE \E m \in Msgs : Begin(m)
  BY <1>1, BeginFuse
<1>2. CASE HandlerStep
  BY <1>2, CheckFrozenFuse, RecordFuse, ReinjectFuse, QuietFuse DEF HandlerStep
<1>3. CASE ReinjectPartly
  BY <1>3, ReinjectFuse
<1>4. CASE Raise \/ Crash \/ Restart
  BY <1>4, QuietFuse
<1>5. CASE Director
  BY <1>5, DirectorFuse
<1>6. CASE GiveUp \/ UNCHANGED vars
  BY <1>6, IdleFuse
<1>. QED  BY <1>1, <1>2, <1>3, <1>4, <1>5, <1>6 DEF Next

\* The counter, the allowance and the deliveries of a thread stay in step.
THEOREM FuseInvariant == Spec => [](TypeOK /\ FuseInv)
<1>1. TypeOK /\ FuseInv /\ [Next]_vars => FuseInv'
  BY FuseStep
<1>. QED  BY <1>1, InitFuse, TypeCorrect, PTL DEF Spec

\* What the invariant says of deliveries, at any time.
LEMMA FuseBound ==
    ASSUME TypeOK, FuseInv, NEW t \in Tags
    PROVE  /\ Len(delivered[t]) \in Nat /\ allowance[t] \in Nat
           /\ Len(delivered[t]) + InFlight(t) <= allowance[t]
<1>1. delivered[t] \in Seq(Msgs) /\ thread_messages[t] \in Seq(Msgs)
  BY DEF TypeOK, Threads
<1>2. Len(delivered[t]) \in Nat /\ Len(thread_messages[t]) \in Nat
  BY <1>1, LenProperties
<1>3. charged[t] \in Nat /\ allowance[t] \in Nat /\ InFlight(t) \in {0, 1}
  BY DEF TypeOK, InFlight
<1>4. /\ Len(thread_messages[t]) <= Ceiling
      /\ charged[t] + (Ceiling - Len(thread_messages[t])) <= allowance[t]
      /\ Len(delivered[t]) + InFlight(t) <= charged[t]
  BY DEF FuseInv
<1>. QED  BY <1>2, <1>3, <1>4, BudgetFacts

\* No thread ever re-injects more than HardLimit mails for each life it was
\* given, whatever the interleaving, the crashes, the retries and the errors.
THEOREM FuseHoldsAlways == Spec => []FuseHolds
<1>1. TypeOK /\ FuseInv => FuseHolds
  <2>. SUFFICES ASSUME TypeOK, FuseInv, NEW t \in Tags
                PROVE  Len(delivered[t]) <= allowance[t]
    BY DEF FuseHolds
  <2>1. InFlight(t) \in {0, 1}
    BY DEF InFlight
  <2>. QED  BY <2>1, FuseBound
<1>. QED  BY <1>1, FuseInvariant, PTL

\* Only a re-injection changes what was delivered.
LEMMA OnlySendingDelivers ==
    ASSUME [Next]_vars, ~(Reinject \/ ReinjectPartly)
    PROVE  delivered' = delivered
<1>. USE DEF postfix, db, disk, local, process, mailed, ledger, faults
<1>1. CASE \E m \in Msgs : Begin(m)
  BY <1>1 DEF Begin, PassBounce, RejectMismatch, Evaluate, Receive
<1>2. CASE HandlerStep
  BY <1>2 DEF HandlerStep, CheckFrozen, HoldFrozen, HoldOverBudget, WriteHoldFile, Freeze,
              NotifyDirector, RecordMessage, Warn, NotifyCaporedattore, Reply
<1>3. CASE Raise \/ GiveUp \/ Crash \/ Restart
  BY <1>3 DEF Raise, GiveUp, Crash, Restart
<1>4. CASE Director
  BY <1>4 DEF Director, DeleteFrozen, DeleteWarned, DeleteMessages
<1>5. CASE UNCHANGED vars
  BY <1>5 DEF vars
<1>. QED  BY <1>1, <1>2, <1>3, <1>4, <1>5 DEF Next

\* No step delivers on a frozen thread.
THEOREM FrozenSilenceAlways == Spec => FrozenSilence
<1>. DEFINE Silent == \A t \in Tags : delivered'[t] # delivered[t] => t \notin frozen_threads
<1>1. TypeOK /\ FuseInv /\ [Next]_vars => [Silent]_vars
  <2>. SUFFICES ASSUME TypeOK, FuseInv, [Next]_vars PROVE Silent
    OBVIOUS
  <2>1. CASE Reinject \/ ReinjectPartly
    BY <2>1, SendDelivers
  <2>2. CASE ~(Reinject \/ ReinjectPartly)
    BY <2>2, OnlySendingDelivers
  <2>. QED  BY <2>1, <2>2
<1>. QED  BY <1>1, FuseInvariant, PTL DEF Spec, FrozenSilence

-----------------------------------------------------------------------------
(* The filter implements the fuse.                                         *)

Deliveries == [t \in Tags |-> Len(delivered[t])]

LEMMA InitImplementsFuse == Init => Fuse!Init
<1>. SUFFICES ASSUME Init PROVE Fuse!Init
  OBVIOUS
<1>1. \A t \in Tags : Len(delivered[t]) = 0
  <2>1. Len(<<>>) = 0
    OBVIOUS
  <2>. QED  BY <2>1 DEF Init, Threads
<1>. QED  BY <1>1 DEF Init, Fuse!Init

\* A re-injection on a tagged thread is a delivery; one on no thread is none
\* of the fuse's business.
LEMMA SendImplementsFuse ==
    ASSUME TypeOK, FuseInv, Reinject \/ ReinjectPartly
    PROVE  Fuse!Next \/ UNCHANGED Fuse!vars
<1>1. UNCHANGED <<allowance, frozen_threads>>
  BY SendDelivers
<1>2. ASSUME NEW t \in Tags, t = tag
      PROVE  Fuse!Next
  <2>1. Len(delivered[t]) < allowance[t]
    <3>1. InFlight(t) = 1
      BY <1>2, SendDelivers DEF InFlight
    <3>. QED  BY <3>1, FuseBound
  <2>2. Deliveries' = [Deliveries EXCEPT ![t] = @ + 1]
    BY <1>2, SendDelivers DEF Deliveries
  <2>3. Fuse!Deliver(t)
    BY <1>1, <1>2, <2>1, <2>2, SendDelivers DEF Fuse!Deliver, Deliveries
  <2>. QED  BY <2>3 DEF Fuse!Next
<1>3. CASE tag \notin Tags
  <2>1. Deliveries' = Deliveries
    BY <1>3, SendDelivers DEF Deliveries
  <2>. QED  BY <1>1, <2>1 DEF Fuse!vars, Deliveries
<1>. QED  BY <1>2, <1>3

\* Every other step trips the fuse, lifts it, grants a life, or stutters.
LEMMA OthersImplementFuse ==
    ASSUME TypeOK, [Next]_vars, ~(Reinject \/ ReinjectPartly)
    PROVE  Fuse!Next \/ UNCHANGED Fuse!vars
<1>. USE DEF postfix, db, disk, local, process, mailed, ledger, faults
<1>0. Deliveries' = Deliveries
  BY OnlySendingDelivers DEF Deliveries
<1>1. ASSUME UNCHANGED <<allowance, frozen_threads>>
      PROVE  UNCHANGED Fuse!vars
  BY <1>0, <1>1 DEF Fuse!vars, Deliveries
<1>2. CASE \E m \in Msgs : Begin(m)
  BY <1>1, <1>2 DEF Begin, PassBounce, RejectMismatch, Evaluate, Receive
<1>3. CASE Freeze
  <2>1. tag \in Tags
    BY <1>3 DEF Freeze, TypeOK, Working
  <2>2. Fuse!Trip(tag)
    BY <1>0, <1>3 DEF Freeze, Fuse!Trip, Deliveries
  <2>. QED  BY <2>1, <2>2 DEF Fuse!Next
<1>4. CASE HandlerStep /\ ~Freeze
  BY <1>1, <1>4 DEF HandlerStep, CheckFrozen, HoldFrozen, HoldOverBudget, WriteHoldFile,
              NotifyDirector, RecordMessage, Warn, NotifyCaporedattore, Reply
<1>5. CASE Raise \/ GiveUp \/ Crash \/ Restart
  BY <1>1, <1>5 DEF Raise, GiveUp, Crash, Restart
<1>6. ASSUME NEW t \in Tags, DeleteFrozen(t)
      PROVE  Fuse!Next
  <2>1. Fuse!Lift(t)
    BY <1>0, <1>6 DEF DeleteFrozen, Fuse!Lift, Deliveries
  <2>. QED  BY <2>1 DEF Fuse!Next
<1>7. ASSUME NEW t \in Tags, DeleteWarned(t)
      PROVE  UNCHANGED Fuse!vars
  BY <1>1, <1>7 DEF DeleteWarned
<1>8. ASSUME NEW t \in Tags, DeleteMessages(t)
      PROVE  Fuse!Next
  <2>1. Fuse!Grant(t)
    BY <1>0, <1>8 DEF DeleteMessages, Fuse!Grant, Deliveries
  <2>. QED  BY <2>1 DEF Fuse!Next
<1>9. CASE UNCHANGED vars
  BY <1>1, <1>9 DEF vars
<1>. QED
  BY <1>2, <1>3, <1>4, <1>5, <1>6, <1>7, <1>8, <1>9 DEF Next, Director

\* The handler, its database and its faults implement the promise of the
\* fuse, with the director's DELETEs interleaved anywhere.
THEOREM FilterImplementsFuse == Spec => FuseSpec
<1>1. TypeOK /\ FuseInv /\ [Next]_vars => [Fuse!Next]_Fuse!vars
  BY SendImplementsFuse, OthersImplementFuse
<1>. QED
  BY <1>1, InitImplementsFuse, FuseInvariant, PTL DEF Spec, FuseSpec, Fuse!Spec

=============================================================================
