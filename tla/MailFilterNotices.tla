-------------------------- MODULE MailFilterNotices ---------------------------
(***************************************************************************)
(* Theorems about what director and caporedattore are told of a thread,    *)
(* and when it is silenced, for every set of tags, mails and budgets and   *)
(* every bound on the faults.                                              *)
(***************************************************************************)
EXTENDS MailFilterDelivery

-----------------------------------------------------------------------------
(* Which step writes what.                                                 *)

LEMMA Writers ==
    ASSUME [Next]_vars
    PROVE  /\ ~NotifyDirector => notices' = notices
           /\ ~NotifyCaporedattore => warnings' = warnings
           /\ ~Freeze /\ ~Director => frozen_threads' = frozen_threads
           /\ ~Warn /\ ~Director => warned_threads' = warned_threads
           /\ ~RecordMessage /\ ~Director => thread_messages' = thread_messages
           /\ ~RecordMessage => charged' = charged
           /\ ~Director => UNCHANGED <<unfreezes, unfreezing>>
           /\ ~Restart => budget' = budget
<1>. USE DEF postfix, db, disk, local, process, mailed, ledger, faults
<1>1. CASE \E m \in Msgs : Begin(m)
  BY <1>1 DEF Begin, PassBounce, RejectMismatch, Evaluate, Receive
<1>2. CASE CheckFrozen \/ HoldFrozen \/ HoldOverBudget \/ Reinject \/ ReinjectPartly \/ Reply
  BY <1>2 DEF CheckFrozen, HoldFrozen, HoldOverBudget, WriteHoldFile, Reinject,
              ReinjectPartly, SendTo, Reply
<1>3. CASE Freeze \/ NotifyDirector \/ RecordMessage \/ Warn \/ NotifyCaporedattore
  BY <1>3 DEF Freeze, NotifyDirector, RecordMessage, Warn, NotifyCaporedattore
<1>4. CASE Raise \/ GiveUp \/ Crash \/ Restart
  BY <1>4 DEF Raise, GiveUp, Crash, Restart
<1>5. CASE Director
  BY <1>5 DEF Director, DeleteFrozen, DeleteWarned, DeleteMessages
<1>6. CASE UNCHANGED vars
  BY <1>6 DEF vars
<1>. QED  BY <1>1, <1>2, <1>3, <1>4, <1>5, <1>6 DEF Next, HandlerStep

\* The steps that leave the handler where it is.
LEMMA HandlerRests ==
    ASSUME GiveUp \/ Director \/ UNCHANGED vars
    PROVE  UNCHANGED <<pc, msg, verdict, tag, hold, delivered, crashes, errors, budget>>
BY DEF GiveUp, Director, DeleteFrozen, DeleteWarned, DeleteMessages, vars, tag, disk, local,
       process, mailed, faults

\* The steps after which no mail is being handled.
LEMMA HandlerEnds ==
    ASSUME TypeOK, Reply \/ Crash \/ Restart
    PROVE  /\ pc' \in {"idle", "down"}
           /\ UNCHANGED <<hold, delivered, errors>>
           /\ crashes' \in {crashes, crashes + 1}
           /\ pc' = "down" => crashes' = crashes + 1
           /\ Restart => pc = "down"
BY DEF Reply, Crash, Restart, disk, mailed, faults, TypeOK

-----------------------------------------------------------------------------
(* Nobody is told twice.                                                   *)

At(t, steps) == IF pc \in steps /\ tag = t THEN 1 ELSE 0

\* A freeze notice sent or due was paid for by a freeze flag inserted, which
\* is still there or was deleted by the director; a warning likewise, but its
\* flag is deleted after the unfreezing began.
OnceInv ==
    \A t \in Tags :
        /\ Len(notices[t]) + At(t, {"notify_director"})
             <= unfreezes[t] + (IF t \in frozen_threads THEN 1 ELSE 0)
        /\ warnings[t] + At(t, {"notify_caporedattore"})
                       + (IF unfreezing[t] = 1 THEN 1 ELSE 0)
             <= unfreezes[t] + (IF t \in warned_threads THEN 1 ELSE 0)

LEMMA InitOnce == Init => OnceInv
<1>1. Len(<<>>) = 0
  OBVIOUS
<1>2. ASSUME Init, NEW t \in Tags
      PROVE  /\ notices[t] = <<>> /\ warnings[t] = 0 /\ unfreezes[t] = 0
             /\ unfreezing[t] = 0 /\ pc = "idle"
             /\ t \notin frozen_threads /\ t \notin warned_threads
  BY <1>2 DEF Init
<1>. SUFFICES ASSUME Init, NEW t \in Tags
              PROVE  /\ Len(notices[t]) + At(t, {"notify_director"})
                          <= unfreezes[t] + (IF t \in frozen_threads THEN 1 ELSE 0)
                     /\ warnings[t] + At(t, {"notify_caporedattore"})
                                    + (IF unfreezing[t] = 1 THEN 1 ELSE 0)
                          <= unfreezes[t] + (IF t \in warned_threads THEN 1 ELSE 0)
  BY DEF OnceInv
<1>3. At(t, {"notify_director"}) = 0 /\ At(t, {"notify_caporedattore"}) = 0
  BY <1>2 DEF At
<1>. QED  BY <1>1, <1>2, <1>3

\* The numbers of one thread.
LEMMA OnceTypes ==
    ASSUME TypeOK, NEW t \in Tags
    PROVE  /\ notices[t] \in Seq(Seq(Msgs)) /\ Len(notices[t]) \in Nat
           /\ warnings[t] \in Nat /\ unfreezes[t] \in Nat
           /\ unfreezing[t] \in 0 .. 2
           /\ At(t, {"notify_director"}) \in {0, 1}
           /\ At(t, {"notify_caporedattore"}) \in {0, 1}
<1>1. notices[t] \in Seq(Seq(Msgs)) /\ warnings[t] \in Nat /\ unfreezes[t] \in Nat
      /\ unfreezing[t] \in 0 .. 2
  BY DEF TypeOK
<1>. QED  BY <1>1, LenProperties DEF At

\* A step that tells nobody, sets no flag and leads to no notice.
LEMMA QuietOnce ==
    ASSUME TypeOK, OnceInv,
           UNCHANGED <<notices, warnings, unfreezes, unfreezing, frozen_threads, warned_threads>>,
           \A t \in Tags : /\ At(t, {"notify_director"})' <= At(t, {"notify_director"})
                           /\ At(t, {"notify_caporedattore"})' <= At(t, {"notify_caporedattore"})
    PROVE  OnceInv'
<1>. SUFFICES ASSUME NEW t \in Tags
              PROVE  /\ Len(notices[t]) + At(t, {"notify_director"})'
                          <= unfreezes[t] + (IF t \in frozen_threads THEN 1 ELSE 0)
                     /\ warnings[t] + At(t, {"notify_caporedattore"})'
                                    + (IF unfreezing[t] = 1 THEN 1 ELSE 0)
                          <= unfreezes[t] + (IF t \in warned_threads THEN 1 ELSE 0)
  BY DEF OnceInv
<1>1. /\ At(t, {"notify_director"})' \in {0, 1}
      /\ At(t, {"notify_caporedattore"})' \in {0, 1}
  BY DEF At
<1>. QED  BY <1>1, OnceTypes DEF OnceInv

LEMMA FreezeOnce ==
    ASSUME TypeOK, OnceInv, Freeze
    PROVE  OnceInv'
<1>. USE DEF db, disk, local, process, mailed, ledger, faults
<1>1. /\ pc = "freeze" /\ tag' = tag
      /\ frozen_threads' = frozen_threads \cup {tag}
      /\ pc' = "notify_director" => tag \notin frozen_threads
      /\ pc' # "notify_caporedattore"
      /\ UNCHANGED <<notices, warnings, unfreezes, unfreezing, warned_threads>>
  BY DEF Freeze, Returns, tag
<1>. SUFFICES ASSUME NEW t \in Tags
              PROVE  /\ Len(notices[t]) + At(t, {"notify_director"})'
                          <= unfreezes[t] + (IF t \in frozen_threads' THEN 1 ELSE 0)
                     /\ warnings[t] + At(t, {"notify_caporedattore"})'
                                    + (IF unfreezing[t] = 1 THEN 1 ELSE 0)
                          <= unfreezes[t] + (IF t \in warned_threads THEN 1 ELSE 0)
  BY <1>1 DEF OnceInv
<1>2. /\ Len(notices[t]) <= unfreezes[t] + (IF t \in frozen_threads THEN 1 ELSE 0)
      /\ warnings[t] + (IF unfreezing[t] = 1 THEN 1 ELSE 0)
           <= unfreezes[t] + (IF t \in warned_threads THEN 1 ELSE 0)
  <2>1. At(t, {"notify_director"}) = 0 /\ At(t, {"notify_caporedattore"}) = 0
    BY <1>1 DEF At
  <2>. QED  BY <2>1, OnceTypes DEF OnceInv
<1>3. /\ At(t, {"notify_director"})' \in {0, 1}
      /\ At(t, {"notify_director"})' = 1 => t \notin frozen_threads /\ t \in frozen_threads'
      /\ At(t, {"notify_caporedattore"})' = 0
      /\ t \in frozen_threads => t \in frozen_threads'
  BY <1>1 DEF At
<1>. QED  BY <1>2, <1>3, OnceTypes

LEMMA WarnOnce ==
    ASSUME TypeOK, OnceInv, Warn
    PROVE  OnceInv'
<1>. USE DEF db, disk, local, process, mailed, ledger, faults
<1>1. /\ pc = "warn" /\ tag' = tag
      /\ warned_threads' = warned_threads \cup {tag}
      /\ pc' = "notify_caporedattore" => tag \notin warned_threads
      /\ pc' # "notify_director"
      /\ UNCHANGED <<notices, warnings, unfreezes, unfreezing, frozen_threads>>
  BY DEF Warn, Returns, tag
<1>. SUFFICES ASSUME NEW t \in Tags
              PROVE  /\ Len(notices[t]) + At(t, {"notify_director"})'
                          <= unfreezes[t] + (IF t \in frozen_threads THEN 1 ELSE 0)
                     /\ warnings[t] + At(t, {"notify_caporedattore"})'
                                    + (IF unfreezing[t] = 1 THEN 1 ELSE 0)
                          <= unfreezes[t] + (IF t \in warned_threads' THEN 1 ELSE 0)
  BY <1>1 DEF OnceInv
<1>2. /\ Len(notices[t]) <= unfreezes[t] + (IF t \in frozen_threads THEN 1 ELSE 0)
      /\ warnings[t] + (IF unfreezing[t] = 1 THEN 1 ELSE 0)
           <= unfreezes[t] + (IF t \in warned_threads THEN 1 ELSE 0)
  <2>1. At(t, {"notify_director"}) = 0 /\ At(t, {"notify_caporedattore"}) = 0
    BY <1>1 DEF At
  <2>. QED  BY <2>1, OnceTypes DEF OnceInv
<1>3. /\ At(t, {"notify_caporedattore"})' \in {0, 1}
      /\ At(t, {"notify_caporedattore"})' = 1 =>
            t \notin warned_threads /\ t \in warned_threads'
      /\ At(t, {"notify_director"})' = 0
      /\ t \in warned_threads => t \in warned_threads'
  BY <1>1 DEF At
<1>. QED  BY <1>2, <1>3, OnceTypes

\* Sending a notice or a warning turns one that was due into one that was sent.
LEMMA NotifyOnce ==
    ASSUME TypeOK, OnceInv, NotifyDirector \/ NotifyCaporedattore
    PROVE  OnceInv'
<1>. USE DEF db, disk, local, process, mailed, ledger, faults
<1>1. /\ pc' \in {"accept", "reject"} /\ tag \in Tags
      /\ UNCHANGED <<unfreezes, unfreezing, frozen_threads, warned_threads>>
  BY DEF NotifyDirector, NotifyCaporedattore, Returns, TypeOK, Working
<1>2. ASSUME NEW t \in Tags
      PROVE  /\ Len(notices'[t]) = Len(notices[t]) + At(t, {"notify_director"})
             /\ warnings'[t] = warnings[t] + At(t, {"notify_caporedattore"})
  <2>1. CASE NotifyDirector
    <3>1. /\ pc = "notify_director" /\ warnings' = warnings
          /\ notices' = [notices EXCEPT ![tag] = Append(@, thread_summary(tag))]
      BY <2>1 DEF NotifyDirector, build_freeze_notification
    <3>2. thread_summary(tag) \in Seq(Msgs)
      BY <1>1, SummaryType DEF TypeOK
    <3>3. Len(Append(notices[t], thread_summary(tag))) = Len(notices[t]) + 1
      BY <3>2, OnceTypes, AppendProperties
    <3>4. notices'[t] = IF t = tag THEN Append(notices[t], thread_summary(tag)) ELSE notices[t]
      BY <3>1 DEF TypeOK
    <3>5. /\ At(t, {"notify_director"}) = IF t = tag THEN 1 ELSE 0
          /\ At(t, {"notify_caporedattore"}) = 0
      BY <3>1 DEF At
    <3>6. Len(notices'[t]) = IF t = tag THEN Len(notices[t]) + 1 ELSE Len(notices[t])
      BY <3>3, <3>4
    <3>7. warnings'[t] = warnings[t]
      BY <3>1
    <3>. QED  BY <3>5, <3>6, <3>7, OnceTypes
  <2>2. CASE NotifyCaporedattore
    <3>1. /\ pc = "notify_caporedattore" /\ notices' = notices
          /\ warnings' = [warnings EXCEPT ![tag] = @ + 1]
      BY <2>2 DEF NotifyCaporedattore
    <3>. QED  BY <3>1, OnceTypes DEF At, TypeOK
  <2>. QED  BY <2>1, <2>2
<1>3. ASSUME NEW t \in Tags
      PROVE  /\ At(t, {"notify_director"})' = 0 /\ At(t, {"notify_caporedattore"})' = 0
  BY <1>1 DEF At
<1>. SUFFICES ASSUME NEW t \in Tags
              PROVE  /\ Len(notices'[t]) + At(t, {"notify_director"})'
                          <= unfreezes[t] + (IF t \in frozen_threads THEN 1 ELSE 0)
                     /\ warnings'[t] + At(t, {"notify_caporedattore"})'
                                     + (IF unfreezing[t] = 1 THEN 1 ELSE 0)
                          <= unfreezes[t] + (IF t \in warned_threads THEN 1 ELSE 0)
  BY <1>1 DEF OnceInv
<1>. QED  BY <1>2, <1>3, OnceTypes DEF OnceInv

LEMMA DirectorOnce ==
    ASSUME TypeOK, OnceInv, Director
    PROVE  OnceInv'
<1>. USE DEF db, disk, local, process, mailed, ledger, faults
<1>1. UNCHANGED <<pc, tag, notices, warnings>>
  BY HandlerRests DEF Director, DeleteFrozen, DeleteWarned, DeleteMessages
<1>. SUFFICES ASSUME NEW t \in Tags
              PROVE  /\ Len(notices[t]) + At(t, {"notify_director"})
                          <= unfreezes'[t] + (IF t \in frozen_threads' THEN 1 ELSE 0)
                     /\ warnings[t] + At(t, {"notify_caporedattore"})
                                    + (IF unfreezing'[t] = 1 THEN 1 ELSE 0)
                          <= unfreezes'[t] + (IF t \in warned_threads' THEN 1 ELSE 0)
  BY <1>1 DEF OnceInv, At
<1>2. /\ Len(notices[t]) + At(t, {"notify_director"})
           <= unfreezes[t] + (IF t \in frozen_threads THEN 1 ELSE 0)
      /\ warnings[t] + At(t, {"notify_caporedattore"}) + (IF unfreezing[t] = 1 THEN 1 ELSE 0)
           <= unfreezes[t] + (IF t \in warned_threads THEN 1 ELSE 0)
  BY DEF OnceInv
<1>3. PICK u \in Tags : DeleteFrozen(u) \/ DeleteWarned(u) \/ DeleteMessages(u)
  BY DEF Director
<1>4. CASE DeleteFrozen(u)
  <2>1. /\ u \in frozen_threads /\ unfreezing[u] = 0
        /\ frozen_threads' = frozen_threads \ {u} /\ warned_threads' = warned_threads
        /\ unfreezes'[t] = IF t = u THEN unfreezes[t] + 1 ELSE unfreezes[t]
        /\ unfreezing'[t] = IF t = u THEN 1 ELSE unfreezing[t]
    BY <1>4 DEF DeleteFrozen, TypeOK
  <2>. QED  BY <1>2, <2>1, OnceTypes
<1>5. CASE DeleteWarned(u)
  <2>1. /\ unfreezing[u] = 1
        /\ warned_threads' = warned_threads \ {u} /\ frozen_threads' = frozen_threads
        /\ unfreezes' = unfreezes
        /\ unfreezing'[t] = IF t = u THEN 2 ELSE unfreezing[t]
    BY <1>5 DEF DeleteWarned, TypeOK
  <2>. QED  BY <1>2, <2>1, OnceTypes
<1>6. CASE DeleteMessages(u)
  <2>1. /\ unfreezing[u] = 2
        /\ UNCHANGED <<frozen_threads, warned_threads, unfreezes>>
        /\ unfreezing'[t] = IF t = u THEN 0 ELSE unfreezing[t]
    BY <1>6 DEF DeleteMessages, TypeOK
  <2>. QED  BY <1>2, <2>1, OnceTypes
<1>. QED  BY <1>3, <1>4, <1>5, <1>6

LEMMA OnceStep ==
    ASSUME TypeOK, OnceInv, [Next]_vars
    PROVE  OnceInv'
<1>. DEFINE Due == {"notify_director", "notify_caporedattore"}
<1>1. CASE Freeze \/ Warn \/ NotifyDirector \/ NotifyCaporedattore \/ Director
  BY <1>1, FreezeOnce, WarnOnce, NotifyOnce, DirectorOnce
<1>2. CASE ~(Freeze \/ Warn \/ NotifyDirector \/ NotifyCaporedattore \/ Director)
  <2>1. UNCHANGED <<notices, warnings, unfreezes, unfreezing, frozen_threads, warned_threads>>
    BY <1>2, Writers
  <2>2. UNCHANGED <<pc, tag>> \/ pc' \notin Due
    <3>1. CASE \E m \in Msgs : Begin(m)
      <4>1. PICK m \in Msgs : Begin(m)
        BY <3>1
      <4>2. pc' \in {"reinject", "reject", "is_frozen"}
        BY <4>1, BeginLeaves, EvaluateGoes
      <4>. QED  BY <4>2
    <3>2. CASE CheckFrozen
      <4>1. pc' \in {"hold", "hold_freeze", "record"}
        BY <3>2, Zenon DEF CheckFrozen
      <4>. QED  BY <4>1
    <3>3. CASE HoldFrozen \/ HoldOverBudget \/ RecordMessage \/ Reinject \/ ReinjectPartly \/ Raise
      BY <3>3 DEF HoldFrozen, HoldOverBudget, RecordMessage, Reinject, ReinjectPartly, Raise,
                  AfterReinject, Returns
    <3>4. CASE Reply \/ Crash \/ Restart
      BY <3>4, HandlerEnds
    <3>5. CASE GiveUp \/ UNCHANGED vars
      BY <3>5, HandlerRests
    <3>. QED  BY <1>2, <3>1, <3>2, <3>3, <3>4, <3>5 DEF Next, HandlerStep
  <2>3. \A t \in Tags :
            /\ At(t, {"notify_director"})' <= At(t, {"notify_director"})
            /\ At(t, {"notify_caporedattore"})' <= At(t, {"notify_caporedattore"})
    BY <2>2 DEF At
  <2>. QED  BY <2>1, <2>3, QuietOnce
<1>. QED  BY <1>1, <1>2

\* The director gets at most one freeze notice, and the caporedattore at most
\* one warning, for each time the director gave the thread back, however the
\* DELETEs of the unfreezing fall between the steps of the handler.
THEOREM NotifiedOnceAlways == Spec => []NotifiedOnce
<1>1. TypeOK /\ OnceInv /\ [Next]_vars => OnceInv'
  BY OnceStep
<1>2. TypeOK /\ OnceInv => NotifiedOnce
  <2>. SUFFICES ASSUME TypeOK, OnceInv, NEW t \in Tags
                PROVE  Len(notices[t]) <= 1 + unfreezes[t] /\ warnings[t] <= 1 + unfreezes[t]
    BY DEF NotifiedOnce
  <2>. QED  BY OnceTypes DEF OnceInv
<1>. QED  BY <1>1, <1>2, InitOnce, TypeCorrect, PTL DEF Spec

-----------------------------------------------------------------------------
(* A notice tells the truth.                                               *)

\* What the handler's position says besides the counts: rows and flags are
\* deleted only in an unfreezing, no process runs only after a crash, and a
\* thread is frozen only with the mail that trips the fuse on disk.
StageInv ==
    /\ \A t \in Tags : unfreezing[t] # 0 => unfreezes[t] > 0
    /\ pc = "down" => crashes > 0
    /\ pc = "is_frozen" => verdict \in {"accept", "accept_warn", "freeze"}
    /\ pc = "record" => verdict \in {"accept", "accept_warn"}
    /\ pc \in {"warn", "notify_caporedattore"} => verdict = "accept_warn"
    /\ pc \in {"freeze", "notify_director"} => \E f \in hold : f.tag = tag /\ f.msg = msg

\* The count a verdict was given on, as long as nobody deleted rows since.
CountInv ==
    tag \in Tags /\ unfreezes[tag] = 0 =>
        /\ pc \in {"is_frozen", "record"} /\ verdict = "accept" => message_count(tag) < budget
        /\ pc \in {"is_frozen", "record"} /\ verdict = "accept_warn" =>
                message_count(tag) \in budget .. HardLimit(budget) - 1
        /\ pc \in {"reinject", "warn", "notify_caporedattore"} /\ verdict = "accept_warn" =>
                message_count(tag) \in budget + 1 .. HardLimit(budget)
        /\ \/ pc = "is_frozen" /\ verdict = "freeze"
           \/ pc \in {"hold_freeze", "freeze", "notify_director"}
           => message_count(tag) >= HardLimit(budget)
        /\ pc = "notify_director" => tag \in frozen_threads

LEMMA InitStage == Init => StageInv /\ CountInv
BY DEF Init, StageInv, CountInv

\* In the first life of a thread the director's DELETEs leave it alone.
LEMMA DirectorSpares ==
    ASSUME TypeOK, StageInv, Director, NEW t \in Tags, unfreezes'[t] = 0
    PROVE  /\ unfreezes[t] = 0 /\ unfreezing'[t] = unfreezing[t]
           /\ thread_messages'[t] = thread_messages[t]
           /\ t \in frozen_threads' <=> t \in frozen_threads
           /\ t \in warned_threads' <=> t \in warned_threads
<1>1. PICK u \in Tags : DeleteFrozen(u) \/ DeleteWarned(u) \/ DeleteMessages(u)
  BY DEF Director
<1>2. unfreezes[t] \in Nat /\ unfreezing[t] \in 0 .. 2
  BY DEF TypeOK
<1>3. CASE DeleteFrozen(u)
  <2>1. unfreezes' = [unfreezes EXCEPT ![u] = @ + 1]
    BY <1>3 DEF DeleteFrozen
  <2>2. t # u
    BY <1>2, <2>1 DEF TypeOK
  <2>. QED  BY <1>3, <2>2 DEF DeleteFrozen, TypeOK
<1>4. CASE DeleteWarned(u)
  <2>1. unfreezes' = unfreezes /\ unfreezing[u] = 1
    BY <1>4 DEF DeleteWarned, ledger
  <2>2. t # u
    BY <2>1 DEF StageInv
  <2>. QED  BY <1>4, <2>1, <2>2 DEF DeleteWarned, TypeOK
<1>5. CASE DeleteMessages(u)
  <2>1. unfreezes' = unfreezes /\ unfreezing[u] = 2
    BY <1>5 DEF DeleteMessages
  <2>2. t # u
    BY <2>1 DEF StageInv
  <2>. QED  BY <1>5, <2>1, <2>2 DEF DeleteMessages, TypeOK
<1>. QED  BY <1>1, <1>3, <1>4, <1>5

LEMMA StageStep ==
    ASSUME TypeOK, StageInv, [Next]_vars
    PROVE  StageInv'
<1>. DEFINE Deep == {"warn", "notify_caporedattore", "freeze", "notify_director", "down"}
<1>1. ASSUME NEW t \in Tags, unfreezing'[t] # 0
      PROVE  unfreezes'[t] > 0
  <2>1. CASE ~Director
    BY <1>1, <2>1, Writers DEF StageInv
  <2>2. CASE Director
    <3>1. unfreezes'[t] = 0 => unfreezes[t] = 0 /\ unfreezing[t] # 0
      BY <1>1, <2>2, DirectorSpares
    <3>2. unfreezes'[t] \in Nat
      BY <2>2, OthersType DEF TypeOK
    <3>. QED  BY <3>1, <3>2 DEF StageInv
  <2>. QED  BY <2>1, <2>2
<1>2. CASE \E m \in Msgs : Begin(m)
  <2>1. PICK m \in Msgs : Begin(m)
    BY <1>2
  <2>2. pc' \in {"reinject", "reject"} \/ Evaluate(m)
    BY <2>1 DEF Begin, PassBounce, RejectMismatch
  <2>3. /\ pc' \in {"reinject", "reject", "is_frozen"}
        /\ pc' = "is_frozen" => verdict' \in {"accept", "accept_warn", "freeze"}
    BY <2>2, EvaluateGoes
  <2>. QED  BY <1>1, <2>3 DEF StageInv
<1>3. CASE CheckFrozen
  <2>1. /\ tag \in frozen_threads => pc' = "hold"
        /\ tag \notin frozen_threads /\ verdict = "freeze" => pc' = "hold_freeze"
        /\ tag \notin frozen_threads /\ verdict # "freeze" => pc' = "record"
    BY <1>3, Zenon DEF CheckFrozen
  <2>2. pc = "is_frozen" /\ verdict' = verdict
    BY <1>3 DEF CheckFrozen, local
  <2>. QED  BY <1>1, <2>1, <2>2 DEF StageInv
<1>4. CASE HoldOverBudget
  <2>1. pc' \in {"freeze", "reject"} /\ UNCHANGED <<msg, tag>>
    BY <1>4 DEF HoldOverBudget, WriteHoldFile, Returns, local, tag
  <2>2. \E f \in hold' : f.tag = tag /\ f.msg = msg
    BY <1>4, HoldAdds
  <2>. QED  BY <1>1, <2>1, <2>2 DEF StageInv
<1>5. CASE Freeze
  <2>1. /\ pc = "freeze" /\ pc' \in {"accept", "notify_director", "reject"}
        /\ UNCHANGED <<msg, tag, hold>>
    BY <1>5 DEF Freeze, Returns, local, disk, tag
  <2>. QED  BY <1>1, <2>1 DEF StageInv
<1>6. CASE Reinject \/ ReinjectPartly \/ Warn
  <2>1. /\ pc' \in {"accept", "warn", "notify_caporedattore", "reject"} /\ verdict' = verdict
        /\ pc' = "warn" => verdict = "accept_warn"
        /\ pc' = "notify_caporedattore" => pc = "warn"
    BY <1>6 DEF Reinject, ReinjectPartly, SendTo, AfterReinject, Warn, Returns, local
  <2>. QED  BY <1>1, <2>1 DEF StageInv
<1>7. CASE HoldFrozen \/ RecordMessage \/ NotifyDirector \/ NotifyCaporedattore \/ Raise
  <2>1. pc' \in {"accept", "reject", "reinject"}
    BY <1>7 DEF HoldFrozen, RecordMessage, NotifyDirector, NotifyCaporedattore, Raise, Returns
  <2>. QED  BY <1>1, <2>1 DEF StageInv
<1>8. CASE Reply \/ Crash \/ Restart
  <2>1. crashes \in Nat
    BY DEF TypeOK
  <2>2. /\ pc' \in {"idle", "down"}
        /\ pc' = "down" => crashes' > 0
    BY <1>8, <2>1, HandlerEnds
  <2>. QED  BY <1>1, <2>2 DEF StageInv
<1>9. CASE GiveUp \/ Director \/ UNCHANGED vars
  BY <1>1, <1>9, HandlerRests DEF StageInv
<1>. QED
  BY <1>2, <1>3, <1>4, <1>5, <1>6, <1>7, <1>8, <1>9 DEF Next, HandlerStep

\* A handler that ends, answers, or merely holds the mail says nothing of counts.
LEMMA SettledCount ==
    ASSUME pc' \notin {"is_frozen", "record", "reinject", "warn", "notify_caporedattore",
                      "hold_freeze", "freeze", "notify_director"}
    PROVE  CountInv'
BY DEF CountInv

LEMMA BeginCount ==
    ASSUME TypeOK, NEW m \in Msgs, Begin(m)
    PROVE  CountInv'
<1>1. /\ tag' = ThreadOf(m)
      /\ UNCHANGED <<thread_messages, frozen_threads, budget, unfreezes>>
      /\ message_count(tag') = Len(thread_messages[tag'])
  BY BeginLeaves DEF db, process, ledger, message_count
<1>2. CASE PassBounce(m) \/ RejectMismatch(m)
  BY <1>2 DEF PassBounce, RejectMismatch, CountInv
<1>3. CASE Evaluate(m)
  <2>1. CASE ThreadOf(m) = NoTag
    BY <1>1, <2>1, TagAssumption DEF CountInv
  <2>2. CASE ThreadOf(m) # NoTag
    <3>1. /\ pc' = "is_frozen"
          /\ \/ verdict' = "freeze" /\ Len(thread_messages[tag']) >= HardLimit(budget)
             \/ /\ verdict' = "accept_warn"
                /\ Len(thread_messages[tag']) \in budget .. HardLimit(budget) - 1
             \/ verdict' = "accept" /\ Len(thread_messages[tag']) < budget
      BY <1>1, <1>3, <2>2, EvaluateGoes DEF message_count
    <3>. QED  BY <1>1, <3>1 DEF CountInv, message_count
  <2>. QED  BY <2>1, <2>2
<1>. QED  BY <1>2, <1>3 DEF Begin

\* A call that writes no row: the count the handler goes by is the count.
LEMMA CallCount ==
    ASSUME TypeOK, StageInv, CountInv, HandlerStep \/ ReinjectPartly \/ Raise,
           ~Reply, ~RecordMessage
    PROVE  CountInv'
<1>1. /\ UNCHANGED <<tag, thread_messages, budget, unfreezes, verdict>>
      /\ frozen_threads \subseteq frozen_threads'
  <2>1. tag' = tag /\ verdict' = verdict
    BY CallGoesOn DEF HandlerStep, ReinjectPartly, CheckFrozen, HoldFrozen, HoldOverBudget,
          WriteHoldFile, Freeze, NotifyDirector, Reinject, SendTo, Warn, NotifyCaporedattore,
          Raise, local
  <2>2. UNCHANGED <<thread_messages, budget, unfreezes>>
    BY DEF HandlerStep, ReinjectPartly, CheckFrozen, HoldFrozen, HoldOverBudget,
          WriteHoldFile, Freeze, NotifyDirector, Reinject, SendTo, Warn, NotifyCaporedattore,
          Raise, db, process, ledger
  <2>3. frozen_threads \subseteq frozen_threads'
    BY DEF HandlerStep, ReinjectPartly, CheckFrozen, HoldFrozen, HoldOverBudget,
          WriteHoldFile, Freeze, NotifyDirector, Reinject, SendTo, Warn, NotifyCaporedattore,
          Raise, db
  <2>. QED  BY <2>1, <2>2, <2>3
<1>2. CASE CheckFrozen
  <2>1. /\ pc = "is_frozen" /\ pc' \in {"hold", "hold_freeze", "record"}
        /\ pc' = "hold_freeze" => verdict = "freeze"
    <3>1. /\ tag \in frozen_threads => pc' = "hold"
          /\ tag \notin frozen_threads /\ verdict = "freeze" => pc' = "hold_freeze"
          /\ tag \notin frozen_threads /\ verdict # "freeze" => pc' = "record"
      BY <1>2, Zenon DEF CheckFrozen
    <3>. QED  BY <1>2, <3>1 DEF CheckFrozen
  <2>. QED  BY <1>1, <2>1 DEF CountInv, message_count
<1>3. CASE HoldOverBudget \/ Freeze
  <2>1. /\ pc \in {"hold_freeze", "freeze"}
        /\ pc' \in {"freeze", "notify_director", "accept", "reject"}
        /\ pc' = "notify_director" => tag \in frozen_threads'
    BY <1>3 DEF HoldOverBudget, Freeze, Returns
  <2>. QED  BY <1>1, <2>1 DEF CountInv, message_count
<1>4. CASE Reinject \/ ReinjectPartly \/ Warn
  <2>1. /\ pc \in {"reinject", "warn"}
        /\ pc' \in {"accept", "warn", "notify_caporedattore", "reject"}
    BY <1>4 DEF Reinject, ReinjectPartly, Warn, AfterReinject, Returns
  <2>. QED  BY <1>1, <2>1 DEF CountInv, message_count
<1>5. CASE HoldFrozen \/ NotifyDirector \/ NotifyCaporedattore \/ Raise
  <2>1. pc' \in {"accept", "reject"}
    BY <1>5 DEF HoldFrozen, NotifyDirector, NotifyCaporedattore, Raise, Returns
  <2>. QED  BY <2>1, SettledCount
<1>. QED  BY <1>2, <1>3, <1>4, <1>5 DEF HandlerStep

\* A row moves the thread one mail on, from a count that was below the limit.
LEMMA RecordCount ==
    ASSUME TypeOK, CountInv, RecordMessage
    PROVE  CountInv'
<1>1. /\ pc = "record" /\ pc' \in {"reinject", "reject"} /\ tag \in Tags
      /\ UNCHANGED <<tag, budget, unfreezes, verdict>>
  BY DEF RecordMessage, Returns, TypeOK, Working, tag, local, process
<1>2. /\ Len(thread_messages'[tag]) = Len(thread_messages[tag]) + 1
      /\ Len(thread_messages[tag]) \in Nat
  <2>1. thread_messages[tag] \in Seq(Msgs) /\ msg \in Msgs
    BY <1>1 DEF TypeOK, Working
  <2>. QED  BY <1>1, <2>1, AppendProperties, LenProperties DEF RecordMessage, TypeOK
<1>3. HardLimit(budget) \in Nat /\ budget \in Nat
  BY BudgetFacts DEF TypeOK
<1>4. ASSUME unfreezes[tag] = 0, verdict = "accept_warn"
      PROVE  Len(thread_messages'[tag]) \in budget + 1 .. HardLimit(budget)
  <2>1. Len(thread_messages[tag]) \in budget .. HardLimit(budget) - 1
    BY <1>1, <1>4 DEF CountInv, message_count
  <2>. QED  BY <1>2, <1>3, <2>1
<1>. QED  BY <1>1, <1>4 DEF CountInv, message_count

LEMMA CountStep ==
    ASSUME TypeOK, StageInv, CountInv, [Next]_vars
    PROVE  CountInv'
<1>1. CASE \E m \in Msgs : Begin(m)
  BY <1>1, BeginCount
<1>2. CASE (HandlerStep \/ ReinjectPartly \/ Raise) /\ ~Reply
  BY <1>2, CallCount, RecordCount
<1>3. CASE Reply \/ Crash \/ Restart
  <2>1. pc' \in {"idle", "down"}
    BY <1>3, HandlerEnds
  <2>. QED  BY <2>1, SettledCount
<1>4. CASE Director
  <2>1. ASSUME tag \in Tags, unfreezes'[tag] = 0
        PROVE  /\ unfreezes[tag] = 0 /\ thread_messages'[tag] = thread_messages[tag]
               /\ tag \in frozen_threads' <=> tag \in frozen_threads
    BY <1>4, <2>1, DirectorSpares
  <2>. QED  BY <1>4, <2>1, HandlerRests DEF CountInv, message_count
<1>5. CASE GiveUp \/ UNCHANGED vars
  <2>1. UNCHANGED <<thread_messages, frozen_threads, unfreezes>>
    BY <1>5 DEF GiveUp, vars, db, ledger
  <2>. QED  BY <1>5, <2>1, HandlerRests DEF CountInv, message_count
<1>. QED  BY <1>1, <1>2, <1>3, <1>4, <1>5 DEF Next, HandlerStep

\* A verdict stays true of the thread until the handler has acted on it, as
\* long as nobody deletes rows.
THEOREM CountInvariant == Spec => [](TypeOK /\ StageInv /\ CountInv)
<1>1. TypeOK /\ StageInv /\ CountInv /\ [Next]_vars => StageInv' /\ CountInv'
  BY StageStep, CountStep
<1>. QED  BY <1>1, InitStage, TypeCorrect, PTL DEF Spec

\* In the first life of a thread, what a warning or a freeze notice claims
\* holds when it is sent, though its verdict is some steps old.
THEOREM NoticesTruthful == Spec => []NoticesTellTheTruth
<1>1. TypeOK /\ StageInv /\ CountInv => NoticesTellTheTruth
  <2>. SUFFICES ASSUME TypeOK, StageInv, CountInv PROVE NoticesTellTheTruth
    OBVIOUS
  <2>1. pc \in {"notify_caporedattore", "notify_director"} => tag \in Tags
    BY DEF TypeOK, Working
  <2>. QED  BY <2>1 DEF StageInv, CountInv, NoticesTellTheTruth, HardLimit,
                 build_warning_notification, build_freeze_notification
<1>. QED  BY <1>1, CountInvariant, PTL
=============================================================================
