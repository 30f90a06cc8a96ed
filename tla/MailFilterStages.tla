--------------------------- MODULE MailFilterStages ---------------------------
(***************************************************************************)
(* Theorems about when a thread is silenced and what the freeze notice     *)
(* lists, for every set of tags, mails and budgets and every bound on the  *)
(* faults.                                                                 *)
(***************************************************************************)
EXTENDS MailFilterNotices

-----------------------------------------------------------------------------
(* The numbers of a thread, and what a step does to them.                  *)

Faulted == crashes + errors

LEMMA ThreadTypes ==
    ASSUME TypeOK, NEW t \in Tags
    PROVE  /\ thread_messages[t] \in Seq(Msgs) /\ Len(thread_messages[t]) \in Nat
           /\ delivered[t] \in Seq(Msgs) /\ Len(delivered[t]) \in Nat
           /\ unfreezes[t] \in Nat
           /\ crashes \in Nat /\ errors \in Nat /\ Faulted \in Nat
           /\ InFlight(t) \in {0, 1}
           /\ budget \in Budgets /\ budget \in Nat /\ HardLimit(budget) \in Nat
<1>1. /\ thread_messages[t] \in Seq(Msgs) /\ delivered[t] \in Seq(Msgs)
      /\ unfreezes[t] \in Nat /\ crashes \in Nat /\ errors \in Nat /\ budget \in Budgets
  BY DEF TypeOK, Threads
<1>. QED  BY <1>1, LenProperties, BudgetFacts DEF Faulted, InFlight

LEMMA SumGrows ==
    ASSUME NEW a \in Nat, NEW b \in Nat, NEW c \in Nat, NEW d \in Nat, a <= c, b <= d
    PROVE  a + b <= c + d /\ a + b \in Nat /\ c + d \in Nat
OBVIOUS

LEMMA FaultsGrow ==
    ASSUME TypeOK, [Next]_vars
    PROVE  /\ crashes' \in {crashes, crashes + 1} /\ errors' \in {errors, errors + 1}
           /\ Faulted' >= Faulted /\ Faulted' \in Nat
<1>1. crashes \in Nat /\ errors \in Nat
  BY DEF TypeOK
<1>2. crashes' \in {crashes, crashes + 1} /\ errors' \in {errors, errors + 1}
  <2>1. CASE \E m \in Msgs : Begin(m)
    BY <2>1, BeginLeaves DEF faults
  <2>2. CASE (HandlerStep \/ ReinjectPartly \/ Raise) /\ ~Reply
    BY <2>2, CallGoesOn
  <2>3. CASE Reply \/ Crash \/ Restart
    BY <2>3, HandlerEnds
  <2>4. CASE GiveUp \/ Director \/ UNCHANGED vars
    BY <2>4, HandlerRests
  <2>. QED  BY <2>1, <2>2, <2>3, <2>4 DEF Next, HandlerStep
<1>3. /\ crashes' \in Nat /\ errors' \in Nat
      /\ crashes' >= crashes /\ errors' >= errors
  BY <1>1, <1>2
<1>. QED  BY <1>1, <1>2, <1>3, SumGrows DEF Faulted

\* A thread in its first life was in it before the step, and lost no flag.
LEMMA FirstLife ==
    ASSUME TypeOK, StageInv, [Next]_vars, NEW t \in Tags, unfreezes'[t] = 0
    PROVE  /\ unfreezes[t] = 0
           /\ t \in warned_threads => t \in warned_threads'
           /\ t \in frozen_threads => t \in frozen_threads'
           /\ t \in frozen_threads' => t \in frozen_threads \/ (Freeze /\ t = tag)
<1>1. CASE Director
  BY <1>1, DirectorSpares
<1>2. CASE Freeze
  BY <1>2 DEF Freeze, db, ledger
<1>3. CASE Warn
  BY <1>3, Writers DEF Warn, db, ledger
<1>4. CASE ~Director /\ ~Freeze /\ ~Warn
  BY <1>4, Writers
<1>. QED  BY <1>1, <1>2, <1>3, <1>4

\* What a row does to the counts.
LEMMA RecordRows ==
    ASSUME TypeOK, RecordMessage
    PROVE  /\ pc = "record" /\ pc' \in {"reinject", "reject"} /\ tag \in Tags /\ msg \in Msgs
           /\ pc' = "reject" => errors' = errors + 1
           /\ UNCHANGED <<tag, msg, verdict, crashes, delivered, frozen_threads>>
           /\ thread_messages'[tag] = Append(thread_messages[tag], msg)
           /\ Len(thread_messages'[tag]) = Len(thread_messages[tag]) + 1
           /\ charged'[tag] = charged[tag] + 1
           /\ \A t \in Tags : t # tag => /\ thread_messages'[t] = thread_messages[t]
                                         /\ charged'[t] = charged[t]
<1>1. /\ pc = "record" /\ pc' \in {"reinject", "reject"} /\ tag \in Tags /\ msg \in Msgs
      /\ pc' = "reject" => errors' = errors + 1
      /\ UNCHANGED <<tag, msg, verdict, crashes, delivered, frozen_threads>>
  BY DEF RecordMessage, Returns, TypeOK, Working, tag, local, mailed
<1>2. thread_messages[tag] \in Seq(Msgs)
  BY <1>1 DEF TypeOK
<1>3. /\ thread_messages'[tag] = Append(thread_messages[tag], msg)
      /\ charged'[tag] = charged[tag] + 1
      /\ \A t \in Tags : t # tag => /\ thread_messages'[t] = thread_messages[t]
                                    /\ charged'[t] = charged[t]
  BY <1>1 DEF RecordMessage, TypeOK
<1>. QED  BY <1>1, <1>2, <1>3, AppendProperties

\* A call that neither writes a row nor re-injects leaves both counts alone, and
\* ends a re-injection only by an error.
LEMMA OtherCalls ==
    ASSUME TypeOK, StageInv, [Next]_vars, NEW t \in Tags, unfreezes'[t] = 0,
           ~RecordMessage, ~(Reinject \/ ReinjectPartly)
    PROVE  /\ thread_messages'[t] = thread_messages[t] /\ delivered'[t] = delivered[t]
           /\ Faulted' + InFlight(t)' >= Faulted + InFlight(t)
<1>1. thread_messages'[t] = thread_messages[t]
  BY Writers, DirectorSpares
<1>2. delivered' = delivered
  BY OnlySendingDelivers
<1>3. Faulted' + InFlight(t)' >= Faulted + InFlight(t)
  <2>1. /\ Faulted' >= Faulted /\ Faulted' \in Nat /\ Faulted \in Nat
        /\ InFlight(t) \in {0, 1} /\ InFlight(t)' \in {0, 1}
    BY FaultsGrow, ThreadTypes DEF InFlight
  <2>2. CASE UNCHANGED <<pc, tag>> \/ pc # "reinject"
    <3>1. InFlight(t)' >= InFlight(t)
      BY <2>2 DEF InFlight
    <3>. QED  BY <2>1, <3>1, SumGrows
  <2>3. CASE Raise \/ Crash
    <3>1. \/ crashes' = crashes + 1 /\ errors' = errors
          \/ crashes' = crashes /\ errors' = errors + 1
      BY <2>3 DEF Raise, Crash
    <3>2. Faulted' = Faulted + 1
      <4>1. crashes \in Nat /\ errors \in Nat
        BY ThreadTypes
      <4>. QED  BY <3>1, <4>1 DEF Faulted
    <3>. QED  BY <2>1, <3>2
  <2>. QED  BY <2>2, <2>3, HandlerRests
            DEF Next, HandlerStep, Begin, PassBounce, RejectMismatch, Evaluate, Receive,
                CheckFrozen, HoldFrozen, HoldOverBudget, Freeze, NotifyDirector, Warn,
                NotifyCaporedattore, Reply, Restart, Answering
<1>. QED  BY <1>1, <1>2, <1>3

-----------------------------------------------------------------------------
(* A thread is never silenced early.                                       *)

\* In the first life of a thread a row without a delivery is one about to be
\* delivered, or was paid for by a crash or an error.
ShortInv ==
    \A t \in Tags : unfreezes[t] = 0 =>
        Len(thread_messages[t]) <= Len(delivered[t]) + Faulted + InFlight(t)

LEMMA InitShort == Init => ShortInv /\ NeverSilencedEarly
<1>1. Len(<<>>) = 0
  OBVIOUS
<1>. SUFFICES ASSUME Init PROVE ShortInv /\ NeverSilencedEarly
  OBVIOUS
<1>2. frozen_threads = {} /\ pc = "idle" /\ crashes = 0 /\ errors = 0
  BY DEF Init
<1>3. \A t \in Tags : thread_messages[t] = <<>> /\ delivered[t] = <<>>
  BY DEF Init, Threads
<1>. QED  BY <1>1, <1>2, <1>3 DEF ShortInv, NeverSilencedEarly, Faulted, InFlight

\* A row more is in flight or an error, a delivery more was in flight.
LEMMA Balance ==
    ASSUME NEW rows \in Nat, NEW sent \in Nat, NEW lost \in Nat, NEW flying \in Nat,
           NEW rows2 \in Nat, NEW sent2 \in Nat, NEW lost2 \in Nat, NEW flying2 \in Nat,
           rows <= sent + lost + flying,
           \/ rows2 = rows /\ sent2 = sent /\ lost2 + flying2 >= lost + flying
           \/ rows2 = rows /\ sent2 = sent /\ flying = 0 /\ lost2 >= lost
           \/ rows2 = rows + 1 /\ sent2 = sent /\ flying = 0 /\ lost2 >= lost /\ flying2 = 1
           \/ rows2 = rows + 1 /\ sent2 = sent /\ flying = 0 /\ lost2 >= lost + 1
           \/ rows2 = rows /\ sent2 = sent + 1 /\ flying <= 1 /\ lost2 >= lost
    PROVE  rows2 <= sent2 + lost2 + flying2
OBVIOUS

LEMMA ShortStep ==
    ASSUME TypeOK, TypeOK', FuseInv, StageInv, ShortInv, [Next]_vars
    PROVE  ShortInv'
<1>. SUFFICES ASSUME NEW t \in Tags, unfreezes'[t] = 0
              PROVE  Len(thread_messages'[t]) <= Len(delivered'[t]) + Faulted' + InFlight(t)'
  BY DEF ShortInv
<1>1. Len(thread_messages[t]) <= Len(delivered[t]) + Faulted + InFlight(t)
  BY FirstLife DEF ShortInv
<1>2. /\ Len(thread_messages[t]) \in Nat /\ Len(thread_messages'[t]) \in Nat
      /\ Len(delivered[t]) \in Nat /\ Len(delivered'[t]) \in Nat
      /\ Faulted \in Nat /\ Faulted' \in Nat /\ Faulted' >= Faulted
      /\ InFlight(t) \in Nat /\ InFlight(t)' \in Nat
  <2>1. thread_messages'[t] \in Seq(Msgs) /\ delivered'[t] \in Seq(Msgs)
    BY DEF TypeOK, Threads
  <2>2. InFlight(t) \in Nat /\ InFlight(t)' \in Nat
    BY DEF InFlight
  <2>. QED  BY <2>1, <2>2, ThreadTypes, FaultsGrow, LenProperties
<1>3. CASE RecordMessage
  <2>1. CASE t = tag
    <3>1. /\ Len(thread_messages'[t]) = Len(thread_messages[t]) + 1
          /\ Len(delivered'[t]) = Len(delivered[t]) /\ InFlight(t) = 0
      BY <1>3, <2>1, RecordRows DEF InFlight
    <3>2. InFlight(t)' = 1 \/ Faulted' >= Faulted + 1
      <4>1. CASE pc' = "reinject"
        BY <1>3, <2>1, <4>1, RecordRows DEF InFlight
      <4>2. CASE pc' = "reject"
        <5>1. crashes' = crashes /\ errors' = errors + 1 /\ crashes \in Nat /\ errors \in Nat
          BY <1>3, <4>2, RecordRows, ThreadTypes
        <5>. QED  BY <5>1 DEF Faulted
      <4>. QED  BY <1>3, <4>1, <4>2, RecordRows
    <3>. QED  BY <1>1, <1>2, <3>1, <3>2, Balance
  <2>2. CASE t # tag
    <3>1. /\ thread_messages'[t] = thread_messages[t] /\ delivered'[t] = delivered[t]
          /\ InFlight(t) = 0 /\ InFlight(t)' = 0
      BY <1>3, <2>2, RecordRows DEF InFlight
    <3>. QED  BY <1>1, <1>2, <3>1, Balance
  <2>. QED  BY <2>1, <2>2
<1>4. CASE Reinject \/ ReinjectPartly
  <2>1. InFlight(t)' = 0 /\ thread_messages'[t] = thread_messages[t]
    BY <1>4, SendDelivers DEF InFlight
  <2>2. CASE t = tag
    <3>1. Len(delivered'[t]) = Len(delivered[t]) + 1 /\ InFlight(t) <= 1
      BY <1>4, <2>2, SendDelivers DEF InFlight
    <3>. QED  BY <1>1, <1>2, <2>1, <3>1, Balance
  <2>3. CASE t # tag
    <3>1. delivered'[t] = delivered[t] /\ InFlight(t) = 0
      BY <1>4, <2>3, SendDelivers DEF InFlight
    <3>. QED  BY <1>1, <1>2, <2>1, <3>1, Balance
  <2>. QED  BY <2>2, <2>3
<1>5. CASE ~RecordMessage /\ ~(Reinject \/ ReinjectPartly)
  BY <1>1, <1>2, <1>5, OtherCalls, Balance
<1>. QED  BY <1>3, <1>4, <1>5

\* What was delivered and what failed only grow.
LEMMA DeliveriesGrow ==
    ASSUME TypeOK, FuseInv, [Next]_vars, NEW t \in Tags
    PROVE  Len(delivered'[t]) \in Nat /\ Len(delivered'[t]) >= Len(delivered[t])
<1>1. CASE Reinject \/ ReinjectPartly
  BY <1>1, SendDelivers, ThreadTypes
<1>2. CASE ~(Reinject \/ ReinjectPartly)
  BY <1>2, OnlySendingDelivers, ThreadTypes
<1>. QED  BY <1>1, <1>2

\* Where the fuse trips, the rows have reached the limit of the budget in use.
LEMMA FreezeAtLimit ==
    ASSUME TypeOK, CountInv, Freeze, unfreezes[tag] = 0
    PROVE  /\ tag \in Tags /\ pc = "freeze" /\ UNCHANGED <<budget, delivered, warned_threads>>
           /\ Len(thread_messages[tag]) >= HardLimit(budget)
<1>1. /\ tag \in Tags /\ pc = "freeze" /\ UNCHANGED <<budget, delivered, warned_threads>>
  BY DEF Freeze, TypeOK, Working, process, mailed
<1>. QED  BY <1>1 DEF CountInv, message_count

LEMMA NeverSilencedStep ==
    ASSUME TypeOK, TypeOK', FuseInv, StageInv, CountInv, ShortInv, NeverSilencedEarly,
           [Next]_vars
    PROVE  NeverSilencedEarly'
<1>. SUFFICES ASSUME NEW t \in Tags, t \in frozen_threads', unfreezes'[t] = 0
              PROVE  \E b \in Budgets : Len(delivered'[t]) + crashes' + errors' >= HardLimit(b)
  BY DEF NeverSilencedEarly, TypeOK
<1>1. \E b \in Budgets : Len(delivered[t]) + Faulted >= HardLimit(b)
  <2>1. CASE t \in frozen_threads
    <3>1. \E b \in Budgets : Len(delivered[t]) + crashes + errors >= HardLimit(b)
      BY <2>1, FirstLife DEF NeverSilencedEarly
    <3>2. Len(delivered[t]) + crashes + errors = Len(delivered[t]) + Faulted
      BY ThreadTypes DEF Faulted
    <3>. QED  BY <3>1, <3>2
  <2>2. CASE t \notin frozen_threads
    <3>1. Freeze /\ t = tag /\ unfreezes[t] = 0
      BY <2>2, FirstLife
    <3>2. pc = "freeze" /\ Len(thread_messages[t]) >= HardLimit(budget)
      BY <3>1, FreezeAtLimit
    <3>3. InFlight(t) = 0
      BY <3>2 DEF InFlight
    <3>4. Len(thread_messages[t]) <= Len(delivered[t]) + Faulted
      BY <3>1, <3>3, ThreadTypes DEF ShortInv
    <3>5. Len(delivered[t]) + Faulted >= HardLimit(budget)
      BY <3>2, <3>4, ThreadTypes
    <3>. QED  BY <3>5, ThreadTypes
  <2>. QED  BY <2>1, <2>2
<1>2. PICK b \in Budgets : Len(delivered[t]) + Faulted >= HardLimit(b)
  BY <1>1
<1>3. Len(delivered'[t]) + Faulted' >= Len(delivered[t]) + Faulted
  BY DeliveriesGrow, FaultsGrow, ThreadTypes, SumGrows
<1>4. Len(delivered'[t]) + crashes' + errors' = Len(delivered'[t]) + Faulted'
  <2>1. crashes' \in Nat /\ errors' \in Nat /\ Len(delivered'[t]) \in Nat
    BY DeliveriesGrow DEF TypeOK
  <2>2. \A x, y, z \in Nat : x + y + z = x + (y + z)
    OBVIOUS
  <2>. QED  BY <2>1, <2>2 DEF Faulted
<1>5. Len(delivered'[t]) + crashes' + errors' >= HardLimit(b)
  BY <1>2, <1>3, <1>4, DeliveriesGrow, FaultsGrow, ThreadTypes, BudgetFacts
<1>. QED  BY <1>5

\* In the first life of a thread, it falls silent only after the budget and the
\* grace margin of some budget in use were delivered, less one mail for each
\* crash or error.
THEOREM SilencedAtLimit == Spec => []NeverSilencedEarly
<1>1. /\ TypeOK /\ FuseInv /\ StageInv /\ CountInv /\ ShortInv /\ NeverSilencedEarly
      /\ TypeOK' /\ [Next]_vars
      => ShortInv' /\ NeverSilencedEarly'
  BY ShortStep, NeverSilencedStep
<1>. QED  BY <1>1, InitShort, FuseInvariant, CountInvariant, PTL DEF Spec

-----------------------------------------------------------------------------
(* The fuse has two stages.                                                *)

\* The warning due for the mail in flight.
WarningDue(t) ==
    IF verdict = "accept_warn" /\ pc \in {"reinject", "warn"} /\ tag = t THEN 1 ELSE 0

\* A thread nobody was warned of has no more rows than some budget in use,
\* but for the faults and a mail whose warning is still to come.
UnwarnedInv ==
    \A t \in Tags : unfreezes[t] = 0 /\ t \notin warned_threads =>
        \E b \in Budgets :
            /\ Len(thread_messages[t]) <= b + Faulted + WarningDue(t)
            /\ crashes = 0 => b = budget

LEMMA InitUnwarned == Init => UnwarnedInv /\ TwoStages
<1>1. Len(<<>>) = 0
  OBVIOUS
<1>. SUFFICES ASSUME Init PROVE UnwarnedInv /\ TwoStages
  OBVIOUS
<1>2. /\ frozen_threads = {} /\ pc = "idle" /\ crashes = 0 /\ errors = 0
      /\ budget \in Budgets /\ budget \in Nat
  BY BudgetFacts DEF Init
<1>3. ASSUME NEW t \in Tags
      PROVE  Len(thread_messages[t]) <= budget + Faulted + WarningDue(t)
  <2>1. Len(thread_messages[t]) = 0 /\ Faulted = 0 /\ WarningDue(t) = 0
    BY <1>1, <1>2 DEF Init, Faulted, WarningDue
  <2>. QED  BY <1>2, <2>1
<1>. QED  BY <1>2, <1>3 DEF UnwarnedInv, TwoStages

\* Where a warning that was due went: sent, still due, or lost to a fault.
LEMMA WarningsKept ==
    ASSUME TypeOK, StageInv, [Next]_vars, ~RecordMessage, NEW t \in Tags, t \notin warned_threads'
    PROVE  WarningDue(t) = 1 =>
              \/ WarningDue(t)' = 1
              \/ Faulted' = Faulted + 1
<1>. SUFFICES ASSUME verdict = "accept_warn", pc \in {"reinject", "warn"}, tag = t
              PROVE  WarningDue(t)' = 1 \/ Faulted' = Faulted + 1
  BY DEF WarningDue
<1>0. crashes \in Nat /\ errors \in Nat
  BY DEF TypeOK
<1>1. ASSUME errors' = errors + 1, crashes' = crashes
      PROVE  Faulted' = Faulted + 1
  BY <1>0, <1>1 DEF Faulted
<1>2. CASE Reinject \/ ReinjectPartly
  <2>1. /\ verdict' = verdict /\ tag' = tag /\ crashes' = crashes
        /\ pc' = "warn" \/ errors' = errors + 1
    BY <1>2 DEF Reinject, ReinjectPartly, SendTo, AfterReinject, Returns, local, tag
  <2>. QED  BY <1>1, <2>1 DEF WarningDue
<1>3. CASE Warn
  BY <1>3 DEF Warn
<1>4. CASE Raise
  BY <1>1, <1>4 DEF Raise
<1>5. CASE Crash
  BY <1>0, <1>5 DEF Crash, Faulted
<1>6. CASE GiveUp \/ Director \/ UNCHANGED vars
  BY <1>6, HandlerRests DEF WarningDue
<1>. QED
  BY <1>2, <1>3, <1>4, <1>5, <1>6
     DEF Next, HandlerStep, Begin, PassBounce, RejectMismatch, Evaluate, Receive,
         CheckFrozen, HoldFrozen, HoldOverBudget, Freeze, NotifyDirector, RecordMessage,
         NotifyCaporedattore, Reply, Restart, Answering

\* A row more is within the budget, or has a warning due, or failed.
LEMMA UnwarnedBalance ==
    ASSUME NEW rows \in Nat, NEW b \in Nat, NEW lost \in Nat, NEW due \in 0 .. 1,
           NEW rows2 \in Nat, NEW lost2 \in Nat, NEW due2 \in 0 .. 1,
           rows <= b + lost + due, lost2 >= lost,
           \/ rows2 = rows /\ (due = 1 => due2 = 1 \/ lost2 = lost + 1)
           \/ rows2 = rows + 1 /\ due = 0 /\ (due2 = 1 \/ lost2 = lost + 1)
    PROVE  rows2 <= b + lost2 + due2
OBVIOUS

LEMMA UnwarnedStep ==
    ASSUME TypeOK, TypeOK', StageInv, CountInv, UnwarnedInv, [Next]_vars
    PROVE  UnwarnedInv'
<1>. SUFFICES ASSUME NEW t \in Tags, unfreezes'[t] = 0, t \notin warned_threads'
              PROVE  \E b \in Budgets :
                        /\ Len(thread_messages'[t]) <= b + Faulted' + WarningDue(t)'
                        /\ crashes' = 0 => b = budget'
  BY DEF UnwarnedInv
<1>1. unfreezes[t] = 0 /\ t \notin warned_threads
  BY FirstLife
<1>2. PICK b \in Budgets : /\ Len(thread_messages[t]) <= b + Faulted + WarningDue(t)
                           /\ crashes = 0 => b = budget
  BY <1>1 DEF UnwarnedInv
<1>3. /\ b \in Nat /\ Len(thread_messages[t]) \in Nat /\ Len(thread_messages'[t]) \in Nat
      /\ Faulted \in Nat /\ Faulted' \in Nat /\ Faulted' >= Faulted
      /\ WarningDue(t) \in 0 .. 1 /\ WarningDue(t)' \in 0 .. 1
      /\ budget \in Nat /\ budget' \in Budgets
  <2>1. thread_messages'[t] \in Seq(Msgs) /\ budget' \in Budgets
    BY DEF TypeOK
  <2>2. WarningDue(t) \in 0 .. 1 /\ WarningDue(t)' \in 0 .. 1
    BY DEF WarningDue
  <2>. QED  BY <2>1, <2>2, ThreadTypes, FaultsGrow, LenProperties, BudgetFacts
<1>4. crashes' = 0 => b = budget'
  <2>1. Restart => crashes # 0 /\ crashes' = crashes
    BY DEF Restart, StageInv, faults
  <2>2. crashes' = 0 => crashes = 0
    BY FaultsGrow, ThreadTypes
  <2>. QED  BY <1>2, <2>1, <2>2, Writers
<1>5. CASE ~RecordMessage
  <2>1. Len(thread_messages'[t]) = Len(thread_messages[t])
    BY <1>5, Writers, DirectorSpares
  <2>2. WarningDue(t) = 1 => WarningDue(t)' = 1 \/ Faulted' = Faulted + 1
    BY <1>5, WarningsKept
  <2>3. Len(thread_messages'[t]) <= b + Faulted' + WarningDue(t)'
    BY <1>2, <1>3, <2>1, <2>2, UnwarnedBalance
  <2>. QED  BY <1>4, <2>3
<1>6. CASE RecordMessage /\ t # tag
  <2>1. Len(thread_messages'[t]) = Len(thread_messages[t]) /\ WarningDue(t) = 0
    BY <1>6, RecordRows DEF WarningDue
  <2>2. Len(thread_messages'[t]) <= b + Faulted' + WarningDue(t)'
    BY <1>2, <1>3, <2>1, UnwarnedBalance
  <2>. QED  BY <1>4, <2>2
<1>7. CASE RecordMessage /\ t = tag /\ verdict = "accept_warn"
  <2>1. /\ Len(thread_messages'[t]) = Len(thread_messages[t]) + 1 /\ WarningDue(t) = 0
        /\ WarningDue(t)' = 1 \/ (pc' = "reject" /\ crashes' = crashes /\ errors' = errors + 1)
    BY <1>7, RecordRows DEF WarningDue
  <2>2. WarningDue(t)' = 1 \/ Faulted' = Faulted + 1
    BY <2>1, ThreadTypes DEF Faulted
  <2>3. Len(thread_messages'[t]) <= b + Faulted' + WarningDue(t)'
    BY <1>2, <1>3, <2>1, <2>2, UnwarnedBalance
  <2>. QED  BY <1>4, <2>3
<1>8. CASE RecordMessage /\ t = tag /\ verdict # "accept_warn"
  <2>1. Len(thread_messages[t]) < budget
    BY <1>1, <1>8, RecordRows DEF StageInv, CountInv, message_count
  <2>2. Len(thread_messages'[t]) = Len(thread_messages[t]) + 1 /\ budget' = budget
    BY <1>8, RecordRows DEF RecordMessage, process
  <2>3. Len(thread_messages'[t]) <= budget
    BY <1>3, <2>1, <2>2
  <2>4. \A n, c, f \in Nat : \A w \in 0 .. 1 : n <= c => n <= c + f + w
    OBVIOUS
  <2>. QED  BY <1>3, <2>2, <2>3, <2>4
<1>. QED  BY <1>5, <1>6, <1>7, <1>8

LEMMA TwoStagesStep ==
    ASSUME TypeOK, TypeOK', StageInv, CountInv, UnwarnedInv, TwoStages, [Next]_vars
    PROVE  TwoStages'
<1>. SUFFICES ASSUME NEW t \in Tags, t \in frozen_threads', unfreezes'[t] = 0,
                     t \notin warned_threads'
              PROVE  \E warn, trip \in Budgets :
                        /\ warn + crashes' + errors' >= HardLimit(trip)
                        /\ crashes' = 0 => warn = budget' /\ trip = budget'
  BY DEF TwoStages, TypeOK
<1>1. unfreezes[t] = 0 /\ t \notin warned_threads
  BY FirstLife
<1>2. \E warn, trip \in Budgets : /\ warn + crashes + errors >= HardLimit(trip)
                                  /\ crashes = 0 => warn = budget /\ trip = budget
  <2>1. CASE t \in frozen_threads
    BY <1>1, <2>1 DEF TwoStages
  <2>2. CASE t \notin frozen_threads
    <3>1. Freeze /\ t = tag
      BY <2>2, FirstLife
    <3>2. pc = "freeze" /\ Len(thread_messages[t]) >= HardLimit(budget)
      BY <1>1, <3>1, FreezeAtLimit
    <3>3. WarningDue(t) = 0
      BY <3>2 DEF WarningDue
    <3>4. PICK b \in Budgets : /\ Len(thread_messages[t]) <= b + Faulted + WarningDue(t)
                               /\ crashes = 0 => b = budget
      BY <1>1 DEF UnwarnedInv
    <3>5. b + crashes + errors >= HardLimit(budget)
      <4>1. b \in Nat /\ crashes \in Nat /\ errors \in Nat
        BY ThreadTypes, BudgetFacts
      <4>2. \A n, l, c, x, y \in Nat : n >= l /\ n <= c + (x + y) + 0 => c + x + y >= l
        OBVIOUS
      <4>3. Len(thread_messages[t]) \in Nat /\ HardLimit(budget) \in Nat
        BY ThreadTypes
      <4>4. Len(thread_messages[t]) <= b + (crashes + errors) + 0
        BY <3>3, <3>4 DEF Faulted
      <4>. QED  BY <3>2, <4>1, <4>2, <4>3, <4>4
    <3>. QED  BY <3>4, <3>5, ThreadTypes
  <2>. QED  BY <2>1, <2>2
<1>3. PICK warn, trip \in Budgets : /\ warn + crashes + errors >= HardLimit(trip)
                                    /\ crashes = 0 => warn = budget /\ trip = budget
  BY <1>2
<1>4. warn + crashes' + errors' >= HardLimit(trip)
  <2>1. /\ warn \in Nat /\ HardLimit(trip) \in Nat /\ crashes \in Nat /\ errors \in Nat
        /\ crashes' \in Nat /\ errors' \in Nat
    BY BudgetFacts DEF TypeOK
  <2>2. crashes' >= crashes /\ errors' >= errors
    BY <2>1, FaultsGrow
  <2>3. \A w, l, x, y, x2, y2 \in Nat : w + x + y >= l /\ x2 >= x /\ y2 >= y => w + x2 + y2 >= l
    OBVIOUS
  <2>. QED  BY <1>3, <2>1, <2>2, <2>3
<1>5. crashes' = 0 => warn = budget' /\ trip = budget'
  <2>1. Restart => crashes # 0 /\ crashes' = crashes
    BY DEF Restart, StageInv, faults
  <2>2. crashes' = 0 => crashes = 0
    BY FaultsGrow, ThreadTypes
  <2>. QED  BY <1>3, <2>1, <2>2, Writers
<1>. QED  BY <1>4, <1>5

\* In the first life of a thread, it is frozen without a warning only if crashes
\* and errors ate what lies between the budget it would have been warned at and
\* the limit it was frozen at: the grace margin, unless a restart changed the
\* budget in between.
THEOREM TwoStagesAlways == Spec => []TwoStages
<1>1. /\ TypeOK /\ StageInv /\ CountInv /\ UnwarnedInv /\ TwoStages
      /\ TypeOK' /\ [Next]_vars
      => UnwarnedInv' /\ TwoStages'
  BY UnwarnedStep, TwoStagesStep
<1>. QED  BY <1>1, InitUnwarned, CountInvariant, PTL DEF Spec

-----------------------------------------------------------------------------
(* The freeze notice accounts for the deliveries.                          *)

\* In the first life of a thread every row was charged; every mail delivered,
\* or about to be, has one; without faults rows and deliveries are the same, but
\* for the mail in flight; and the last notice still lists the rows, because a
\* thread that got one is frozen and takes no more.
RowsInv ==
    /\ \A t \in Tags : unfreezes[t] = 0 =>
        /\ charged[t] = Len(thread_messages[t])
        /\ Range(delivered[t]) \subseteq Range(thread_messages[t])
        /\ Faulted = 0 /\ InFlight(t) = 1 => thread_messages[t] = Append(delivered[t], msg)
        /\ Faulted = 0 /\ InFlight(t) = 0 => thread_messages[t] = delivered[t]
        /\ notices[t] # <<>> => t \in frozen_threads /\ Last(notices[t]) = thread_summary(t)
    /\ pc = "reinject" /\ tag \in Tags /\ unfreezes[tag] = 0 =>
            msg \in Range(thread_messages[tag])

LEMMA InitRows == Init => RowsInv
<1>1. Len(<<>>) = 0 /\ Range(<<>>) = {}
  BY DEF Range
<1>. SUFFICES ASSUME Init PROVE RowsInv
  OBVIOUS
<1>2. pc = "idle"
  BY DEF Init
<1>3. \A t \in Tags : /\ thread_messages[t] = <<>> /\ delivered[t] = <<>>
                      /\ charged[t] = 0 /\ notices[t] = <<>>
  BY DEF Init, Threads
<1>. QED  BY <1>1, <1>2, <1>3 DEF RowsInv, InFlight

\* The notices are still what the rows are.
LEMMA NoticeStep ==
    ASSUME TypeOK, FuseInv, StageInv, CountInv, RowsInv, [Next]_vars,
           NEW t \in Tags, unfreezes'[t] = 0, notices'[t] # <<>>
    PROVE  t \in frozen_threads' /\ Last(notices'[t]) = thread_summary(t)'
<1>1. unfreezes[t] = 0 /\ (t \in frozen_threads => t \in frozen_threads')
  BY FirstLife
<1>2. ASSUME thread_messages'[t] = thread_messages[t]
      PROVE  thread_summary(t)' = thread_summary(t)
  BY <1>2 DEF thread_summary
<1>3. CASE NotifyDirector /\ t = tag
  <2>1. /\ pc = "notify_director" /\ thread_messages' = thread_messages
        /\ notices' = [notices EXCEPT ![tag] = Append(@, thread_summary(tag))]
    BY <1>3 DEF NotifyDirector, build_freeze_notification, db
  <2>2. notices[t] \in Seq(Seq(Msgs)) /\ thread_summary(t) \in Seq(Msgs)
    BY OnceTypes, SummaryType DEF TypeOK
  <2>3. notices'[t] = Append(notices[t], thread_summary(t))
    BY <1>3, <2>1 DEF TypeOK
  <2>4. Last(notices'[t]) = thread_summary(t)
    BY <2>2, <2>3, AppendProperties DEF Last
  <2>5. t \in frozen_threads
    BY <1>1, <1>3, <2>1 DEF CountInv
  <2>. QED  BY <1>1, <1>2, <2>1, <2>4, <2>5
<1>4. CASE ~(NotifyDirector /\ t = tag)
  <2>1. notices'[t] = notices[t]
    <3>1. CASE NotifyDirector
      BY <1>4, <3>1 DEF NotifyDirector, TypeOK
    <3>2. CASE ~NotifyDirector
      BY <3>2, Writers
    <3>. QED  BY <3>1, <3>2
  <2>2. t \in frozen_threads /\ Last(notices[t]) = thread_summary(t)
    BY <1>1, <2>1 DEF RowsInv
  <2>3. thread_messages'[t] = thread_messages[t]
    <3>1. CASE RecordMessage
      <4>1. t # tag
        BY <2>2, <3>1, RecordRows DEF FuseInv
      <4>. QED  BY <3>1, <4>1, RecordRows
    <3>2. CASE ~RecordMessage
      BY <3>2, Writers, DirectorSpares
    <3>. QED  BY <3>1, <3>2
  <2>. QED  BY <1>1, <1>2, <2>1, <2>2, <2>3
<1>. QED  BY <1>3, <1>4

\* A handler comes to re-inject a tagged mail only by recording it.
LEMMA IntoReinject ==
    ASSUME TypeOK, [Next]_vars, ~RecordMessage, pc' = "reinject"
    PROVE  tag' = NoTag \/ UNCHANGED <<pc, tag, msg>>
<1>1. CASE \E m \in Msgs : Begin(m)
  <2>1. PICK m \in Msgs : Begin(m)
    BY <1>1
  <2>2. CASE PassBounce(m)
    BY <2>1, <2>2, BeginLeaves DEF PassBounce, ThreadOf
  <2>3. CASE RejectMismatch(m)
    BY <2>3 DEF RejectMismatch
  <2>4. CASE Evaluate(m)
    BY <2>1, <2>4, BeginLeaves, EvaluateGoes
  <2>. QED  BY <2>1, <2>2, <2>3, <2>4 DEF Begin
<1>2. CASE CheckFrozen
  <2>1. pc' \in {"hold", "hold_freeze", "record"}
    BY <1>2, Zenon DEF CheckFrozen
  <2>. QED  BY <2>1
<1>3. CASE GiveUp \/ Director \/ UNCHANGED vars
  BY <1>3, HandlerRests
<1>4. CASE Reply \/ Crash \/ Restart
  BY <1>4, HandlerEnds
<1>5. CASE Reinject \/ ReinjectPartly
  BY <1>5 DEF Reinject, ReinjectPartly, AfterReinject, Returns
<1>. QED
  BY <1>1, <1>2, <1>3, <1>4, <1>5
     DEF Next, HandlerStep, HoldFrozen, HoldOverBudget, Freeze, NotifyDirector, Warn,
         NotifyCaporedattore, Raise, Returns

\* The part of RowsInv about one thread that no notice is involved in.
Rows(t) ==
    /\ charged[t] = Len(thread_messages[t])
    /\ Range(delivered[t]) \subseteq Range(thread_messages[t])
    /\ Faulted = 0 /\ InFlight(t) = 1 => thread_messages[t] = Append(delivered[t], msg)
    /\ Faulted = 0 /\ InFlight(t) = 0 => thread_messages[t] = delivered[t]

\* No fault after a step, none before it.
LEMMA StillFaultless ==
    ASSUME TypeOK, [Next]_vars, Faulted' = 0
    PROVE  Faulted = 0 /\ errors' = errors
<1>1. crashes \in Nat /\ errors \in Nat /\ Faulted \in Nat /\ Faulted' >= Faulted
  BY FaultsGrow DEF TypeOK, Faulted
<1>2. /\ errors' \in {errors, errors + 1} /\ crashes' \in {crashes, crashes + 1}
      /\ crashes' \in Nat /\ errors' \in Nat
  BY <1>1, FaultsGrow
<1>3. crashes' + errors' = 0
  BY DEF Faulted
<1>4. crashes' = 0 /\ errors' = 0
  <2>1. \A a, b \in Nat : a + b = 0 => a = 0 /\ b = 0
    OBVIOUS
  <2>. QED  BY <1>2, <1>3, <2>1
<1>5. crashes = 0 /\ errors = 0
  BY <1>1, <1>2, <1>4
<1>. QED  BY <1>4, <1>5 DEF Faulted

LEMMA RecordKeepsRows ==
    ASSUME TypeOK, [Next]_vars, RecordMessage, NEW t \in Tags, Rows(t)
    PROVE  Rows(t)'
<1>1. InFlight(t) = 0
  BY RecordRows DEF InFlight
<1>2. Faulted' = 0 => Faulted = 0 /\ pc' = "reinject"
  BY StillFaultless, RecordRows, ThreadTypes
<1>3. CASE t = tag
  <2>1. /\ thread_messages'[t] = Append(thread_messages[t], msg) /\ delivered'[t] = delivered[t]
        /\ charged'[t] = charged[t] + 1 /\ msg' = msg /\ tag' = tag
        /\ Len(thread_messages'[t]) = Len(thread_messages[t]) + 1
    BY <1>3, RecordRows
  <2>2. Range(thread_messages[t]) \subseteq Range(thread_messages'[t])
    BY <2>1, RecordRows, ThreadTypes, AppendRange
  <2>3. Faulted' = 0 => InFlight(t)' = 1 /\ thread_messages'[t] = Append(delivered'[t], msg')
    BY <1>1, <1>2, <1>3, <2>1 DEF InFlight, Rows
  <2>. QED  BY <2>1, <2>2, <2>3 DEF Rows
<1>4. CASE t # tag
  <2>1. /\ thread_messages'[t] = thread_messages[t] /\ delivered'[t] = delivered[t]
        /\ charged'[t] = charged[t] /\ InFlight(t)' = 0
    BY <1>4, RecordRows DEF InFlight
  <2>. QED  BY <1>1, <1>2, <2>1 DEF Rows
<1>. QED  BY <1>3, <1>4

LEMMA SendKeepsRows ==
    ASSUME TypeOK, FuseInv, [Next]_vars, Reinject \/ ReinjectPartly, NEW t \in Tags, Rows(t),
           tag = t => msg \in Range(thread_messages[t])
    PROVE  Rows(t)'
<1>1. /\ pc = "reinject" /\ InFlight(t)' = 0
      /\ UNCHANGED <<thread_messages, charged>>
      /\ delivered'[t] = IF t = tag THEN Append(delivered[t], msg) ELSE delivered[t]
      /\ Range(delivered'[t]) = Range(delivered[t]) \cup (IF t = tag THEN {msg} ELSE {})
  <2>1. delivered' = [delivered EXCEPT ![tag] = Append(@, msg)] /\ delivered \in [Threads -> Seq(Msgs)]
    BY DEF Reinject, ReinjectPartly, SendTo, TypeOK
  <2>2. t \in Threads
    BY DEF Threads
  <2>. QED  BY <2>1, <2>2, SendDelivers, SendAppends DEF InFlight
<1>2. Faulted' = 0 => thread_messages[t] = delivered'[t]
  BY <1>1, StillFaultless DEF Rows, InFlight
<1>. QED  BY <1>1, <1>2 DEF Rows

LEMMA OthersKeepRows ==
    ASSUME TypeOK, TypeOK', StageInv, [Next]_vars, ~RecordMessage, ~(Reinject \/ ReinjectPartly),
           NEW t \in Tags, unfreezes'[t] = 0, Rows(t)
    PROVE  Rows(t)'
<1>1. /\ thread_messages'[t] = thread_messages[t] /\ delivered'[t] = delivered[t]
      /\ charged' = charged
      /\ Faulted' + InFlight(t)' >= Faulted + InFlight(t)
  BY OtherCalls, Writers
<1>2. /\ Faulted' = 0 => Faulted = 0
      /\ Faulted' = 0 /\ InFlight(t)' = 0 => InFlight(t) = 0
  BY <1>1, StillFaultless, ThreadTypes
<1>3. InFlight(t)' = 1 => InFlight(t) = 1 /\ msg' = msg
  BY IntoReinject, TagAssumption DEF InFlight
<1>. QED  BY <1>1, <1>2, <1>3 DEF Rows

LEMMA RowsStep ==
    ASSUME TypeOK, TypeOK', FuseInv, StageInv, CountInv, RowsInv, [Next]_vars
    PROVE  RowsInv'
<1>1. ASSUME NEW t \in Tags, unfreezes'[t] = 0
      PROVE  Rows(t)'
  <2>1. unfreezes[t] = 0
    BY <1>1, FirstLife
  <2>2. Rows(t)
    BY <2>1 DEF RowsInv, Rows
  <2>3. CASE RecordMessage
    BY <2>2, <2>3, RecordKeepsRows
  <2>4. CASE Reinject \/ ReinjectPartly
    <3>1. tag = t => msg \in Range(thread_messages[t])
      BY <2>1, <2>4, SendDelivers DEF RowsInv
    <3>. QED  BY <2>2, <2>4, <3>1, SendKeepsRows
  <2>5. CASE ~RecordMessage /\ ~(Reinject \/ ReinjectPartly)
    BY <1>1, <2>2, <2>5, OthersKeepRows
  <2>. QED  BY <2>3, <2>4, <2>5
<1>2. ASSUME pc' = "reinject", tag' \in Tags, unfreezes'[tag'] = 0
      PROVE  msg' \in Range(thread_messages'[tag'])
  <2>1. CASE RecordMessage
    <3>1. /\ tag' = tag /\ msg' = msg /\ tag \in Tags /\ msg \in Msgs
          /\ thread_messages'[tag] = Append(thread_messages[tag], msg)
      BY <2>1, RecordRows
    <3>2. thread_messages[tag] \in Seq(Msgs)
      BY <3>1, ThreadTypes
    <3>3. msg \in Range(thread_messages'[tag])
      BY <3>1, <3>2, AppendRange
    <3>. QED  BY <3>1, <3>3
  <2>2. CASE ~RecordMessage
    <3>1. UNCHANGED <<pc, tag, msg>>
      BY <1>2, <2>2, IntoReinject, TagAssumption
    <3>2. unfreezes[tag] = 0 /\ thread_messages'[tag] = thread_messages[tag]
      BY <1>2, <2>2, <3>1, FirstLife, Writers, DirectorSpares
    <3>. QED  BY <1>2, <3>1, <3>2 DEF RowsInv
  <2>. QED  BY <2>1, <2>2
<1>. QED  BY <1>1, <1>2, NoticeStep DEF RowsInv, Rows

\* A thread with a notice is frozen, so none of its mails is in flight.
LEMMA RowsListed ==
    ASSUME TypeOK, FuseInv, RowsInv
    PROVE  NoticeListsDeliveries
<1>. SUFFICES ASSUME NEW t \in Tags, notices[t] # <<>>, unfreezes[t] = 0
              PROVE  LET listed == Last(notices[t])
                         n      == Len(delivered[t])
                     IN  /\ crashes + errors = 0 =>
                              listed = SubSeq(delivered[t],
                                         IF n > SummaryLimit THEN n - SummaryLimit + 1 ELSE 1, n)
                         /\ charged[t] <= SummaryLimit =>
                              Range(delivered[t]) \subseteq Range(listed)
  BY DEF NoticeListsDeliveries
<1>1. /\ t \in frozen_threads /\ Last(notices[t]) = thread_summary(t)
      /\ charged[t] = Len(thread_messages[t])
      /\ Range(delivered[t]) \subseteq Range(thread_messages[t])
      /\ Faulted = 0 /\ InFlight(t) = 0 => thread_messages[t] = delivered[t]
  BY DEF RowsInv
<1>2. InFlight(t) = 0
  BY <1>1 DEF FuseInv, InFlight
<1>3. crashes + errors = 0 => thread_messages[t] = delivered[t]
  BY <1>1, <1>2 DEF Faulted
<1>4. ASSUME charged[t] <= SummaryLimit
      PROVE  thread_summary(t) = thread_messages[t]
  <2>1. /\ thread_messages[t] \in Seq(Msgs) /\ Len(thread_messages[t]) \in Nat
        /\ SummaryLimit \in Nat
    BY ThreadTypes, SummaryAssumption
  <2>2. ~(Len(thread_messages[t]) > SummaryLimit)
    BY <1>1, <1>4, <2>1
  <2>3. thread_summary(t) = SubSeq(thread_messages[t], 1, Len(thread_messages[t]))
    BY <2>2 DEF thread_summary
  <2>. QED  BY <2>1, <2>3, SubSeqFull
<1>. QED  BY <1>1, <1>3, <1>4 DEF thread_summary

\* In the first life of a thread, the freeze notice accounts for what it
\* delivered: without crashes and errors it lists the last deliveries in order,
\* and while the rows fit it omits none.
THEOREM NoticeListsAlways == Spec => []NoticeListsDeliveries
<1>1. /\ TypeOK /\ FuseInv /\ StageInv /\ CountInv /\ RowsInv
      /\ TypeOK' /\ [Next]_vars
      => RowsInv'
  BY RowsStep
<1>2. TypeOK /\ FuseInv /\ RowsInv => NoticeListsDeliveries
  BY RowsListed
<1>. QED  BY <1>1, <1>2, InitRows, FuseInvariant, CountInvariant, PTL DEF Spec
=============================================================================
