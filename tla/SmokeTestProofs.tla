--------------------------- MODULE SmokeTestProofs ---------------------------
(***************************************************************************)
(* The tags of the smoke test, for every minute; and what its verdicts     *)
(* say, for every budget, any set of mail systems, any number of runs,     *)
(* retries and answers.                                                    *)
(***************************************************************************)
EXTENDS SmokeTest, TLAPS

-----------------------------------------------------------------------------
(* Tags.                                                                   *)

\* Two runs in different minutes less than 4500 apart have different serials.
LEMMA SerialsDiffer ==
    ASSUME NEW m \in Nat, NEW n \in Nat, m < n, n - m < 4500
    PROVE  SerialOf(m) # SerialOf(n)
BY SMT DEF SerialOf

\* Years of a tag, from 2090, and numbers in one year.
Years   == 0 .. 9
Numbers == 0 .. 449

\* Year y and numbers k of the tags of minute m.
Parts(m, y, k) ==
    /\ TAG(m) = <<2090 + y, 100 + k>>
    /\ TAG2(m) = <<2090 + y, 550 + k>>
    /\ SerialOf(m) = 450 * y + k

\* Year and number of a tag give the serial back.
LEMMA TagParts ==
    ASSUME NEW m \in Nat
    PROVE  \E y \in Years, k \in Numbers : Parts(m, y, k)
<1>1. SerialOf(m) \in Nat /\ SerialOf(m) < 4500
  BY SMT DEF SerialOf
<1>2. SerialOf(m) \div 450 \in Years
  BY <1>1, SMT DEF Years
<1>3. SerialOf(m) % 450 \in Numbers
  BY <1>1, SMT DEF Numbers
<1>4. SerialOf(m) = 450 * (SerialOf(m) \div 450) + (SerialOf(m) % 450)
  BY <1>1, SMT
<1>5. Parts(m, SerialOf(m) \div 450, SerialOf(m) % 450)
  BY <1>4, Zenon DEF Parts, TAG, TAG2
<1> QED
  BY <1>2, <1>3, <1>5

\* Runs of the smoke test in different minutes less than 4500 apart share no
\* tag, no run gives its two threads one tag, and every tag lies in the years
\* 2090-2099 that are wiped before a run and never used by articles.
THEOREM RunsShareNoTag ==
    ASSUME NEW m \in Nat, NEW n \in Nat, m < n, n - m < 4500
    PROVE  /\ {TAG(m), TAG2(m)} \cap {TAG(n), TAG2(n)} = {}
           /\ TAG(m) # TAG2(m)
           /\ \A t \in {TAG(m), TAG2(m)} : t[1] \in 2090 .. 2099 /\ t[2] \in 100 .. 999
<1>1. PICK y \in Years, k \in Numbers : Parts(m, y, k)
  BY TagParts
<1>2. PICK z \in Years, l \in Numbers : Parts(n, z, l)
  BY TagParts
<1>3. y # z \/ k # l
  BY <1>1, <1>2, SerialsDiffer DEF Parts, Years, Numbers
<1> QED
  BY <1>1, <1>2, <1>3 DEF Parts, Years, Numbers

-----------------------------------------------------------------------------
(* The script, step by step.                                               *)

\* The sequence w is u followed by v.
Glued(w, u, v) ==
    /\ Len(w) = Len(u) + Len(v)
    /\ \A i \in 1 .. Len(u) : w[i] = u[i]
    /\ \A i \in 1 .. Len(v) : w[Len(u) + i] = v[i]

LEMMA Glue ==
    ASSUME NEW S, NEW u \in Seq(S), NEW v \in Seq(S)
    PROVE  u \o v \in Seq(S) /\ Glued(u \o v, u, v)
BY DEF Glued

\* What the second flood sends: with the mail in the margin, up to the limit.
Rest == HardLimit(Budget) - Budget - 1

LEMMA Sizes ==
    /\ Budget \in Nat /\ HardLimit(Budget) \in Nat /\ grace_margin(Budget) \in Nat
    /\ Rest \in Nat /\ 1 <= Rest /\ Rest <= Budget /\ 4 <= Budget
    /\ HardLimit(Budget) = Budget + grace_margin(Budget) /\ 2 <= grace_margin(Budget)
    /\ Rest = grace_margin(Budget) - 1
<1>1. Budget \in Nat /\ Budget >= 4
  BY SmokeAssumption
<1>2. Budget \div 2 \in Nat /\ 2 <= Budget \div 2 /\ Budget \div 2 <= Budget
  BY <1>1, SMT
<1>. QED  BY <1>1, <1>2 DEF HardLimit, grace_margin, Rest

IsSend(i, kind, refused) ==
    Script[i].op = "send" /\ Script[i].kind = kind /\ Script[i].expect_refused = refused

IsAwait(i, box, kind, by, hop, absent) ==
    /\ Script[i].op = "await" /\ Script[i].box = box /\ Script[i].kind = kind
    /\ Script[i].by = by /\ Script[i].expect_hop = hop /\ Script[i].expect_absent = absent

LEMMA ScriptSteps ==
    /\ Len(Script) = 20
    /\ Script[1].op = "stop" /\ Script[2].op = "wipe"
    /\ IsSend(3, "consegna", FALSE)
    /\ IsAwait(4, "verificatore", "consegna", "tag", 0, FALSE)
    /\ IsAwait(5, "director", "consegna", "tag", 0, FALSE)
    /\ IsSend(6, "fuori_matrice", TRUE) /\ IsSend(7, "senza_etichetta", FALSE)
    /\ IsAwait(8, "cronista", "bounce", "nonce", NoHop, FALSE)
    /\ Script[9].op = "flood" /\ Script[9].count = Budget
    /\ Script[10].op = "await_filter_count" /\ Script[10].count = Budget
    /\ IsSend(11, "grazia", FALSE)
    /\ IsAwait(12, "caporedattore", "in_margine", "tag", NoHop, FALSE)
    /\ IsAwait(13, "verificatore", "grazia", "text", NoHop, FALSE)
    /\ Script[14].op = "flood" /\ Script[14].count = Rest
    /\ Script[15].op = "await_filter_count" /\ Script[15].count = HardLimit(Budget)
    /\ IsSend(16, "oltre", FALSE)
    /\ IsAwait(17, "director", "fusibile", "tag", NoHop, FALSE)
    /\ IsAwait(18, "verificatore", "oltre", "text", NoHop, TRUE)
    /\ Script[19].op = "start" /\ IsSend(20, "servizio", TRUE)
<1>. DEFINE s1 == Do("stop")
            s2 == Do("wipe")
            s3 == Send("consegna")
            s4 == [Await("verificatore", "consegna", "tag") EXCEPT !.expect_hop = 0]
            s5 == [Await("director", "consegna", "tag") EXCEPT !.expect_hop = 0]
            s6 == [Send("fuori_matrice") EXCEPT !.expect_refused = TRUE]
            s7 == Send("senza_etichetta")
            s8 == Await("cronista", "bounce", "nonce")
            s9 == Flood(Budget)
            s10 == Count(Budget)
            s11 == Send("grazia")
            s12 == Await("caporedattore", "in_margine", "tag")
            s13 == Await("verificatore", "grazia", "text")
            s14 == Flood(HardLimit(Budget) - Budget - 1)
            s15 == Count(HardLimit(Budget))
            s16 == Send("oltre")
            s17 == Await("director", "fusibile", "tag")
            s18 == [Await("verificatore", "oltre", "text") EXCEPT !.expect_absent = TRUE]
            s19 == Do("start")
            s20 == [Send("servizio") EXCEPT !.expect_refused = TRUE]
<1>1. Script = <<s1, s2>> \o <<s3, s4, s5>> \o <<s6, s7, s8>>
                \o <<s9, s10, s11, s12, s13>> \o <<s14, s15, s16, s17, s18>> \o <<s19, s20>>
  BY Zenon DEF Script, Delivery, Refusals, Grace, Freeze, Online
<1>. HIDE DEF s1, s2, s3, s4, s5, s6, s7, s8, s9, s10,
              s11, s12, s13, s14, s15, s16, s17, s18, s19, s20
<1>. DEFINE All == {s1, s2, s3, s4, s5, s6, s7, s8, s9, s10,
                   s11, s12, s13, s14, s15, s16, s17, s18, s19, s20}
<1>. DEFINE a == <<s1, s2>>
            b == <<s3, s4, s5>>
            c == <<s6, s7, s8>>
            d == <<s9, s10, s11, s12, s13>>
            e == <<s14, s15, s16, s17, s18>>
            f == <<s19, s20>>
<1>2. a \in Seq(All) /\ Len(a) = 2
  OBVIOUS
<1>3. b \in Seq(All) /\ Len(b) = 3
  OBVIOUS
<1>4. c \in Seq(All) /\ Len(c) = 3
  OBVIOUS
<1>5. d \in Seq(All) /\ Len(d) = 5
  OBVIOUS
<1>6. e \in Seq(All) /\ Len(e) = 5
  OBVIOUS
<1>7. f \in Seq(All) /\ Len(f) = 2
  OBVIOUS
<1>. HIDE DEF All, a, b, c, d, e, f
<1>. DEFINE w2 == a \o b
            w3 == w2 \o c
            w4 == w3 \o d
            w5 == w4 \o e
<1>8. w2 \in Seq(All) /\ Glued(w2, a, b)
  BY <1>2, <1>3, Glue
<1>9. w3 \in Seq(All) /\ Glued(w3, w2, c)
  <2>. HIDE DEF w2
  <2>. QED  BY <1>4, <1>8, Glue
<1>10. w4 \in Seq(All) /\ Glued(w4, w3, d)
  <2>. HIDE DEF w3
  <2>. QED  BY <1>5, <1>9, Glue
<1>11. w5 \in Seq(All) /\ Glued(w5, w4, e)
  <2>. HIDE DEF w4
  <2>. QED  BY <1>6, <1>10, Glue
<1>12. Glued(Script, w5, f)
  <2>1. Script = w5 \o f
    BY <1>1, Zenon DEF w2, w3, w4, w5, a, b, c, d, e, f
  <2>. HIDE DEF w5
  <2>. QED  BY <1>7, <1>11, <2>1, Glue
<1>. HIDE DEF w2, w3, w4, w5
<1>13. /\ Len(w2) = 5 /\ Len(w3) = 8 /\ Len(w4) = 13 /\ Len(w5) = 18 /\ Len(Script) = 20
  BY <1>2, <1>3, <1>4, <1>5, <1>6, <1>7, <1>8, <1>9, <1>10, <1>11, <1>12 DEF Glued
<1>14. /\ w5[1] = a[1] /\ w5[2] = a[2] /\ w5[3] = b[1] /\ w5[4] = b[2] /\ w5[5] = b[3]
       /\ w5[6] = c[1] /\ w5[7] = c[2] /\ w5[8] = c[3]
  BY <1>2, <1>3, <1>4, <1>8, <1>9, <1>10, <1>11, <1>13 DEF Glued
<1>15. w5[9] = d[1] /\ w5[10] = d[2] /\ w5[11] = d[3] /\ w5[12] = d[4] /\ w5[13] = d[5]
  BY <1>5, <1>10, <1>11, <1>13 DEF Glued
<1>16. w5[14] = e[1] /\ w5[15] = e[2] /\ w5[16] = e[3] /\ w5[17] = e[4] /\ w5[18] = e[5]
  BY <1>6, <1>11, <1>13 DEF Glued
<1>17. (\A i \in 1 .. 18 : Script[i] = w5[i]) /\ Script[19] = f[1] /\ Script[20] = f[2]
  BY <1>7, <1>12, <1>13 DEF Glued
<1>18. /\ Len(Script) = 20
       /\ Script[1] = s1 /\ Script[2] = s2 /\ Script[3] = s3 /\ Script[4] = s4
       /\ Script[5] = s5 /\ Script[6] = s6 /\ Script[7] = s7 /\ Script[8] = s8
       /\ Script[9] = s9 /\ Script[10] = s10 /\ Script[11] = s11 /\ Script[12] = s12
       /\ Script[13] = s13 /\ Script[14] = s14 /\ Script[15] = s15 /\ Script[16] = s16
       /\ Script[17] = s17 /\ Script[18] = s18 /\ Script[19] = s19 /\ Script[20] = s20
  BY <1>13, <1>14, <1>15, <1>16, <1>17 DEF a, b, c, d, e, f
<1>. HIDE DEF s1, s2, s3, s4, s5, s6, s7, s8, s9, s10,
              s11, s12, s13, s14, s15, s16, s17, s18, s19, s20
<1>. USE DEF IsSend, IsAwait, Send, Await, Do, Flood, Count
<1>19. Script[1].op = "stop" /\ Script[2].op = "wipe" /\ Script[19].op = "start"
  BY <1>18 DEF s1, s2, s19
<1>20. IsSend(3, "consegna", FALSE) /\ IsSend(6, "fuori_matrice", TRUE)
  BY <1>18 DEF s3, s6
<1>21. IsSend(7, "senza_etichetta", FALSE) /\ IsSend(11, "grazia", FALSE)
  BY <1>18 DEF s7, s11
<1>22. IsSend(16, "oltre", FALSE) /\ IsSend(20, "servizio", TRUE)
  BY <1>18 DEF s16, s20
<1>23. /\ IsAwait(4, "verificatore", "consegna", "tag", 0, FALSE)
      /\ IsAwait(5, "director", "consegna", "tag", 0, FALSE)
      /\ IsAwait(8, "cronista", "bounce", "nonce", NoHop, FALSE)
  BY <1>18 DEF s4, s5, s8
<1>24. /\ IsAwait(12, "caporedattore", "in_margine", "tag", NoHop, FALSE)
       /\ IsAwait(13, "verificatore", "grazia", "text", NoHop, FALSE)
  BY <1>18 DEF s12, s13
<1>25. /\ IsAwait(17, "director", "fusibile", "tag", NoHop, FALSE)
      /\ IsAwait(18, "verificatore", "oltre", "text", NoHop, TRUE)
  BY <1>18 DEF s17, s18
<1>26. /\ Script[9].op = "flood" /\ Script[9].count = Budget
      /\ Script[14].op = "flood" /\ Script[14].count = Rest
  BY <1>18 DEF s9, s14, Rest
<1>27. /\ Script[10].op = "await_filter_count" /\ Script[10].count = Budget
       /\ Script[15].op = "await_filter_count" /\ Script[15].count = HardLimit(Budget)
  BY <1>18 DEF s10, s15
<1>. QED  BY <1>18, <1>19, <1>20, <1>21, <1>22, <1>23, <1>24, <1>25, <1>26, <1>27
\* Where the script is when it takes a step of some kind.
LEMMA Places ==
    ASSUME pc \in 0 .. Len(Script), pc # 0
    PROVE  /\ pc \in 1 .. 20 /\ Len(Script) = 20
           /\ Step.op = "stop" <=> pc = 1
           /\ Step.op = "wipe" <=> pc = 2
           /\ Step.op = "start" <=> pc = 19
           /\ Step.op = "send" <=> pc \in {3, 6, 7, 11, 16, 20}
           /\ Step.op = "flood" <=> pc \in {9, 14}
           /\ Step.op = "await" <=> pc \in {4, 5, 8, 12, 13, 17, 18}
           /\ Step.op = "await_filter_count" <=> pc \in {10, 15}
<1>1. pc \in 1 .. 20 /\ Len(Script) = 20
  BY ScriptSteps
<1>2. CASE pc \in 1 .. 10
  BY <1>1, <1>2, ScriptSteps DEF Step, IsSend, IsAwait
<1>3. CASE pc \in 11 .. 20
  BY <1>1, <1>3, ScriptSteps DEF Step, IsSend, IsAwait
<1>. QED  BY <1>1, <1>2, <1>3

-----------------------------------------------------------------------------
(* Types.                                                                  *)

MailTypes ==
    /\ queue \in [Mail -> Nat]
    /\ counted \in [Tags -> Nat] /\ warned \in [Tags -> BOOLEAN]
    /\ frozen \in [Tags -> BOOLEAN]
    /\ transit \subseteq Letter /\ inbox \subseteq Letter

Flooding == sent > 0 => pc # 0 /\ Step.op = "flood" /\ sent < Step.count

ScriptTypes ==
    /\ sut \in Systems \cup {AsCoded} /\ agents_up \in BOOLEAN
    /\ run \in 0 .. MaxRuns /\ minute \in [Runs -> Minutes \cup {0}]
    /\ pc \in 0 .. Len(Script) /\ sent \in 0 .. Budget
    /\ verdict \in {"none", "pass", "fail", "interrupted", "killed"} /\ slow \in 0 .. MaxSlow
    /\ retries \in 0 .. MaxRetries /\ replies \in 0 .. MaxReplies

LEMMA TypeParts == TypeOK <=> MailTypes /\ ScriptTypes /\ Flooding /\ hung \in BOOLEAN
BY DEF TypeOK, MailTypes, ScriptTypes, Flooding

LEMMA InitTypes == Init => TypeOK
<1>. SUFFICES ASSUME Init PROVE TypeOK
  OBVIOUS
<1>1. MailTypes
  BY DEF Init, MailTypes, Clean
<1>2. ScriptTypes /\ Flooding
  BY SmokeAssumption, ScriptSteps DEF Init, ScriptTypes, Flooding
<1>. QED  BY <1>1, <1>2, TypeParts DEF Init

\* No flood is under way where the script does not stand in one.
LEMMA NoFlood ==
    ASSUME ScriptTypes, Flooding, pc = 0 \/ Step.op # "flood"
    PROVE  sent = 0
BY DEF ScriptTypes, Flooding

LEMMA AdvanceTypes ==
    ASSUME ScriptTypes, Flooding, pc # 0, Step.op # "flood", Advance
    PROVE  /\ pc' \in 0 .. Len(Script) /\ sent' = 0
           /\ verdict' \in {"none", "pass", "fail", "interrupted", "killed"} /\ agents_up' \in BOOLEAN
<1>1. sent = 0 /\ pc \in 1 .. 20 /\ Len(Script) = 20
  BY NoFlood, Places DEF ScriptTypes
<1>2. /\ verdict \in {"none", "pass", "fail", "interrupted", "killed"}
      /\ agents_up \in BOOLEAN
  BY DEF ScriptTypes
<1>3. CASE pc = 20
  BY <1>1, <1>3 DEF Advance, Ends
<1>4. CASE pc # 20
  BY <1>1, <1>2, <1>4 DEF Advance
<1>. QED  BY <1>3, <1>4

LEMMA Bumped ==
    ASSUME NEW S, NEW f \in [S -> Nat], NEW x
    PROVE  [f EXCEPT ![x] = @ + 1] \in [S -> Nat]
<1>1. CASE x \in S
  <2>1. PICK n \in Nat : n = f[x] + 1
    BY <1>1
  <2>2. [f EXCEPT ![x] = n] \in [S -> Nat]
    OBVIOUS
  <2>. QED  BY <2>1, <2>2
<1>2. CASE x \notin S
  <2>. DEFINE g == [f EXCEPT ![x] = @ + 1]
  <2>1. g = [y \in S |-> IF y = x THEN f[x] + 1 ELSE f[y]]
    BY Zenon
  <2>2. \A y \in S : g[y] = f[y]
    BY <1>2, <2>1
  <2>. QED  BY <2>1, <2>2
<1>. QED  BY <1>1, <1>2

LEMMA EnqueueType ==
    ASSUME MailTypes, NEW kind
    PROVE  Enqueue(kind) \in [Mail -> Nat]
BY Bumped, Zenon DEF MailTypes, Enqueue

LEMMA ExpiredTypes ==
    ASSUME ScriptTypes, Expired
    PROVE  slow' \in 0 .. MaxSlow
BY SmokeAssumption DEF Expired, ScriptTypes

LEMMA ScriptStepTypes ==
    ASSUME TypeOK, ScriptStep
    PROVE  TypeOK'
<1>0. hung' \in BOOLEAN
  BY TypeParts DEF ScriptStep
<1>1. MailTypes /\ ScriptTypes /\ Flooding /\ pc # 0
  BY TypeParts DEF ScriptStep
<1>2. pc \in 1 .. 20 /\ Len(Script) = 20
  BY <1>1, Places DEF ScriptTypes
<1>3. CASE compose("stop") \/ compose("start")
  <2>1. sent = 0 /\ pc \in 1 .. 19
    BY <1>1, <1>3, NoFlood, Places DEF compose, ScriptTypes
  <2>2. MailTypes'
    BY <1>1, <1>3 DEF compose, MailTypes, filter, boxes
  <2>3. ScriptTypes'
    <3>1. /\ UNCHANGED <<sut, run, minute, sent, verdict, slow, retries, replies>>
          /\ pc' = pc + 1
      BY <1>3 DEF compose
    <3>2. agents_up' \in BOOLEAN
      BY <1>3, Zenon DEF compose
    <3>. QED  BY <1>1, <1>2, <2>1, <3>1, <3>2 DEF ScriptTypes
  <2>4. sent' = 0
    BY <1>3, <2>1 DEF compose
  <2>. QED  BY <1>0, <2>2, <2>3, <2>4 DEF TypeOK, MailTypes, ScriptTypes
<1>4. CASE Wipe
  <2>1. sent = 0 /\ pc = 2
    BY <1>1, <1>4, NoFlood, Places DEF Wipe, ScriptTypes
  <2>2. MailTypes'
    BY <1>1, <1>4 DEF Wipe, MailTypes, boxes, Clean
  <2>3. ScriptTypes'
    BY <1>1, <1>2, <1>4, <2>1, Sizes DEF Wipe, ScriptTypes
  <2>4. sent' = 0
    BY <1>4, <2>1 DEF Wipe
  <2>. QED  BY <1>0, <2>2, <2>3, <2>4 DEF TypeOK, MailTypes, ScriptTypes
<1>5. CASE cmd_send
  <2>1. Step.op # "flood"
    BY <1>5 DEF cmd_send
  <2>2. queue' \in [Mail -> Nat]
    BY <1>1, <1>5, EnqueueType DEF cmd_send, MailTypes
  <2>3. MailTypes'
    BY <1>1, <1>5, <2>2 DEF cmd_send, MailTypes, filter, boxes
  <2>4. /\ pc' \in 0 .. Len(Script) /\ sent' = 0
        /\ verdict' \in {"none", "pass", "fail", "interrupted", "killed"} /\ agents_up' \in BOOLEAN
    <3>1. CASE Advance
      BY <1>1, <2>1, <3>1, AdvanceTypes
    <3>2. CASE Ends("fail")
      BY <1>2, <3>2 DEF Ends
    <3>. QED  BY <1>5, <3>1, <3>2 DEF cmd_send
  <2>5. ScriptTypes'
    BY <1>1, <1>2, <1>5, <2>4, Sizes DEF cmd_send, ScriptTypes
  <2>. QED  BY <1>0, <2>3, <2>4, <2>5 DEF TypeOK, MailTypes, ScriptTypes
<1>6. CASE cmd_flood
  <2>1. queue' \in [Mail -> Nat]
    BY <1>1, <1>6, EnqueueType DEF cmd_flood
  <2>2. MailTypes'
    BY <1>1, <1>6, <2>1 DEF cmd_flood, MailTypes, filter, boxes
  <2>3. /\ Step.count \in 1 .. Budget /\ pc \in {9, 14} /\ sent < Step.count
    <3>1. Step.op = "flood" /\ pc \in {9, 14}
      BY <1>1, <1>6, Places DEF cmd_flood, ScriptTypes
    <3>2. Step.count \in 1 .. Budget
      BY <3>1, ScriptSteps, Sizes DEF Step
    <3>. QED  BY <1>1, <3>1, <3>2 DEF Flooding, ScriptTypes
  <2>4. sent' \in 0 .. Budget /\ sent' < Step.count
    BY <1>1, <1>6, <2>3, Sizes DEF cmd_flood, ScriptTypes
  <2>5. ScriptTypes'
    <3>1. pc' \in 0 .. 20
      BY <1>2, <1>6, <2>3 DEF cmd_flood
    <3>. QED  BY <1>1, <1>2, <1>6, <2>4, <3>1 DEF cmd_flood, ScriptTypes
  <2>6. Flooding'
    <3>1. CASE sent' = 0
      BY <3>1 DEF Flooding
    <3>2. CASE sent' # 0
      <4>1. pc' = pc /\ Step' = Step
        BY <1>6, <3>2 DEF cmd_flood, Step
      <4>. QED  BY <1>1, <1>6, <2>4, <4>1 DEF cmd_flood, Flooding
    <3>. QED  BY <3>1, <3>2
  <2>. QED  BY <1>0, <2>2, <2>5, <2>6 DEF TypeOK, MailTypes, ScriptTypes, Flooding
<1>7. CASE cmd_await \/ await_filter_count
  <2>1. Step.op # "flood"
    BY <1>7 DEF cmd_await, await_filter_count
  <2>2. MailTypes'
    BY <1>1, <1>7 DEF cmd_await, await_filter_count, MailTypes, filter, boxes
  <2>3. slow' \in 0 .. MaxSlow
    BY <1>1, <1>7, ExpiredTypes DEF cmd_await, await_filter_count, ScriptTypes
  <2>4. Advance \/ Ends("fail")
    BY <1>7 DEF cmd_await, await_filter_count
  <2>5. /\ pc' \in 0 .. Len(Script) /\ sent' = 0
        /\ verdict' \in {"none", "pass", "fail", "interrupted", "killed"} /\ agents_up' \in BOOLEAN
    <3>1. CASE Advance
      BY <1>1, <2>1, <3>1, AdvanceTypes
    <3>2. CASE Ends("fail")
      BY <1>2, <3>2 DEF Ends
    <3>. QED  BY <2>4, <3>1, <3>2
  <2>6. ScriptTypes'
    <3>1. UNCHANGED <<sut, run, minute, retries, replies>>
      BY <1>7 DEF cmd_await, await_filter_count
    <3>. QED  BY <1>1, <1>2, <2>3, <2>5, <3>1, Sizes DEF ScriptTypes
  <2>. QED  BY <1>0, <2>2, <2>5, <2>6 DEF TypeOK, MailTypes, ScriptTypes
<1>. QED  BY <1>3, <1>4, <1>5, <1>6, <1>7 DEF ScriptStep

LEMMA LetterTypes ==
    ASSUME NEW m \in Mail
    PROVE  /\ Copies(m) \subseteq Letter
           /\ \A box \in Boxes, kind \in Answers : Notice(box, kind, m) \subseteq Letter
<1>1. m.kind \in Sent /\ m.run \in Runs
  BY DEF Mail
<1>2. increment_hop(NoHop) = 0 /\ NoHop \in Int
  BY DEF increment_hop, NoHop
<1>3. ASSUME NEW l \in Copies(m) PROVE l \in Letter
  <2>1. PICK b : /\ b \in {"verificatore", "director"}
                 /\ l = [box |-> b, kind |-> m.kind, run |-> m.run, hop |-> 0]
    BY <1>1, <1>2, <1>3 DEF Copies, Sent
  <2>. QED  BY <1>1, <2>1 DEF Letter, Boxes
<1>4. ASSUME NEW box \in Boxes, NEW kind \in Answers PROVE Notice(box, kind, m) \subseteq Letter
  BY <1>1, <1>2 DEF Notice, Letter
<1>. QED  BY <1>3, <1>4

LEMMA FilterTypes ==
    ASSUME TypeOK, NEW m \in Mail, Filter(m)
    PROVE  TypeOK'
<1>0. hung' \in BOOLEAN
  BY TypeParts DEF Filter, script
<1>1. MailTypes /\ ScriptTypes /\ Flooding
  BY TypeParts
<1>2. queue' \in [Mail -> Nat]
  <2>1. CASE UNCHANGED queue
    BY <1>1, <2>1 DEF MailTypes
  <2>2. CASE queue' = [queue EXCEPT ![m] = @ - 1]
    <3>1. PICK n \in Nat : n = queue[m] - 1
      BY <1>1 DEF Filter, MailTypes
    <3>. QED  BY <1>1, <2>2, <3>1 DEF MailTypes
  <2>. QED  BY <2>1, <2>2 DEF Filter
<1>3. retries' \in 0 .. MaxRetries
  BY <1>1, SmokeAssumption DEF Filter, ScriptTypes
<1>4. /\ counted' \in [Tags -> Nat] /\ warned' \in [Tags -> BOOLEAN]
      /\ frozen' \in [Tags -> BOOLEAN]
  <2>1. CASE UNCHANGED filter
    BY <1>1, <2>1 DEF MailTypes, filter
  <2>2. CASE Accepted(m)
    <3>1. counted' = [counted EXCEPT ![TagOf(m)] = @ + 1] /\ frozen' = frozen
      BY <2>2 DEF Accepted
    <3>2. PICK x : warned' = [warned EXCEPT ![TagOf(m)] = @ \/ x] /\ x \in BOOLEAN
      BY <2>2, Zenon DEF Accepted
    <3>3. [warned EXCEPT ![TagOf(m)] = @ \/ x] \in [Tags -> BOOLEAN]
      BY <1>1, <3>2 DEF MailTypes
    <3>. QED  BY <1>1, <3>1, <3>2, <3>3, Bumped DEF MailTypes
  <2>3. CASE Held(m)
    BY <1>1, <2>3 DEF Held, MailTypes
  <2>. QED  BY <2>1, <2>2, <2>3 DEF Filter, Untagged
<1>5. transit' \subseteq Letter
  <2>1. transit' \subseteq transit \cup Copies(m) \cup Notice("cronista", "bounce", m)
                     \cup Notice("caporedattore", "in_margine", m)
                     \cup Notice("director", "fusibile", m)
    BY DEF Filter, Untagged, Accepted, Held
  <2>2. /\ Notice("cronista", "bounce", m) \subseteq Letter
        /\ Notice("caporedattore", "in_margine", m) \subseteq Letter
        /\ Notice("director", "fusibile", m) \subseteq Letter
    BY LetterTypes DEF Boxes, Answers
  <2>. QED  BY <1>1, <2>1, <2>2, LetterTypes DEF MailTypes
<1>6. UNCHANGED <<sut, agents_up, inbox, run, minute, pc, sent, verdict, slow, replies>>
  BY DEF Filter, script
<1>7. Flooding'
  BY <1>1, <1>6 DEF Flooding, Step
<1>8. MailTypes' /\ ScriptTypes'
  BY <1>1, <1>2, <1>3, <1>4, <1>5, <1>6 DEF MailTypes, ScriptTypes
<1>. QED  BY <1>0, <1>7, <1>8 DEF TypeOK, MailTypes, ScriptTypes, Flooding

\* What happens besides the script and the filter.
LEMMA OtherTypes ==
    ASSUME TypeOK,
           \/ StartRun \/ Hang \/ Interrupt \/ Kill \/ Reply \/ (\E l \in transit : Arrive(l))
           \/ UNCHANGED vars
    PROVE  TypeOK'
<1>0. hung' \in BOOLEAN
  BY TypeParts DEF StartRun, Hang, Interrupt, Kill, Reply, Arrive, vars, script
<1>1. MailTypes /\ ScriptTypes /\ Flooding
  BY TypeParts
<1>2. Budget \in Nat /\ MaxRuns \in Nat /\ MaxReplies \in Nat /\ Len(Script) = 20
  BY SmokeAssumption, ScriptSteps
<1>3. CASE StartRun
  <2>1. sent = 0
    BY <1>1, <1>3, NoFlood DEF StartRun
  <2>2. minute' \in [Runs -> Minutes \cup {0}]
    BY <1>1, <1>3 DEF StartRun, ScriptTypes
  <2>3. UNCHANGED <<agents_up, queue, counted, warned, frozen, transit, inbox, sent, retries, replies>>
    BY <1>3 DEF StartRun, filter, boxes
  <2>4. MailTypes'
    BY <1>1, <2>3 DEF MailTypes
  <2>5. ScriptTypes'
    BY <1>1, <1>2, <1>3, <2>2, <2>3, SmokeAssumption DEF StartRun, ScriptTypes
  <2>. QED  BY <1>0, <2>1, <2>3, <2>4, <2>5 DEF TypeOK, MailTypes, ScriptTypes
<1>4. CASE Interrupt \/ Kill
  <2>1. /\ UNCHANGED <<sut, queue, counted, warned, frozen, transit, inbox, run, minute, slow,
                       retries, replies>>
        /\ pc' = 0 /\ sent' = 0 /\ verdict' \in {"interrupted", "killed"}
        /\ agents_up' \in {TRUE, agents_up}
    BY <1>4 DEF Interrupt, Kill, Ends, filter, boxes
  <2>2. MailTypes'
    BY <1>1, <2>1 DEF MailTypes
  <2>3. agents_up' \in BOOLEAN
    BY <1>1, <2>1 DEF ScriptTypes
  <2>4. ScriptTypes'
    <3>1. 0 \in 0 .. Len(Script) /\ 0 \in 0 .. Budget
      BY <1>2
    <3>2. verdict' \in {"none", "pass", "fail", "interrupted", "killed"}
      BY <2>1
    <3>. QED  BY <1>1, <2>1, <2>3, <3>1, <3>2 DEF ScriptTypes
  <2>. QED  BY <1>0, <2>1, <2>2, <2>4 DEF TypeOK, MailTypes, ScriptTypes
<1>5. CASE Reply
  <2>1. UNCHANGED <<sut, agents_up, counted, warned, frozen, transit, inbox, run, minute, pc, sent,
                    verdict, slow, retries>>
    BY <1>5 DEF Reply, filter, boxes, script
  <2>2. MailTypes'
    BY <1>1, <1>5, <2>1, EnqueueType DEF Reply, MailTypes
  <2>3. ScriptTypes'
    BY <1>1, <1>2, <1>5, <2>1 DEF Reply, ScriptTypes
  <2>4. Flooding'
    BY <1>1, <2>1 DEF Flooding, Step
  <2>. QED  BY <1>0, <2>2, <2>3, <2>4 DEF TypeOK, MailTypes, ScriptTypes, Flooding
<1>6. CASE (\E l \in transit : Arrive(l)) \/ Hang \/ UNCHANGED vars
  <2>1. /\ UNCHANGED <<sut, agents_up, queue, counted, warned, frozen, run, minute, pc, sent,
                       verdict, slow, retries, replies>>
        /\ transit' \subseteq transit /\ inbox' \subseteq inbox \cup transit
    BY <1>6 DEF Arrive, Hang, vars, filter, boxes, script
  <2>2. MailTypes'
    BY <1>1, <2>1 DEF MailTypes
  <2>3. ScriptTypes'
    BY <1>1, <2>1 DEF ScriptTypes
  <2>4. Flooding'
    BY <1>1, <2>1 DEF Flooding, Step
  <2>. QED  BY <1>0, <2>2, <2>3, <2>4 DEF TypeOK, MailTypes, ScriptTypes, Flooding
<1>. QED  BY <1>3, <1>4, <1>5, <1>6

\* Every variable keeps its type; the script never runs past its end, and a
\* flood sends what it is asked for.
THEOREM SmokeTypes == Spec => []TypeOK
<1>1. TypeOK /\ [Next]_vars => TypeOK'
  BY ScriptStepTypes, FilterTypes, OtherTypes DEF Next, MailStep
<1>. QED  BY <1>1, InitTypes, PTL DEF Spec

-----------------------------------------------------------------------------
(* The invariant.                                                          *)

\* Mail of this run by kind, and its tags.
Queued(kind) == queue[[kind |-> kind, run |-> run]]
First  == TAG(minute[run])
Second == TAG2(minute[run])

\* What this run has put on its two threads, and what of it is queued.
ToFirst == IF pc > 3 THEN 1 ELSE 0
ToSecond ==
    (IF pc > 9 THEN Budget ELSE 0) + (IF pc > 11 THEN 1 ELSE 0)
        + (IF pc > 14 THEN Rest ELSE 0) + (IF pc > 16 THEN 1 ELSE 0) + sent
OnSecond == Queued("riempimento") + Queued("grazia") + Queued("oltre")

Letters == transit \cup inbox

\* A letter of this run, on its way or arrived.
Got(box, kind) == \E l \in Letters : l.box = box /\ l.kind = kind /\ l.run = run

\* Runs follow each other; no mail, letter or count belongs to one to come.
Past ==
    /\ pc # 0 => run > 0 /\ verdict = "none"
    /\ \A i \in 1 .. run : minute[i] \in Minutes
    /\ \A i \in 1 .. run : \A j \in 1 .. run : i < j => minute[i] < minute[j]
    /\ \A m \in Mail : queue[m] > 0 => m.run <= run
    /\ \A l \in Letters : l.run \in 1 .. run /\ (l.kind = "consegna" => l.hop = 0)
    /\ \A t \in Tags : counted[t] > 0 \/ frozen[t] \/ warned[t] =>
            \E i \in 1 .. run : t \in {TAG(minute[i]), TAG2(minute[i])}

\* What a run knows of the system from the steps it has behind it.
Learnt ==
    /\ pc > 6 => sut.matrix
    /\ pc > 8 => sut.tagged
    /\ pc > 12 => (retries = 0 => sut.warn <= Budget)
    /\ pc > 13 => (sut.warn <= Budget =>
                      sut.grace \/ Leftover("grazia") \/ sut.hard <= Budget + retries)
    /\ pc > 15 => HardLimit(Budget) <= sut.hard
    /\ pc > 17 => (retries = 0 => sut.hard <= HardLimit(Budget))
    /\ pc > 18 => (retries = 0 \/ sut.grace => sut.holds \/ slow > 0)

\* The threads of a run while its agents are stopped: only its own mail counts,
\* and what it finds in a mailbox tells how the system decided.
Counts ==
    /\ pc > 1 => ~agents_up
    /\ pc <= 2 => counted[Second] = 0 /\ OnSecond = 0
    /\ \A kind \in {"fuori_matrice", "servizio", "risposta"} : Queued(kind) = 0
    /\ (pc <= 11 => Queued("grazia") = 0) /\ (pc <= 16 => Queued("oltre") = 0)
    /\ counted[First] + Queued("consegna") <= ToFirst + retries
    /\ counted[Second] + OnSecond <= ToSecond + retries
    /\ counted[Second] <= sut.hard
    /\ pc > 10 => Budget <= counted[Second]
    /\ pc > 15 => HardLimit(Budget) <= counted[Second]
    /\ frozen[First] => sut.hard <= retries
    /\ frozen[Second] => sut.hard <= counted[Second] /\ sut.hard < ToSecond + retries

Signs ==
    /\ Got("cronista", "bounce") => sut.tagged
    /\ Got("caporedattore", "in_margine") =>
            sut.warn < ToSecond + retries \/ sut.warn <= retries
    /\ Got("verificatore", "grazia") /\ sut.warn <= Budget =>
            sut.grace \/ sut.hard < ToSecond + retries
    /\ Got("director", "fusibile") => sut.hard < ToSecond + retries \/ sut.hard <= retries
    /\ pc > 16 => \/ Queued("oltre") > 0 \/ Got("verificatore", "oltre") \/ sut.holds
                  \/ ~sut.grace /\ HardLimit(Budget) < sut.hard

\* The system as coded, with less retries than use up the margin.
Sound == sut = AsCoded /\ retries < grace_margin(Budget)

\* What the script waits for is queued, on its way or there.
Promised ==
    /\ pc > 3 => \/ Queued("consegna") > 0
                 \/ Got("verificatore", "consegna") /\ Got("director", "consegna")
    /\ pc > 7 => Queued("senza_etichetta") > 0 \/ Got("cronista", "bounce")
    /\ ToSecond <= counted[Second] + OnSecond \/ HardLimit(Budget) <= counted[Second]
    /\ counted[Second] > Budget => warned[Second]
    /\ warned[Second] => Got("caporedattore", "in_margine")
    /\ pc \in {12, 13} => Queued("grazia") > 0 \/ Got("verificatore", "grazia")
    /\ pc > 16 => Queued("oltre") > 0 \/ frozen[Second]
    /\ frozen[Second] => Got("director", "fusibile")
    /\ ~Got("verificatore", "oltre")

SmokeInv ==
    /\ Past /\ Learnt
    /\ pc \in 1 .. 19 => Counts /\ Signs /\ (Sound => Promised)
    /\ PassMeansFuse /\ NoFalseAlarm

-----------------------------------------------------------------------------
(* What the invariant is made of, as values.                               *)

LEMMA View ==
    ASSUME TypeOK, Past, pc # 0
    PROVE  /\ pc \in 1 .. 20 /\ run \in Runs /\ run \in Nat /\ run > 0 /\ verdict = "none"
           /\ minute[run] \in Minutes /\ minute[run] \in Nat
           /\ First \in Tags /\ Second \in Tags /\ First # Second
           /\ counted[First] \in Nat /\ counted[Second] \in Nat
           /\ frozen[First] \in BOOLEAN /\ frozen[Second] \in BOOLEAN
           /\ warned[Second] \in BOOLEAN
           /\ \A kind \in Sent : [kind |-> kind, run |-> run] \in Mail /\ Queued(kind) \in Nat
           /\ OnSecond \in Nat /\ ToFirst \in Nat /\ ToSecond \in Nat
           /\ sent \in Nat /\ slow \in Nat /\ retries \in Nat
<1>1. MailTypes /\ ScriptTypes /\ Flooding
  BY TypeParts
<1>2. pc \in 1 .. 20 /\ run \in Runs /\ run \in Nat /\ run > 0 /\ verdict = "none"
  BY <1>1, ScriptSteps, SmokeAssumption DEF Past, ScriptTypes, Runs
<1>3. minute[run] \in Minutes /\ minute[run] \in Nat
  <2>1. \A i \in 1 .. run : minute[i] \in Minutes
    BY DEF Past
  <2>2. Minutes \subseteq Nat
    BY SmokeAssumption
  <2>3. run \in 1 .. run
    BY <1>2
  <2>. QED  BY <2>1, <2>2, <2>3
<1>4. First \in Tags /\ Second \in Tags
  BY <1>3, SmokeTagAssumption DEF First, Second, SmokeTags
<1>5. First # Second
  <2>. DEFINE now == minute[run]
  <2>1. now \in Nat
    BY <1>3
  <2>. HIDE DEF now
  <2>2. now + 1 \in Nat /\ now < now + 1 /\ (now + 1) - now < 4500
    BY <2>1
  <2>3. TAG(now) # TAG2(now)
    BY <2>1, <2>2, RunsShareNoTag
  <2>. QED  BY <2>3 DEF First, Second, now
<1>6. /\ counted[First] \in Nat /\ counted[Second] \in Nat
      /\ frozen[First] \in BOOLEAN /\ frozen[Second] \in BOOLEAN
      /\ warned[Second] \in BOOLEAN
  BY <1>1, <1>4 DEF MailTypes
<1>7. \A kind \in Sent : [kind |-> kind, run |-> run] \in Mail /\ Queued(kind) \in Nat
  BY <1>1, <1>2 DEF MailTypes, Queued, Mail
<1>8. sent \in Nat /\ slow \in Nat /\ retries \in Nat
  BY <1>1, Sizes, SmokeAssumption DEF ScriptTypes
<1>9. OnSecond \in Nat
  BY <1>7 DEF OnSecond, Sent
<1>10. ToFirst \in Nat /\ ToSecond \in Nat
  BY <1>8, Sizes DEF ToFirst, ToSecond
<1>. QED  BY <1>2, <1>3, <1>4, <1>5, <1>6, <1>7, <1>8, <1>9, <1>10

\* No two runs share a tag.
LEMMA OwnTags ==
    ASSUME TypeOK, Past, NEW i \in 1 .. run, NEW j \in 1 .. run, i # j
    PROVE  {TAG(minute[i]), TAG2(minute[i])} \cap {TAG(minute[j]), TAG2(minute[j])} = {}
<1>1. run \in Nat
  BY SmokeAssumption DEF TypeOK
<1>2. /\ minute[i] \in Minutes /\ minute[j] \in Minutes
      /\ minute[i] \in Nat /\ minute[j] \in Nat
  BY SmokeAssumption DEF Past
<1>3. minute[i] - minute[j] < 4500 /\ minute[j] - minute[i] < 4500
  BY <1>2, MinuteAssumption
<1>4. CASE i < j
  <2>1. minute[i] < minute[j]
    BY <1>4 DEF Past
  <2>. QED  BY <1>2, <1>3, <2>1, RunsShareNoTag
<1>5. CASE j < i
  <2>1. minute[j] < minute[i]
    BY <1>5 DEF Past
  <2>2. {TAG(minute[j]), TAG2(minute[j])} \cap {TAG(minute[i]), TAG2(minute[i])} = {}
    BY <1>2, <1>3, <2>1, RunsShareNoTag
  <2>. QED  BY <2>2
<1>. QED  BY <1>1, <1>4, <1>5

\* The system as coded, and any other.
LEMMA SystemView ==
    ASSUME TypeOK
    PROVE  /\ sut.warn \in Nat /\ sut.hard \in Nat /\ sut.matrix \in BOOLEAN
           /\ sut.tagged \in BOOLEAN /\ sut.grace \in BOOLEAN /\ sut.holds \in BOOLEAN
           /\ sut = AsCoded => /\ sut.warn = Budget /\ sut.hard = HardLimit(Budget)
                               /\ sut.matrix /\ sut.tagged /\ sut.grace /\ sut.holds
<1>1. AsCoded \in [warn : Nat, hard : Nat, matrix : BOOLEAN, tagged : BOOLEAN,
                   grace : BOOLEAN, holds : BOOLEAN]
  BY Sizes DEF AsCoded
<1>2. sut \in [warn : Nat, hard : Nat, matrix : BOOLEAN, tagged : BOOLEAN,
               grace : BOOLEAN, holds : BOOLEAN]
  BY <1>1, SmokeAssumption DEF TypeOK
<1>3. sut = AsCoded => /\ sut.warn = Budget /\ sut.hard = HardLimit(Budget)
                       /\ sut.matrix /\ sut.tagged /\ sut.grace /\ sut.holds
  BY DEF AsCoded
<1>. QED  BY <1>2, <1>3

\* While mail, filter and boxes stay as they are, so does what is said of them.
LEMMA Frames ==
    ASSUME UNCHANGED <<run, minute>>
    PROVE  /\ First' = First /\ Second' = Second
           /\ UNCHANGED queue => \A k \in Sent : Queued(k)' = Queued(k)
           /\ Letters' = Letters => \A b, k : Got(b, k)' <=> Got(b, k)
           /\ UNCHANGED inbox => \A k : Leftover(k)' <=> Leftover(k)
<1>1. First' = First /\ Second' = Second
  BY DEF First, Second
<1>2. UNCHANGED queue => \A k \in Sent : Queued(k)' = Queued(k)
  BY DEF Queued
<1>3. Letters' = Letters => \A b, k : Got(b, k)' <=> Got(b, k)
  BY DEF Got
<1>4. UNCHANGED inbox => \A k : Leftover(k)' <=> Leftover(k)
  BY DEF Leftover
<1>. QED  BY <1>1, <1>2, <1>3, <1>4

\* One mail more of this run.
LEMMA Enqueued ==
    ASSUME TypeOK, NEW kind \in Sent, run \in Runs, run' = run, queue' = Enqueue(kind)
    PROVE  /\ Queued(kind)' = Queued(kind) + 1
           /\ \A k \in Sent : k # kind => Queued(k)' = Queued(k)
           /\ \A m \in Mail : queue'[m] > 0 => queue[m] > 0 \/ m.run = run
<1>. DEFINE own == [kind |-> kind, run |-> run]
<1>1. queue \in [Mail -> Nat] /\ own \in Mail
  BY DEF TypeOK, Mail
<1>2. PICK n \in Nat : n = queue[own] + 1
  BY <1>1
<1>3. queue' = [queue EXCEPT ![own] = n]
  BY <1>2 DEF Enqueue
<1>4. Queued(kind)' = n
  BY <1>1, <1>3 DEF Queued
<1>5. \A k \in Sent : k # kind => Queued(k)' = Queued(k)
  <2>. SUFFICES ASSUME NEW k \in Sent, k # kind PROVE Queued(k)' = Queued(k)
    OBVIOUS
  <2>1. [kind |-> k, run |-> run] \in Mail /\ [kind |-> k, run |-> run] # own
    BY DEF Mail
  <2>. QED  BY <1>1, <1>3, <2>1 DEF Queued
<1>6. \A m \in Mail : queue'[m] > 0 => queue[m] > 0 \/ m.run = run
  BY <1>1, <1>3
<1>. QED  BY <1>2, <1>4, <1>5, <1>6 DEF Queued

\* What every step of the script leaves alone.
LEMMA ScriptFrame ==
    ASSUME ScriptStep
    PROVE  /\ pc # 0 /\ UNCHANGED <<sut, run, minute, transit, inbox, retries, replies>>
           /\ First' = First /\ Second' = Second
           /\ \A b, k : Got(b, k)' <=> Got(b, k)
           /\ \A k : Leftover(k)' <=> Leftover(k)
<1>1. pc # 0 /\ UNCHANGED <<sut, run, minute, transit, inbox, retries, replies>>
  BY DEF ScriptStep, compose, Wipe, cmd_send, cmd_flood, cmd_await, await_filter_count,
         filter, boxes
<1>2. Letters' = Letters
  BY <1>1 DEF Letters
<1>. QED  BY <1>1, <1>2, Frames

\* However a step of the script leaves it, it is at a step or has come to its end.
LEMMA ScriptPlace ==
    ASSUME TypeOK, ScriptStep
    PROVE  pc' # 0 => verdict' = verdict
<1>1. CASE Advance
  BY <1>1 DEF Advance, Ends
<1>2. CASE \E v : Ends(v)
  BY <1>2 DEF Ends
<1>3. Advance \/ (\E v : Ends(v)) \/ UNCHANGED verdict
  BY DEF ScriptStep, compose, Wipe, cmd_send, cmd_flood, cmd_await, await_filter_count
<1>. QED  BY <1>1, <1>2, <1>3

\* The script sends mail of its own run only.
LEMMA ScriptQueue ==
    ASSUME TypeOK, Past, ScriptStep
    PROVE  \A m \in Mail : queue'[m] > 0 => queue[m] > 0 \/ m.run = run
<1>1. pc # 0 /\ run \in Runs /\ run' = run
  BY View, ScriptFrame
<1>2. UNCHANGED queue \/ \E kind \in Sent : queue' = Enqueue(kind)
  <2>1. CASE cmd_send
    <3>1. Step.kind \in Sent
      <4>1. pc \in {3, 6, 7, 11, 16, 20}
        BY <1>1, <2>1, Places DEF TypeOK, cmd_send
      <4>. QED  BY <4>1, ScriptSteps DEF Step, IsSend, Sent
    <3>. QED  BY <2>1, <3>1 DEF cmd_send
  <2>2. CASE cmd_flood
    BY <2>2 DEF cmd_flood, Sent
  <2>3. CASE ~cmd_send /\ ~cmd_flood
    BY <2>3 DEF ScriptStep, compose, Wipe, cmd_await, await_filter_count
  <2>. QED  BY <2>1, <2>2, <2>3
<1>. QED  BY <1>1, <1>2, Enqueued, Zenon

LEMMA ScriptPast ==
    ASSUME TypeOK, Past, ScriptStep
    PROVE  Past'
<1>1. pc # 0 /\ run > 0 /\ verdict = "none" /\ run \in Nat
  BY View, ScriptFrame
<1>2. /\ pc' # 0 => run' > 0 /\ verdict' = "none"
      /\ \A i \in 1 .. run' : minute'[i] \in Minutes
      /\ \A i \in 1 .. run' : \A j \in 1 .. run' : i < j => minute'[i] < minute'[j]
  BY <1>1, ScriptFrame, ScriptPlace DEF Past
<1>3. \A m \in Mail : queue'[m] > 0 => m.run <= run'
  BY <1>1, ScriptFrame, ScriptQueue DEF Past
<1>4. \A l \in Letters' : l.run \in 1 .. run' /\ (l.kind = "consegna" => l.hop = 0)
  BY ScriptFrame DEF Past, Letters
<1>5. \/ UNCHANGED filter
      \/ counted' = [t \in Tags |-> 0] /\ warned' = Clean /\ frozen' = Clean
  BY DEF ScriptStep, compose, Wipe, cmd_send, cmd_flood, cmd_await, await_filter_count
<1>6. \A t \in Tags : counted'[t] > 0 \/ frozen'[t] \/ warned'[t] =>
          \E i \in 1 .. run' : t \in {TAG(minute'[i]), TAG2(minute'[i])}
  <2>1. CASE UNCHANGED filter
    BY <2>1, ScriptFrame DEF Past, filter
  <2>2. CASE counted' = [t \in Tags |-> 0] /\ warned' = Clean /\ frozen' = Clean
    BY <2>2 DEF Clean
  <2>. QED  BY <1>5, <2>1, <2>2
<1>. QED  BY <1>2, <1>3, <1>4, <1>6 DEF Past

\* A run begins with no mail, letter or count of its own.
LEMMA StartPast ==
    ASSUME TypeOK, Past, StartRun
    PROVE  Past' /\ run' = run + 1 /\ run \in Nat /\ \A i \in 1 .. run : minute'[i] = minute[i]
<1>. PICK m \in Minutes :
        (run > 0 => m > minute[run]) /\ minute' = [minute EXCEPT ![run + 1] = m]
  BY DEF StartRun
<1>1. /\ run \in Nat /\ run' = run + 1 /\ run' \in Runs /\ verdict' = "none"
      /\ UNCHANGED <<queue, counted, warned, frozen, transit, inbox>>
  BY SmokeAssumption DEF StartRun, TypeOK, Runs, filter, boxes
<1>2. (\A i \in 1 .. run : minute'[i] = minute[i]) /\ minute'[run'] = m
  <2>1. minute \in [Runs -> Minutes \cup {0}] /\ 1 .. run \subseteq Runs
    <3>1. minute \in [Runs -> Minutes \cup {0}]
      BY DEF TypeOK
    <3>2. run + 1 \in Runs
      BY <1>1
    <3>. QED  BY <1>1, <3>1, <3>2, SmokeAssumption DEF Runs
  <2>2. \A i \in 1 .. run : i # run + 1
    BY <1>1
  <2>. QED  BY <1>1, <2>1, <2>2
<1>3. \A i \in 1 .. run' : i = run' \/ i \in 1 .. run
  BY <1>1
<1>4. \A i \in 1 .. run' : minute'[i] \in Minutes
  BY <1>2, <1>3 DEF Past
<1>5. \A i \in 1 .. run' : \A j \in 1 .. run' : i < j => minute'[i] < minute'[j]
  <2>. SUFFICES ASSUME NEW i \in 1 .. run', NEW j \in 1 .. run', i < j
                PROVE  minute'[i] < minute'[j]
    OBVIOUS
  <2>1. i \in 1 .. run
    BY <1>1
  <2>2. CASE j \in 1 .. run
    BY <1>2, <2>1, <2>2 DEF Past
  <2>3. CASE j = run'
    <3>1. minute[i] = minute[run] \/ minute[i] < minute[run]
      <4>1. i = run \/ (i < run /\ run \in 1 .. run)
        BY <1>1, <2>1
      <4>. QED  BY <2>1, <4>1 DEF Past
    <3>2. run \in 1 .. run
      BY <1>1, <2>1
    <3>3. minute[i] \in Nat /\ minute[run] \in Nat /\ m \in Nat
      <4>1. Minutes \subseteq Nat
        BY SmokeAssumption
      <4>. QED  BY <2>1, <3>2, <4>1 DEF Past
    <3>4. minute[run] < m
      BY <1>1, <3>2, <3>3
    <3>. QED  BY <1>2, <2>1, <2>3, <3>1, <3>3, <3>4
  <2>. QED  BY <1>3, <2>2, <2>3
<1>6. \A k \in Mail : queue'[k] > 0 => k.run <= run'
  <2>1. \A k \in Mail : k.run \in Nat
    BY SmokeAssumption DEF Mail, Runs
  <2>. QED  BY <1>1, <2>1 DEF Past
<1>7. \A l \in Letters' : l.run \in 1 .. run' /\ (l.kind = "consegna" => l.hop = 0)
  BY <1>1 DEF Past, Letters
<1>8. \A t \in Tags : counted'[t] > 0 \/ frozen'[t] \/ warned'[t] =>
          \E i \in 1 .. run' : t \in {TAG(minute'[i]), TAG2(minute'[i])}
  <2>1. 1 .. run \subseteq 1 .. run'
    BY <1>1
  <2>. QED  BY <1>1, <1>2, <2>1 DEF Past
<1>. QED  BY <1>1, <1>2, <1>4, <1>5, <1>6, <1>7, <1>8 DEF Past

\* What letters a mail turns into: copies of it, and a notice.
LEMMA Posted ==
    ASSUME NEW m, Untagged(m) \/ Accepted(m) \/ Held(m)
    PROVE  /\ transit \subseteq transit'
           /\ \A l \in transit' : \/ l \in transit
                                  \/ l \in Copies(m)
                                  \/ l.run = m.run /\ l.kind \in Answers
<1>. DEFINE notes == Notice("cronista", "bounce", m) \cup Notice("caporedattore", "in_margine", m)
                        \cup Notice("director", "fusibile", m)
<1>1. transit \subseteq transit' /\ transit' \subseteq transit \cup Copies(m) \cup notes
  <2>. DEFINE b == Notice("cronista", "bounce", m)
              w == Notice("caporedattore", "in_margine", m)
              f == Notice("director", "fusibile", m)
              c == Copies(m)
  <2>1. notes = b \cup w \cup f /\ c = Copies(m)
    OBVIOUS
  <2>. HIDE DEF b, w, f, c, notes
  <2>2. CASE Untagged(m)
    <3>1. transit' = transit \cup b \/ transit' = transit \cup c
      BY <2>2 DEF Untagged, b, c
    <3>. QED  BY <2>1, <3>1
  <2>3. CASE Accepted(m)
    <3>1. \E X \in {{}, c}, Y \in {{}, w} : transit' = transit \cup X \cup Y
      BY <2>3, Zenon DEF Accepted, w, c
    <3>. QED  BY <2>1, <3>1
  <2>4. CASE Held(m)
    <3>1. \E X \in {{}, c}, Y \in {{}, f} : transit' = transit \cup X \cup Y
      BY <2>4, Zenon DEF Held, f, c
    <3>. QED  BY <2>1, <3>1
  <2>. QED  BY <2>2, <2>3, <2>4
<1>2. \A l \in notes : l.run = m.run /\ l.kind \in Answers
  BY DEF notes, Notice, Answers
<1>. QED  BY <1>1, <1>2

LEMMA CopyOf ==
    ASSUME NEW m, NEW l \in Copies(m)
    PROVE  l.run = m.run /\ l.kind = m.kind /\ l.hop = 0
BY DEF Copies, increment_hop, NoHop

\* A mail the filter handles changes its own tag and its own count of copies.
LEMMA FilterFrame ==
    ASSUME TypeOK, NEW m \in Mail, Filter(m)
    PROVE  /\ m.kind \in Sent /\ m.run \in Runs /\ m = [kind |-> m.kind, run |-> m.run]
           /\ UNCHANGED <<sut, agents_up, run, minute, pc, sent, verdict, slow, inbox, replies>>
           /\ queue[m] \in Nat /\ queue[m] > 0 /\ \A k \in Mail : k # m => queue'[k] = queue[k]
           /\ \/ queue'[m] = queue[m] - 1 /\ retries' = retries
              \/ queue'[m] = queue[m] /\ retries' = retries + 1
           /\ retries \in Nat /\ retries' \in Nat /\ retries <= retries'
           /\ \A t \in Tags : t # TagOf(m) =>
                counted'[t] = counted[t] /\ frozen'[t] = frozen[t] /\ warned'[t] = warned[t]
<1>1. m.kind \in Sent /\ m.run \in Runs /\ m = [kind |-> m.kind, run |-> m.run]
  BY DEF Mail
<1>2. UNCHANGED <<sut, agents_up, run, minute, pc, sent, verdict, slow, inbox, replies>>
  BY DEF Filter, script
<1>3. retries \in Nat /\ queue \in [Mail -> Nat]
  BY SmokeAssumption DEF TypeOK
<1>4. \/ queue' = [queue EXCEPT ![m] = @ - 1] /\ retries' = retries
      \/ queue' = queue /\ retries' = retries + 1
  BY DEF Filter
<1>5. /\ queue[m] \in Nat /\ queue[m] > 0 /\ \A k \in Mail : k # m => queue'[k] = queue[k]
      /\ \/ queue'[m] = queue[m] - 1 /\ retries' = retries
         \/ queue'[m] = queue[m] /\ retries' = retries + 1
  <2>1. queue[m] > 0
    BY DEF Filter
  <2>. QED  BY <1>3, <1>4, <2>1
<1>6. retries' \in Nat /\ retries <= retries'
  BY <1>3, <1>5
<1>7. \A t \in Tags : t # TagOf(m) =>
        counted'[t] = counted[t] /\ frozen'[t] = frozen[t] /\ warned'[t] = warned[t]
  <2>1. counted \in [Tags -> Nat] /\ frozen \in [Tags -> BOOLEAN] /\ warned \in [Tags -> BOOLEAN]
    BY DEF TypeOK
  <2>2. CASE Untagged(m)
    BY <2>2 DEF Untagged, filter
  <2>3. CASE Accepted(m)
    <3>1. \E n, w : /\ counted' = [counted EXCEPT ![TagOf(m)] = n]
                    /\ warned' = [warned EXCEPT ![TagOf(m)] = w] /\ frozen' = frozen
      BY <2>3 DEF Accepted
    <3>. QED  BY <2>1, <3>1
  <2>4. CASE Held(m)
    <3>1. /\ frozen' = [frozen EXCEPT ![TagOf(m)] = TRUE]
          /\ counted' = counted /\ warned' = warned
      BY <2>4 DEF Held
    <3>. QED  BY <2>1, <3>1
  <2>. QED  BY <2>2, <2>3, <2>4 DEF Filter
<1>. QED  BY <1>1, <1>2, <1>3, <1>5, <1>6, <1>7

LEMMA FilterPast ==
    ASSUME TypeOK, Past, NEW m \in Mail, Filter(m)
    PROVE  Past'
<1>1. /\ UNCHANGED <<run, minute, pc, verdict, inbox>> /\ m.run \in Runs /\ m.run \in Nat
      /\ run \in Nat /\ m.run <= run /\ m.run \in 1 .. run
  <2>1. run \in Nat /\ MaxRuns \in Nat
    BY SmokeAssumption DEF TypeOK
  <2>2. UNCHANGED <<run, minute, pc, verdict, inbox>> /\ m.run \in Runs /\ queue[m] > 0
    BY FilterFrame
  <2>. QED  BY <2>1, <2>2 DEF Past, Runs
<1>2. \A k \in Mail : queue'[k] > 0 => k.run <= run'
  <2>. SUFFICES ASSUME NEW k \in Mail, queue'[k] > 0 PROVE k.run <= run
    BY <1>1
  <2>1. CASE k = m
    BY <1>1, <2>1
  <2>2. CASE k # m
    <3>1. queue'[k] = queue[k]
      BY <2>2, FilterFrame
    <3>. QED  BY <3>1 DEF Past
  <2>. QED  BY <2>1, <2>2
<1>3. \A l \in Letters' : l.run \in 1 .. run' /\ (l.kind = "consegna" => l.hop = 0)
  <2>. SUFFICES ASSUME NEW l \in Letters'
                PROVE  l.run \in 1 .. run /\ (l.kind = "consegna" => l.hop = 0)
    BY <1>1
  <2>1. CASE l \in Letters
    BY <2>1 DEF Past
  <2>2. CASE l \in Copies(m)
    BY <1>1, <2>2, CopyOf
  <2>3. CASE l.run = m.run /\ l.kind \in Answers
    BY <1>1, <2>3 DEF Answers
  <2>4. Untagged(m) \/ Accepted(m) \/ Held(m)
    BY DEF Filter
  <2>. QED  BY <1>1, <2>1, <2>2, <2>3, <2>4, Posted DEF Letters
<1>4. \A t \in Tags : counted'[t] > 0 \/ frozen'[t] \/ warned'[t] =>
          \E i \in 1 .. run' : t \in {TAG(minute'[i]), TAG2(minute'[i])}
  <2>. SUFFICES ASSUME NEW t \in Tags, counted'[t] > 0 \/ frozen'[t] \/ warned'[t]
                PROVE  \E i \in 1 .. run : t \in {TAG(minute[i]), TAG2(minute[i])}
    BY <1>1
  <2>1. CASE t = TagOf(m)
    <3>1. t \in {TAG(minute[m.run]), TAG2(minute[m.run])}
      <4>1. t # NoTag
        BY TagAssumption
      <4>. QED  BY <2>1, <4>1, FilterFrame DEF TagOf, Sent
    <3>. QED  BY <1>1, <3>1
  <2>2. CASE t # TagOf(m)
    <3>1. counted'[t] = counted[t] /\ frozen'[t] = frozen[t] /\ warned'[t] = warned[t]
      BY <2>2, FilterFrame
    <3>. QED  BY <3>1 DEF Past
  <2>. QED  BY <2>1, <2>2
<1>5. /\ pc' # 0 => run' > 0 /\ verdict' = "none"
      /\ \A i \in 1 .. run' : minute'[i] \in Minutes
      /\ \A i \in 1 .. run' : \A j \in 1 .. run' : i < j => minute'[i] < minute'[j]
  BY <1>1 DEF Past
<1>. QED  BY <1>2, <1>3, <1>4, <1>5 DEF Past

LEMMA OtherPast ==
    ASSUME TypeOK, Past,
           \/ Hang \/ Interrupt \/ Kill \/ Reply \/ (\E l \in transit : Arrive(l))
           \/ UNCHANGED vars
    PROVE  Past'
<1>1. UNCHANGED <<run, minute, counted, warned, frozen>>
  BY DEF Hang, Interrupt, Kill, Reply, Arrive, vars, filter, script
<1>2. (pc' = 0 \/ UNCHANGED <<pc, verdict>>) /\ (Letters' = Letters)
  BY DEF Hang, Interrupt, Kill, Ends, Reply, Arrive, vars, boxes, script, Letters
<1>3. \A m \in Mail : queue'[m] > 0 => queue[m] > 0 \/ m.run = run
  <2>1. CASE Reply
    <3>1. run \in Runs /\ run' = run /\ queue' = Enqueue("risposta")
      BY <2>1, View DEF Reply, script
    <3>. QED  BY <3>1, Enqueued, Zenon DEF Sent
  <2>2. CASE ~Reply
    BY <2>2 DEF Hang, Interrupt, Kill, Arrive, vars
  <2>. QED  BY <2>1, <2>2
<1>4. \A m \in Mail : queue'[m] > 0 => m.run <= run'
  <2>1. run \in Nat
    BY SmokeAssumption DEF TypeOK
  <2>. QED  BY <1>1, <1>3, <2>1 DEF Past
<1>. QED  BY <1>1, <1>2, <1>4 DEF Past

-----------------------------------------------------------------------------
(* What a step leaves true.                                                *)

\* Retries, and letters in the mailboxes, take nothing from what a run knows.
LEMMA KnowledgeKept ==
    ASSUME TypeOK, Learnt, PassMeansFuse, NoFalseAlarm,
           UNCHANGED <<sut, run, pc, verdict, slow>>, inbox \subseteq inbox',
           retries' \in Nat, retries <= retries'
    PROVE  Learnt' /\ PassMeansFuse' /\ NoFalseAlarm'
<1>1. \A k : Leftover(k) => Leftover(k)'
  BY DEF Leftover
<1>2. retries \in Nat /\ Budget \in Nat /\ sut.hard \in Nat
  BY SmokeAssumption, SystemView DEF TypeOK
<1>3. Learnt'
  BY <1>1, <1>2 DEF Learnt
<1>4. PassMeansFuse'
  BY <1>1, <1>2, Sizes DEF PassMeansFuse
<1>5. NoFalseAlarm'
  BY <1>1, <1>2, Sizes DEF NoFalseAlarm
<1>. QED  BY <1>3, <1>4, <1>5

\* A new run knows nothing and has sent nothing.

\* A new run starts with nothing queued, counted or in the mailboxes.
LEMMA StartStep ==
    ASSUME TypeOK, TypeOK', SmokeInv, StartRun
    PROVE  SmokeInv'
<1>1. /\ Past' /\ run' = run + 1 /\ run \in Nat /\ run' \in Runs
      /\ \A i \in 1 .. run : minute'[i] = minute[i]
  <2>1. run < MaxRuns /\ MaxRuns \in Nat
    BY SmokeAssumption DEF StartRun
  <2>2. /\ Past' /\ run' = run + 1 /\ run \in Nat
        /\ \A i \in 1 .. run : minute'[i] = minute[i]
    BY StartPast DEF SmokeInv
  <2>. QED  BY <2>1, <2>2 DEF Runs
<1>2. /\ pc' = 1 /\ verdict' = "none" /\ sent' = 0 /\ retries \in Nat
      /\ UNCHANGED <<queue, counted, warned, frozen, transit, inbox, retries>>
  <2>1. retries \in Nat /\ sent = 0
    BY TypeParts, NoFlood, SmokeAssumption DEF StartRun, ScriptTypes
  <2>. QED  BY <2>1 DEF StartRun, filter, boxes
<1>3. \A k \in Sent : Queued(k)' = 0
  <2>. SUFFICES ASSUME NEW k \in Sent PROVE queue[[kind |-> k, run |-> run']] = 0
    BY <1>2 DEF Queued
  <2>1. [kind |-> k, run |-> run'] \in Mail
    BY <1>1 DEF Mail
  <2>2. queue \in [Mail -> Nat]
    BY DEF TypeOK
  <2>3. ~(run' <= run)
    BY <1>1
  <2>. QED  BY <2>1, <2>2, <2>3 DEF SmokeInv, Past
<1>4. \A b, k : ~Got(b, k)'
  <2>1. \A l \in Letters : l.run # run'
    BY <1>1 DEF SmokeInv, Past
  <2>. QED  BY <1>2, <2>1 DEF Got, Letters
<1>5. \A i \in 1 .. run :
        {TAG(minute[i]), TAG2(minute[i])} \cap {First', Second'} = {}
  <2>. SUFFICES ASSUME NEW i \in 1 .. run
                PROVE  {TAG(minute'[i]), TAG2(minute'[i])} \cap {TAG(minute'[run']), TAG2(minute'[run'])} = {}
    BY <1>1 DEF First, Second
  <2>1. i \in 1 .. run' /\ run' \in 1 .. run' /\ i < run'
    BY <1>1
  <2>2. minute'[i] \in Minutes /\ minute'[run'] \in Minutes /\ minute'[i] < minute'[run']
    BY <1>1, <2>1 DEF Past
  <2>3. Minutes \subseteq Nat
    BY SmokeAssumption
  <2>. QED  BY <2>2, <2>3, MinuteAssumption, RunsShareNoTag
<1>6. First' \in Tags /\ Second' \in Tags
  <2>1. minute'[run'] \in Minutes
    <3>1. run' \in 1 .. run'
      BY <1>1
    <3>. QED  BY <1>1, <3>1 DEF Past
  <2>. QED  BY <2>1, SmokeTagAssumption DEF First, Second, SmokeTags
<1>7. /\ counted'[First'] = 0 /\ counted'[Second'] = 0
      /\ ~frozen'[First'] /\ ~frozen'[Second'] /\ ~warned'[Second']
  <2>1. \A t \in {First', Second'} : ~(counted[t] > 0) /\ ~frozen[t] /\ ~warned[t]
    BY <1>5, <1>6 DEF SmokeInv, Past
  <2>2. \A t \in {First', Second'} : counted[t] \in Nat
    BY <1>6 DEF TypeOK
  <2>. QED  BY <1>2, <2>1, <2>2
<1>8. Learnt' /\ PassMeansFuse' /\ NoFalseAlarm'
  BY <1>2 DEF Learnt, PassMeansFuse, NoFalseAlarm
<1>9. OnSecond' = 0 /\ ToFirst' = 0 /\ ToSecond' = 0
  BY <1>2, <1>3 DEF OnSecond, ToFirst, ToSecond, Sent
<1>10. retries' \in Nat /\ sut'.hard \in Nat
  <2>1. sut'.hard \in Nat
    BY SmokeAssumption DEF StartRun
  <2>. QED  BY <1>2, <2>1
<1>11. Counts'
  BY <1>2, <1>3, <1>7, <1>9, <1>10 DEF Counts, Sent
<1>12. Signs'
  BY <1>2, <1>4 DEF Signs
<1>13. Promised'
  BY <1>2, <1>4, <1>7, <1>9, Sizes DEF Promised
<1>. QED  BY <1>1, <1>8, <1>11, <1>12, <1>13 DEF SmokeInv

\* Mail that arrives, an interrupt, and an answer: the agents are stopped while
\* a run has something on its second thread.
LEMMA OtherStep ==
    ASSUME TypeOK, SmokeInv,
           \/ Hang \/ Interrupt \/ Kill \/ Reply \/ (\E l \in transit : Arrive(l))
           \/ UNCHANGED vars
    PROVE  SmokeInv'
<1>1. Past' /\ retries \in Nat
  BY OtherPast, SmokeAssumption DEF SmokeInv, TypeOK
<1>2. CASE Interrupt \/ Kill
  <2>1. pc' = 0 /\ verdict' \notin {"pass", "fail"}
    BY <1>2 DEF Interrupt, Kill, Ends
  <2>. QED  BY <1>1, <2>1 DEF SmokeInv, Learnt, PassMeansFuse, NoFalseAlarm
<1>3. CASE Reply
  <2>1. pc = 20
    <3>1. pc # 0 /\ agents_up /\ counted[Second] > 0
      BY <1>3 DEF Reply, Second
    <3>2. pc \in 1 .. 20 /\ counted[Second] \in Nat
      BY <3>1, View DEF SmokeInv
    <3>3. CASE pc \in 1 .. 19
      <4>1. (pc > 1 => ~agents_up) /\ (pc <= 2 => counted[Second] = 0)
        BY <3>3 DEF SmokeInv, Counts
      <4>. QED  BY <3>1, <3>2, <4>1
    <3>. QED  BY <3>2, <3>3
  <2>2. UNCHANGED <<sut, run, pc, verdict, slow, inbox, retries>>
    BY <1>3 DEF Reply, boxes, script
  <2>3. Learnt' /\ PassMeansFuse' /\ NoFalseAlarm'
    BY <1>1, <2>2, KnowledgeKept DEF SmokeInv
  <2>. QED  BY <1>1, <2>1, <2>2, <2>3 DEF SmokeInv
<1>4. CASE (\E l \in transit : Arrive(l)) \/ Hang \/ UNCHANGED vars
  <2>1. /\ UNCHANGED <<sut, run, minute, pc, sent, verdict, slow, retries, agents_up>>
        /\ UNCHANGED <<queue, counted, warned, frozen>>
        /\ inbox \subseteq inbox' /\ Letters' = Letters
    BY <1>4 DEF Arrive, Hang, vars, filter, boxes, script, Letters
  <2>2. Learnt' /\ PassMeansFuse' /\ NoFalseAlarm'
    BY <1>1, <2>1, KnowledgeKept DEF SmokeInv
  <2>3. /\ First' = First /\ Second' = Second
        /\ \A k \in Sent : Queued(k)' = Queued(k)
        /\ \A b, k : Got(b, k)' <=> Got(b, k)
    BY <2>1, Frames
  <2>4. OnSecond' = OnSecond /\ ToFirst' = ToFirst /\ ToSecond' = ToSecond
    BY <2>1, <2>3 DEF OnSecond, ToFirst, ToSecond, Sent
  <2>5. Counts => Counts'
    BY <2>1, <2>3, <2>4 DEF Counts, Sent
  <2>6. Signs => Signs'
    BY <2>1, <2>3, <2>4 DEF Signs, Sent
  <2>7. (Sound' => Sound) /\ (Promised => Promised')
    BY <2>1, <2>3, <2>4 DEF Sound, Promised, Sent
  <2>. QED  BY <1>1, <2>1, <2>2, <2>5, <2>6, <2>7 DEF SmokeInv
<1>. QED  BY <1>2, <1>3, <1>4

-----------------------------------------------------------------------------
(* The filter.                                                             *)

\* Mail of another run does nothing to the threads and letters of this one.
LEMMA OthersMail ==
    ASSUME TypeOK, SmokeInv, pc # 0, NEW m \in Mail, Filter(m), m.run # run
    PROVE  /\ \A k \in Sent : Queued(k)' = Queued(k)
           /\ \A b, k : Got(b, k)' <=> Got(b, k)
           /\ First' = First /\ Second' = Second
           /\ \A t \in {First, Second} :
                counted'[t] = counted[t] /\ frozen'[t] = frozen[t] /\ warned'[t] = warned[t]
<1>1. Past
  BY DEF SmokeInv
<1>2. /\ UNCHANGED <<run, minute, inbox>> /\ First' = First /\ Second' = Second
      /\ run \in Nat /\ run > 0 /\ First \in Tags /\ Second \in Tags
  BY <1>1, View, FilterFrame, Frames
<1>3. m.run \in 1 .. run /\ run \in 1 .. run
  <2>1. m.run \in Runs /\ queue[m] > 0
    BY FilterFrame
  <2>2. m.run <= run
    BY <1>1, <2>1 DEF Past
  <2>. QED  BY <1>2, <2>1, <2>2, SmokeAssumption DEF Runs
<1>4. \A k \in Sent : Queued(k)' = Queued(k)
  <2>. SUFFICES ASSUME NEW k \in Sent
                PROVE  queue'[[kind |-> k, run |-> run]] = queue[[kind |-> k, run |-> run]]
    BY <1>2 DEF Queued
  <2>1. [kind |-> k, run |-> run] \in Mail /\ [kind |-> k, run |-> run] # m
    BY <1>1, View
  <2>. QED  BY <2>1, FilterFrame
<1>5. \A b, k : Got(b, k)' <=> Got(b, k)
  <2>1. transit \subseteq transit' /\ \A l \in transit' : l \in transit \/ l.run = m.run
    BY Posted, CopyOf DEF Filter
  <2>. QED  BY <1>2, <2>1 DEF Got, Letters
<1>6. First # TagOf(m) /\ Second # TagOf(m)
  <2>1. TagOf(m) \in {TAG(minute[m.run]), TAG2(minute[m.run]), NoTag}
    BY FilterFrame DEF TagOf, Sent
  <2>2. {TAG(minute[m.run]), TAG2(minute[m.run])} \cap {First, Second} = {}
    BY <1>1, <1>3, OwnTags DEF First, Second
  <2>. QED  BY <1>2, <2>1, <2>2, TagAssumption
<1>. QED  BY <1>2, <1>4, <1>5, <1>6, FilterFrame

\* A mail of this run is handled, or handled and sent again.
LEMMA OwnMail ==
    ASSUME TypeOK, SmokeInv, pc # 0, NEW m \in Mail, Filter(m), m.run = run
    PROVE  /\ First' = First /\ Second' = Second /\ ToFirst' = ToFirst /\ ToSecond' = ToSecond
           /\ Queued(m.kind) > 0
           /\ \/ Queued(m.kind)' = Queued(m.kind) - 1 /\ retries' = retries
              \/ Queued(m.kind)' = Queued(m.kind) /\ retries' = retries + 1
           /\ \A k \in Sent : k # m.kind => Queued(k)' = Queued(k)
<1>1. Past
  BY DEF SmokeInv
<1>2. /\ m = [kind |-> m.kind, run |-> run] /\ m.kind \in Sent
      /\ UNCHANGED <<run, minute, inbox, pc, sent>> /\ First' = First /\ Second' = Second
  BY <1>1, FilterFrame, Frames
<1>3. /\ Queued(m.kind) > 0
      /\ \/ Queued(m.kind)' = Queued(m.kind) - 1 /\ retries' = retries
         \/ Queued(m.kind)' = Queued(m.kind) /\ retries' = retries + 1
  BY <1>2, FilterFrame DEF Queued
<1>4. \A k \in Sent : k # m.kind => Queued(k)' = Queued(k)
  <2>. SUFFICES ASSUME NEW k \in Sent, k # m.kind
                PROVE  queue'[[kind |-> k, run |-> run]] = queue[[kind |-> k, run |-> run]]
    BY <1>2 DEF Queued
  <2>1. [kind |-> k, run |-> run] \in Mail /\ [kind |-> k, run |-> run] # m
    BY <1>1, View
  <2>. QED  BY <2>1, FilterFrame
<1>. QED  BY <1>2, <1>3, <1>4 DEF ToFirst, ToSecond

\* Does a copy of a mail go to box b, as kind k?
Copied(m, b, k) ==
    /\ k = m.kind
    /\ \/ k = "consegna" /\ b \in {"verificatore", "director"}
       \/ k \in {"grazia", "oltre"} /\ b = "verificatore"

LEMMA CopiedTo ==
    ASSUME NEW m \in Mail, NEW b, NEW k
    PROVE  Copied(m, b, k) <=> \E l \in Copies(m) : l.box = b /\ l.kind = k /\ l.run = m.run
<1>. DEFINE to == CASE m.kind = "consegna" -> {"verificatore", "director"}
                    [] m.kind \in {"grazia", "oltre"} -> {"verificatore"}
                    [] m.kind \notin {"consegna", "grazia", "oltre"} -> {}
            letter(x) == [box |-> x, kind |-> m.kind, run |-> m.run, hop |-> increment_hop(NoHop)]
<1>1. Copies(m) = {letter(x) : x \in to}
  BY Zenon DEF Copies
<1>2. \A x \in to : letter(x).box = x /\ letter(x).kind = m.kind /\ letter(x).run = m.run
  OBVIOUS
<1>3. Copied(m, b, k) <=> k = m.kind /\ b \in to
  BY DEF Copied
<1>. HIDE DEF to, letter
<1>4. (\E l \in Copies(m) : l.box = b /\ l.kind = k /\ l.run = m.run) <=> k = m.kind /\ b \in to
  BY <1>1, <1>2
<1>. QED  BY <1>3, <1>4

\* Letters of this run after some are put on their way.
LEMMA Posting ==
    ASSUME NEW X, transit' = transit \cup X, UNCHANGED <<run, inbox>>
    PROVE  \A b, k : Got(b, k)' <=> \/ Got(b, k)
                                    \/ \E l \in X : l.box = b /\ l.kind = k /\ l.run = run
BY DEF Got, Letters

LEMMA Verdicts ==
    ASSUME TypeOK, NEW t, NEW n \in Nat
    PROVE  /\ VerdictOn(t, n) = "freeze" <=> sut.hard <= n
           /\ VerdictOn(t, n) = "accept_warn" <=> n < sut.hard /\ sut.warn <= n
<1>1. sut.hard \in Nat /\ sut.warn \in Nat
  BY SystemView
<1>. QED  BY <1>1 DEF VerdictOn

\* An accepted mail: counted, warned about past the budget, delivered.
LEMMA AcceptedOwn ==
    ASSUME TypeOK, NEW m \in Mail, Filter(m), m.run = run, Accepted(m),
           NEW t \in Tags, t = TagOf(m)
    PROVE  /\ ~frozen[t] /\ counted[t] < sut.hard
           /\ counted'[t] = counted[t] + 1 /\ frozen' = frozen
           /\ warned'[t] <=> warned[t] \/ sut.warn <= counted[t]
           /\ \A b, k : Got(b, k)' <=>
                \/ Got(b, k)
                \/ Copied(m, b, k) /\ (sut.grace \/ counted[t] < sut.warn)
                \/ /\ b = "caporedattore" /\ k = "in_margine"
                   /\ sut.warn <= counted[t] /\ ~warned[t]
<1>. DEFINE late == VerdictOn(t, counted[t]) = "accept_warn"
            copies == IF late /\ ~sut.grace THEN {} ELSE Copies(m)
            warning == IF late /\ ~warned[t] THEN Notice("caporedattore", "in_margine", m) ELSE {}
<1>1. /\ ~frozen[t] /\ VerdictOn(t, counted[t]) # "freeze" /\ frozen' = frozen
      /\ counted' = [counted EXCEPT ![t] = @ + 1]
      /\ warned' = [warned EXCEPT ![t] = @ \/ late]
      /\ transit' = transit \cup (copies \cup warning)
  <2>1. transit' = transit \cup copies \cup warning
    BY Zenon DEF Accepted
  <2>2. /\ ~frozen[t] /\ VerdictOn(t, counted[t]) # "freeze" /\ frozen' = frozen
        /\ counted' = [counted EXCEPT ![t] = @ + 1]
        /\ warned' = [warned EXCEPT ![t] = @ \/ late]
    BY Zenon DEF Accepted
  <2>. HIDE DEF copies, warning
  <2>. QED  BY <2>1, <2>2
<1>2. /\ counted \in [Tags -> Nat] /\ warned \in [Tags -> BOOLEAN] /\ counted[t] \in Nat
      /\ sut.warn \in Nat /\ sut.hard \in Nat
  BY SystemView DEF TypeOK
<1>3. counted[t] < sut.hard /\ (late <=> sut.warn <= counted[t])
  BY <1>1, <1>2, Verdicts
<1>. HIDE DEF late
<1>4. counted'[t] = counted[t] + 1
  BY <1>1, <1>2
<1>5. warned'[t] <=> warned[t] \/ late
  BY <1>1, <1>2
<1>6. \A b, k : Got(b, k)' <=>
        \/ Got(b, k)
        \/ \E l \in copies \cup warning : l.box = b /\ l.kind = k /\ l.run = run
  <2>. HIDE DEF copies, warning
  <2>. QED  BY <1>1, FilterFrame, Posting
<1>7. \A b, k : (\E l \in copies : l.box = b /\ l.kind = k /\ l.run = run)
                    <=> Copied(m, b, k) /\ ~(late /\ ~sut.grace)
  BY CopiedTo
<1>8. \A b, k : (\E l \in warning : l.box = b /\ l.kind = k /\ l.run = run)
                    <=> b = "caporedattore" /\ k = "in_margine" /\ late /\ ~warned[t]
  <2>1. CASE late /\ ~warned[t]
    <3>1. warning = Notice("caporedattore", "in_margine", m)
      BY <2>1, Zenon
    <3>2. \A b, k : (\E l \in Notice("caporedattore", "in_margine", m) :
                        l.box = b /\ l.kind = k /\ l.run = m.run)
                            <=> b = "caporedattore" /\ k = "in_margine"
      BY DEF Notice
    <3>. HIDE DEF warning
    <3>. QED  BY <2>1, <3>1, <3>2
  <2>2. CASE ~(late /\ ~warned[t])
    BY <2>2
  <2>. QED  BY <2>1, <2>2
<1>. HIDE DEF copies, warning
<1>9. ~(late /\ ~sut.grace) <=> sut.grace \/ counted[t] < sut.warn
  BY <1>2, <1>3
<1>10. \A b, k : Got(b, k)' <=>
        \/ Got(b, k)
        \/ Copied(m, b, k) /\ ~(late /\ ~sut.grace)
        \/ b = "caporedattore" /\ k = "in_margine" /\ late /\ ~warned[t]
  BY <1>6, <1>7, <1>8
<1>. QED  BY <1>1, <1>3, <1>4, <1>5, <1>9, <1>10

\* A held mail: the thread is frozen, the director is told once.
LEMMA HeldOwn ==
    ASSUME TypeOK, NEW m \in Mail, Filter(m), m.run = run, Held(m),
           NEW t \in Tags, t = TagOf(m)
    PROVE  /\ frozen[t] \/ sut.hard <= counted[t]
           /\ counted' = counted /\ warned' = warned /\ frozen' = [frozen EXCEPT ![t] = TRUE]
           /\ \A b, k : Got(b, k)' <=>
                \/ Got(b, k)
                \/ Copied(m, b, k) /\ ~sut.holds
                \/ b = "director" /\ k = "fusibile" /\ ~frozen[t]
<1>. DEFINE copies == IF sut.holds THEN {} ELSE Copies(m)
            notice == IF frozen[t] THEN {} ELSE Notice("director", "fusibile", m)
<1>1. /\ frozen[t] \/ VerdictOn(t, counted[t]) = "freeze"
      /\ counted' = counted /\ warned' = warned /\ frozen' = [frozen EXCEPT ![t] = TRUE]
      /\ transit' = transit \cup (copies \cup notice)
  <2>1. transit' = transit \cup copies \cup notice
    BY Zenon DEF Held
  <2>2. /\ frozen[t] \/ VerdictOn(t, counted[t]) = "freeze"
        /\ counted' = counted /\ warned' = warned /\ frozen' = [frozen EXCEPT ![t] = TRUE]
    BY DEF Held
  <2>. HIDE DEF copies, notice
  <2>. QED  BY <2>1, <2>2
<1>2. counted[t] \in Nat
  BY DEF TypeOK
<1>3. frozen[t] \/ sut.hard <= counted[t]
  BY <1>1, <1>2, Verdicts
<1>4. \A b, k : Got(b, k)' <=>
        \/ Got(b, k)
        \/ \E l \in copies \cup notice : l.box = b /\ l.kind = k /\ l.run = run
  <2>. HIDE DEF copies, notice
  <2>. QED  BY <1>1, FilterFrame, Posting
<1>5. \A b, k : (\E l \in copies : l.box = b /\ l.kind = k /\ l.run = run)
                    <=> Copied(m, b, k) /\ ~sut.holds
  BY CopiedTo
<1>6. \A b, k : (\E l \in notice : l.box = b /\ l.kind = k /\ l.run = run)
                    <=> b = "director" /\ k = "fusibile" /\ ~frozen[t]
  <2>1. CASE ~frozen[t]
    <3>1. notice = Notice("director", "fusibile", m)
      BY <2>1, Zenon
    <3>2. \A b, k : (\E l \in Notice("director", "fusibile", m) :
                        l.box = b /\ l.kind = k /\ l.run = m.run)
                            <=> b = "director" /\ k = "fusibile"
      BY DEF Notice
    <3>. HIDE DEF notice
    <3>. QED  BY <2>1, <3>1, <3>2
  <2>2. CASE frozen[t]
    BY <2>2
  <2>. QED  BY <2>1, <2>2
<1>. HIDE DEF copies, notice
<1>7. \A b, k : Got(b, k)' <=>
        \/ Got(b, k)
        \/ Copied(m, b, k) /\ ~sut.holds
        \/ b = "director" /\ k = "fusibile" /\ ~frozen[t]
  BY <1>4, <1>5, <1>6
<1>. QED  BY <1>1, <1>3, <1>7

\* A mail without a tag bounces, where the system refuses it.
LEMMA UntaggedOwn ==
    ASSUME TypeOK, NEW m \in Mail, Filter(m), m.run = run, m.kind = "senza_etichetta"
    PROVE  /\ UNCHANGED filter
           /\ \A b, k : Got(b, k)' <=>
                Got(b, k) \/ (b = "cronista" /\ k = "bounce" /\ sut.tagged)
<1>. DEFINE X == IF m.kind = "senza_etichetta" /\ sut.tagged THEN Notice("cronista", "bounce", m)
                 ELSE Copies(m)
<1>1. TagOf(m) = NoTag
  BY DEF TagOf
<1>2. UNCHANGED filter /\ transit' = transit \cup X
  BY <1>1 DEF Filter, Untagged, Accepted, Held
<1>3. \A b, k : (\E l \in X : l.box = b /\ l.kind = k /\ l.run = run)
                    <=> b = "cronista" /\ k = "bounce" /\ sut.tagged
  <2>1. CASE sut.tagged
    <3>1. X = Notice("cronista", "bounce", m)
      BY <2>1, Zenon
    <3>2. \A b, k : (\E l \in Notice("cronista", "bounce", m) :
                        l.box = b /\ l.kind = k /\ l.run = m.run)
                            <=> b = "cronista" /\ k = "bounce"
      BY DEF Notice
    <3>. HIDE DEF X
    <3>. QED  BY <2>1, <3>1, <3>2
  <2>2. CASE ~sut.tagged
    BY <2>2, CopiedTo DEF Copied
  <2>. QED  BY <2>1, <2>2
<1>. HIDE DEF X
<1>. QED  BY <1>2, <1>3, FilterFrame, Posting

\* What is said of a run in progress.
Underway == Counts /\ Signs /\ (Sound => Promised)

LEMMA OthersMailStep ==
    ASSUME TypeOK, SmokeInv, pc # 0, Underway, NEW m \in Mail, Filter(m), m.run # run
    PROVE  Underway'
<1>1. /\ UNCHANGED <<sut, agents_up, pc, sent>>
      /\ retries \in Nat /\ retries' \in Nat /\ retries <= retries'
  BY FilterFrame
<1>2. /\ \A k \in Sent : Queued(k)' = Queued(k)
      /\ \A b, k : Got(b, k)' <=> Got(b, k)
      /\ First' = First /\ Second' = Second
      /\ counted'[First] = counted[First] /\ counted'[Second] = counted[Second]
      /\ frozen'[First] = frozen[First] /\ frozen'[Second] = frozen[Second]
      /\ warned'[Second] = warned[Second]
  BY OthersMail
<1>3. OnSecond' = OnSecond /\ ToFirst' = ToFirst /\ ToSecond' = ToSecond
  BY <1>1, <1>2 DEF OnSecond, ToFirst, ToSecond, Sent
<1>4. /\ ToFirst \in Nat /\ ToSecond \in Nat /\ OnSecond \in Nat /\ sut.hard \in Nat
      /\ sut.warn \in Nat /\ counted[First] \in Nat /\ counted[Second] \in Nat
      /\ Queued("consegna") \in Nat
  BY View, SystemView DEF SmokeInv, Sent
<1>5. Counts'
  BY <1>1, <1>2, <1>3, <1>4 DEF Underway, Counts, Sent
<1>6. Signs'
  BY <1>1, <1>2, <1>3, <1>4 DEF Underway, Signs, Sent
<1>7. Sound' => Promised'
  <2>1. Sound' => Sound
    BY <1>1, Sizes DEF Sound
  <2>. QED  BY <1>1, <1>2, <1>3, <2>1 DEF Underway, Promised, Sent
<1>. QED  BY <1>5, <1>6, <1>7 DEF Underway

LEMMA UntaggedStep ==
    ASSUME TypeOK, SmokeInv, pc # 0, Underway, NEW m \in Mail, Filter(m), m.run = run,
           m.kind = "senza_etichetta"
    PROVE  Underway'
<1>1. /\ UNCHANGED <<sut, agents_up, pc, sent>>
      /\ retries \in Nat /\ retries' \in Nat /\ retries <= retries'
  BY FilterFrame
<1>2. /\ \A k \in Sent : k # "senza_etichetta" => Queued(k)' = Queued(k)
      /\ First' = First /\ Second' = Second /\ ToFirst' = ToFirst /\ ToSecond' = ToSecond
  BY OwnMail
<1>3. /\ UNCHANGED <<counted, warned, frozen>>
      /\ \A b, k : Got(b, k)' <=>
            Got(b, k) \/ (b = "cronista" /\ k = "bounce" /\ sut.tagged)
  BY UntaggedOwn DEF filter
<1>4. OnSecond' = OnSecond
  BY <1>2 DEF OnSecond, Sent
<1>5. /\ ToFirst \in Nat /\ ToSecond \in Nat /\ OnSecond \in Nat /\ sut.hard \in Nat
      /\ sut.warn \in Nat /\ counted[First] \in Nat /\ counted[Second] \in Nat
      /\ Queued("consegna") \in Nat
  BY View, SystemView DEF SmokeInv, Sent
<1>6. Counts'
  BY <1>1, <1>2, <1>3, <1>4, <1>5 DEF Underway, Counts, Sent
<1>7. Signs'
  BY <1>1, <1>2, <1>3, <1>5 DEF Underway, Signs, Sent
<1>8. Sound' => Promised'
  <2>1. Sound' => Sound /\ sut.tagged
    BY <1>1, Sizes, SystemView DEF Sound
  <2>2. Got("cronista", "bounce")' <=> Got("cronista", "bounce") \/ sut.tagged
    BY <1>3
  <2>. QED  BY <1>1, <1>2, <1>3, <1>4, <2>1, <2>2 DEF Underway, Promised, Sent
<1>. QED  BY <1>6, <1>7, <1>8 DEF Underway

\* The mail on the first thread: before the wipe it may be counted with retries.
LEMMA FirstStep ==
    ASSUME TypeOK, SmokeInv, pc # 0, Underway, NEW m \in Mail, Filter(m), m.run = run,
           m.kind = "consegna"
    PROVE  Underway'
<1>1. /\ UNCHANGED <<sut, agents_up, pc, sent>>
      /\ retries \in Nat /\ retries' \in Nat /\ retries <= retries'
  BY FilterFrame
<1>2. /\ \A k \in Sent : k # "consegna" => Queued(k)' = Queued(k)
      /\ Queued("consegna") > 0
      /\ \/ Queued("consegna")' = Queued("consegna") - 1 /\ retries' = retries
         \/ Queued("consegna")' = Queued("consegna") /\ retries' = retries + 1
      /\ First' = First /\ Second' = Second /\ ToFirst' = ToFirst /\ ToSecond' = ToSecond
  BY OwnMail
<1>3. OnSecond' = OnSecond
  BY <1>2 DEF OnSecond, Sent
<1>4. /\ ToFirst \in Nat /\ ToSecond \in Nat /\ OnSecond \in Nat /\ sut.hard \in Nat
      /\ sut.warn \in Nat /\ counted[First] \in Nat /\ counted[Second] \in Nat
      /\ Queued("consegna") \in Nat /\ First \in Tags /\ Second \in Tags /\ First # Second
  BY View, SystemView DEF SmokeInv, Sent
<1>5. First = TagOf(m) /\ First # NoTag
  BY <1>4, TagAssumption DEF TagOf, First
<1>6. counted[First] <= retries /\ counted[First] + 1 <= ToFirst + retries
  <2>1. ToFirst <= 1
    BY DEF ToFirst
  <2>. QED  BY <1>1, <1>2, <1>4, <2>1 DEF Underway, Counts
<1>7. /\ counted'[Second] = counted[Second] /\ frozen'[Second] = frozen[Second]
      /\ warned'[Second] = warned[Second]
  BY <1>4, <1>5, FilterFrame
<1>8. CASE Accepted(m)
  <2>1. /\ counted'[First] = counted[First] + 1 /\ frozen' = frozen
        /\ counted[First] < sut.hard
        /\ \A b, k : Got(b, k)' <=>
                \/ Got(b, k)
                \/ Copied(m, b, k) /\ (sut.grace \/ counted[First] < sut.warn)
                \/ /\ b = "caporedattore" /\ k = "in_margine"
                   /\ sut.warn <= counted[First] /\ ~warned[First]
    BY <1>4, <1>5, <1>8, AcceptedOwn
  <2>2. Counts'
    BY <1>1, <1>2, <1>3, <1>4, <1>6, <1>7, <2>1 DEF Underway, Counts, Sent
  <2>3. Signs'
    <3>1. Got("caporedattore", "in_margine")' =>
            Got("caporedattore", "in_margine") \/ sut.warn <= counted[First]
      BY <2>1 DEF Copied
    <3>2. /\ Got("cronista", "bounce")' <=> Got("cronista", "bounce")
          /\ Got("verificatore", "grazia")' <=> Got("verificatore", "grazia")
          /\ Got("director", "fusibile")' <=> Got("director", "fusibile")
          /\ Got("verificatore", "oltre")' <=> Got("verificatore", "oltre")
      BY <2>1 DEF Copied
    <3>. QED  BY <1>1, <1>2, <1>4, <1>6, <3>1, <3>2 DEF Underway, Signs, Sent
  <2>4. Sound' => Promised'
    <3>1. Sound' => Sound /\ sut.grace
      BY <1>1, Sizes, SystemView DEF Sound
    <3>2. sut.grace => Got("verificatore", "consegna")' /\ Got("director", "consegna")'
      BY <2>1 DEF Copied
    <3>3. /\ Got("cronista", "bounce") => Got("cronista", "bounce")'
          /\ Got("caporedattore", "in_margine") => Got("caporedattore", "in_margine")'
          /\ Got("verificatore", "grazia")' <=> Got("verificatore", "grazia")
          /\ Got("director", "fusibile")' <=> Got("director", "fusibile")
          /\ Got("verificatore", "oltre")' <=> Got("verificatore", "oltre")
      BY <2>1 DEF Copied
    <3>. QED  BY <1>1, <1>2, <1>3, <1>7, <2>1, <3>1, <3>2, <3>3 DEF Underway, Promised, Sent
  <2>. QED  BY <2>2, <2>3, <2>4 DEF Underway
<1>9. CASE Held(m)
  <2>1. /\ counted' = counted /\ (frozen[First] \/ sut.hard <= counted[First])
        /\ \A b, k : Got(b, k)' <=>
                \/ Got(b, k)
                \/ Copied(m, b, k) /\ ~sut.holds
                \/ b = "director" /\ k = "fusibile" /\ ~frozen[First]
    BY <1>4, <1>5, <1>9, HeldOwn
  <2>2. sut.hard <= retries
    BY <1>1, <1>4, <1>6, <2>1 DEF Underway, Counts
  <2>3. Counts'
    BY <1>1, <1>2, <1>3, <1>4, <1>6, <1>7, <2>1, <2>2 DEF Underway, Counts, Sent
  <2>4. Signs'
    <3>1. /\ Got("cronista", "bounce")' <=> Got("cronista", "bounce")
          /\ Got("verificatore", "grazia")' <=> Got("verificatore", "grazia")
          /\ Got("caporedattore", "in_margine")' <=> Got("caporedattore", "in_margine")
          /\ Got("verificatore", "oltre")' <=> Got("verificatore", "oltre")
      BY <2>1 DEF Copied
    <3>. QED  BY <1>1, <1>2, <1>4, <2>2, <3>1 DEF Underway, Signs, Sent
  <2>5. ~Sound'
    BY <1>1, <1>4, <2>2, Sizes, SystemView DEF Sound
  <2>. QED  BY <2>3, <2>4, <2>5 DEF Underway
<1>. QED  BY <1>5, <1>8, <1>9 DEF Filter, Untagged

\* A mail on the second thread is counted or held: the budget, the margin and
\* the freeze are told from each other by what the script knows was counted.
LEMMA SecondStep ==
    ASSUME TypeOK, SmokeInv, pc \in 1 .. 19, Underway, NEW m \in Mail, Filter(m), m.run = run,
           m.kind \in {"riempimento", "grazia", "oltre"}
    PROVE  Underway'
<1>1. /\ UNCHANGED <<sut, agents_up, pc, sent>>
      /\ retries \in Nat /\ retries' \in Nat /\ retries <= retries'
  BY FilterFrame
<1>2. /\ \A k \in Sent : k # m.kind => Queued(k)' = Queued(k)
      /\ Queued(m.kind) > 0
      /\ \/ Queued(m.kind)' = Queued(m.kind) - 1 /\ retries' = retries
         \/ Queued(m.kind)' = Queued(m.kind) /\ retries' = retries + 1
      /\ First' = First /\ Second' = Second /\ ToFirst' = ToFirst /\ ToSecond' = ToSecond
  BY OwnMail
<1>3. /\ ToFirst \in Nat /\ ToSecond \in Nat /\ OnSecond \in Nat /\ sut.hard \in Nat
      /\ sut.warn \in Nat /\ counted[First] \in Nat /\ counted[Second] \in Nat
      /\ \A k \in Sent : Queued(k) \in Nat
      /\ Queued("consegna") \in Nat
      /\ First \in Tags /\ Second \in Tags /\ First # Second
  <2>1. pc # 0
    OBVIOUS
  <2>. QED  BY <2>1, View, SystemView DEF SmokeInv, Sent
<1>4. /\ OnSecond > 0 /\ OnSecond' \in Nat
      /\ \/ OnSecond' = OnSecond - 1 /\ retries' = retries
         \/ OnSecond' = OnSecond /\ retries' = retries + 1
  BY <1>2, <1>3 DEF OnSecond, Sent
<1>5. Second = TagOf(m) /\ Second # NoTag
  BY <1>3, TagAssumption DEF TagOf, Second
<1>6. /\ counted'[First] = counted[First] /\ frozen'[First] = frozen[First]
  BY <1>3, <1>5, FilterFrame
<1>7. /\ counted[Second] < ToSecond + retries
      /\ counted[Second] + 1 + OnSecond' <= ToSecond + retries'
      /\ counted[Second] + OnSecond' <= ToSecond + retries'
  BY <1>1, <1>3, <1>4 DEF Underway, Counts
<1>8. /\ m.kind = "grazia" => pc > 11 /\ Budget <= counted[Second]
      /\ m.kind = "oltre" => pc > 16 /\ HardLimit(Budget) <= counted[Second]
  BY <1>2 DEF Underway, Counts
<1>9. /\ \A kind \in {"fuori_matrice", "servizio", "risposta"} : Queued(kind)' = 0
      /\ Queued("consegna")' = Queued("consegna")
      /\ pc <= 11 => Queued("grazia")' = 0
      /\ pc <= 16 => Queued("oltre")' = 0
  <2>1. /\ m.kind # "grazia" => Queued("grazia")' = Queued("grazia")
        /\ m.kind # "oltre" => Queued("oltre")' = Queued("oltre")
        /\ Queued("consegna")' = Queued("consegna")
        /\ \A kind \in {"fuori_matrice", "servizio", "risposta"} : Queued(kind)' = Queued(kind)
    BY <1>2 DEF Sent
  <2>. QED  BY <1>8, <2>1 DEF Underway, Counts
<1>10. /\ Queued("senza_etichetta")' = Queued("senza_etichetta")
       /\ Queued("oltre")' > 0 => Queued("oltre") > 0
       /\ m.kind # "oltre" /\ Queued("oltre") > 0 => Queued("oltre")' > 0
       /\ m.kind # "grazia" /\ Queued("grazia") > 0 => Queued("grazia")' > 0
  BY <1>2, <1>3 DEF Sent
<1>11. CASE Accepted(m)
  <2>1. /\ ~frozen[Second] /\ counted[Second] < sut.hard
        /\ counted'[Second] = counted[Second] + 1 /\ frozen' = frozen
        /\ warned'[Second] <=> warned[Second] \/ sut.warn <= counted[Second]
        /\ \A b, k : Got(b, k)' <=>
                \/ Got(b, k)
                \/ Copied(m, b, k) /\ (sut.grace \/ counted[Second] < sut.warn)
                \/ /\ b = "caporedattore" /\ k = "in_margine"
                   /\ sut.warn <= counted[Second] /\ ~warned[Second]
    BY <1>3, <1>5, <1>11, AcceptedOwn
  <2>2. Counts'
    <3>1. ~(pc <= 2)
      BY <1>4 DEF Underway, Counts
    <3>. QED  BY <1>1, <1>2, <1>3, <1>6, <1>7, <1>9, <2>1, <3>1, Sizes DEF Underway, Counts
  <2>3. /\ Got("cronista", "bounce")' <=> Got("cronista", "bounce")
        /\ Got("director", "fusibile")' <=> Got("director", "fusibile")
        /\ Got("caporedattore", "in_margine")' <=>
              Got("caporedattore", "in_margine") \/ (sut.warn <= counted[Second] /\ ~warned[Second])
        /\ Got("verificatore", "grazia")' <=>
              \/ Got("verificatore", "grazia")
              \/ m.kind = "grazia" /\ (sut.grace \/ counted[Second] < sut.warn)
        /\ Got("verificatore", "oltre")' <=>
              \/ Got("verificatore", "oltre")
              \/ m.kind = "oltre" /\ (sut.grace \/ counted[Second] < sut.warn)
        /\ Got("verificatore", "consegna")' <=> Got("verificatore", "consegna")
        /\ Got("director", "consegna")' <=> Got("director", "consegna")
    BY <2>1 DEF Copied
  <2>4. Signs'
    <3>1. Got("caporedattore", "in_margine")' =>
            sut'.warn < ToSecond' + retries' \/ sut'.warn <= retries'
      BY <1>1, <1>2, <1>3, <1>7, <2>3 DEF Underway, Signs
    <3>2. Got("verificatore", "grazia")' /\ sut'.warn <= Budget =>
            sut'.grace \/ sut'.hard < ToSecond' + retries'
      BY <1>1, <1>2, <1>3, <1>8, <2>3, Sizes DEF Underway, Signs
    <3>3. pc > 16 => \/ Queued("oltre")' > 0 \/ Got("verificatore", "oltre")' \/ sut'.holds
                     \/ ~sut'.grace /\ HardLimit(Budget) < sut'.hard
      <4>1. CASE m.kind = "oltre"
        BY <1>1, <1>3, <1>8, <2>1, <2>3, <4>1, Sizes, SystemView
      <4>2. CASE m.kind # "oltre"
        BY <1>1, <1>10, <2>3, <4>2 DEF Underway, Signs
      <4>. QED  BY <4>1, <4>2
    <3>. QED  BY <1>1, <1>2, <1>3, <2>3, <3>1, <3>2, <3>3 DEF Underway, Signs
  <2>5. Sound' => Promised'
    <3>. SUFFICES ASSUME Sound' PROVE Promised'
      OBVIOUS
    <3>1. /\ Promised /\ sut.warn = Budget /\ sut.hard = HardLimit(Budget) /\ sut.grace
      BY <1>1, Sizes, SystemView DEF Sound, Underway
    <3>2. m.kind # "oltre"
      BY <1>3, <1>8, <2>1, <3>1, Sizes
    <3>3. ToSecond' <= counted'[Second'] + OnSecond' \/ HardLimit(Budget) <= counted'[Second']
      BY <1>1, <1>2, <1>3, <1>4, <2>1, <3>1, Sizes DEF Promised
    <3>4. /\ counted'[Second'] > Budget => warned'[Second']
          /\ warned'[Second'] => Got("caporedattore", "in_margine")'
      BY <1>2, <1>3, <2>1, <2>3, <3>1, Sizes DEF Promised
    <3>5. pc \in {12, 13} => Queued("grazia")' > 0 \/ Got("verificatore", "grazia")'
      BY <1>10, <2>3, <3>1 DEF Promised
    <3>. QED  BY <1>1, <1>2, <1>9, <1>10, <2>1, <2>3, <3>1, <3>2, <3>3, <3>4, <3>5 DEF Promised
  <2>. QED  BY <2>2, <2>4, <2>5 DEF Underway
<1>12. CASE Held(m)
  <2>1. /\ frozen[Second] \/ sut.hard <= counted[Second]
        /\ counted' = counted /\ warned' = warned /\ frozen' = [frozen EXCEPT ![Second] = TRUE]
        /\ \A b, k : Got(b, k)' <=>
                \/ Got(b, k)
                \/ Copied(m, b, k) /\ ~sut.holds
                \/ b = "director" /\ k = "fusibile" /\ ~frozen[Second]
    BY <1>3, <1>5, <1>12, HeldOwn
  <2>2. sut.hard <= counted[Second] /\ sut.hard < ToSecond + retries /\ frozen'[Second]
    <3>1. frozen \in [Tags -> BOOLEAN]
      BY DEF TypeOK
    <3>. QED  BY <1>1, <1>3, <1>7, <2>1, <3>1 DEF Underway, Counts
  <2>3. Counts'
    <3>1. ~(pc <= 2)
      BY <1>4 DEF Underway, Counts
    <3>. QED  BY <1>1, <1>2, <1>3, <1>6, <1>7, <1>9, <2>1, <2>2, <3>1 DEF Underway, Counts
  <2>4. /\ Got("cronista", "bounce")' <=> Got("cronista", "bounce")
        /\ Got("director", "fusibile")' <=> Got("director", "fusibile") \/ ~frozen[Second]
        /\ Got("caporedattore", "in_margine")' <=> Got("caporedattore", "in_margine")
        /\ Got("verificatore", "grazia")' <=>
              Got("verificatore", "grazia") \/ (m.kind = "grazia" /\ ~sut.holds)
        /\ Got("verificatore", "oltre")' <=>
              Got("verificatore", "oltre") \/ (m.kind = "oltre" /\ ~sut.holds)
        /\ Got("verificatore", "consegna")' <=> Got("verificatore", "consegna")
        /\ Got("director", "consegna")' <=> Got("director", "consegna")
    BY <2>1 DEF Copied
  <2>5. Signs'
    <3>1. sut'.hard < ToSecond' + retries'
      BY <1>1, <1>2, <1>3, <2>2
    <3>2. Got("caporedattore", "in_margine")' =>
            sut'.warn < ToSecond' + retries' \/ sut'.warn <= retries'
      BY <1>1, <1>2, <1>3, <2>4 DEF Underway, Signs
    <3>3. pc > 16 => \/ Queued("oltre")' > 0 \/ Got("verificatore", "oltre")' \/ sut'.holds
                     \/ ~sut'.grace /\ HardLimit(Budget) < sut'.hard
      BY <1>1, <1>10, <2>4, SystemView DEF Underway, Signs
    <3>. QED  BY <1>1, <2>4, <3>1, <3>2, <3>3 DEF Underway, Signs
  <2>6. Sound' => Promised'
    <3>. SUFFICES ASSUME Sound' PROVE Promised'
      OBVIOUS
    <3>1. /\ Promised /\ sut.hard = HardLimit(Budget) /\ sut.holds
          /\ retries < grace_margin(Budget)
      BY <1>1, Sizes, SystemView DEF Sound, Underway
    <3>2. pc \in {12, 13} => Queued("grazia")' > 0 \/ Got("verificatore", "grazia")'
      <4>1. ~(pc \in {12, 13})
        <5>. SUFFICES ASSUME pc \in {12, 13} PROVE FALSE
          OBVIOUS
        <5>1. sent = 0
          <6>1. ScriptTypes /\ Flooding
            BY TypeParts
          <6>2. Step.op # "flood"
            BY ScriptSteps DEF Step, IsAwait
          <6>. QED  BY <6>1, <6>2, NoFlood
        <5>2. ToSecond = Budget + 1
          BY <5>1, Sizes DEF ToSecond
        <5>. QED  BY <1>1, <1>3, <1>7, <2>2, <3>1, <5>2, Sizes
      <4>. QED  BY <4>1
    <3>3. ToSecond' <= counted'[Second'] + OnSecond' \/ HardLimit(Budget) <= counted'[Second']
      BY <1>2, <2>1, <2>2, <3>1
    <3>4. frozen'[Second'] /\ Got("director", "fusibile")'
      BY <1>2, <2>2, <2>4, <3>1 DEF Promised
    <3>. QED  BY <1>1, <1>2, <1>9, <1>10, <2>1, <2>4, <3>1, <3>2, <3>3, <3>4 DEF Promised
  <2>. QED  BY <2>3, <2>5, <2>6 DEF Underway
<1>. QED  BY <1>5, <1>11, <1>12 DEF Filter, Untagged

LEMMA FilterStep ==
    ASSUME TypeOK, SmokeInv, NEW m \in Mail, Filter(m)
    PROVE  SmokeInv'
<1>1. Past' /\ Learnt' /\ PassMeansFuse' /\ NoFalseAlarm' /\ pc' = pc
  <2>1. UNCHANGED <<sut, run, pc, verdict, slow, inbox>> /\ retries' \in Nat /\ retries <= retries'
    BY FilterFrame
  <2>. QED  BY <2>1, FilterPast, KnowledgeKept DEF SmokeInv
<1>2. CASE pc \notin 1 .. 19
  BY <1>1, <1>2 DEF SmokeInv
<1>3. CASE pc \in 1 .. 19
  <2>1. Underway /\ pc # 0
    BY <1>3 DEF SmokeInv, Underway
  <2>2. Underway'
    <3>1. CASE m.run # run
      BY <2>1, <3>1, OthersMailStep
    <3>2. CASE m.run = run
      <4>1. m.kind \in Sent /\ Queued(m.kind) > 0
        BY <2>1, <3>2, OwnMail, FilterFrame
      <4>2. m.kind \notin {"fuori_matrice", "servizio", "risposta"}
        BY <2>1, <4>1 DEF Underway, Counts
      <4>3. CASE m.kind = "consegna"
        BY <2>1, <3>2, <4>3, FirstStep
      <4>4. CASE m.kind = "senza_etichetta"
        BY <2>1, <3>2, <4>4, UntaggedStep
      <4>5. CASE m.kind \in {"riempimento", "grazia", "oltre"}
        BY <1>3, <2>1, <3>2, <4>5, SecondStep
      <4>. QED  BY <4>1, <4>2, <4>3, <4>4, <4>5 DEF Sent
    <3>. QED  BY <3>1, <3>2
  <2>. QED  BY <1>1, <2>2 DEF SmokeInv, Underway
<1>. QED  BY <1>2, <1>3

-----------------------------------------------------------------------------
(* The script.                                                             *)

\* The script goes on to its next step; a run ends with verdict v.
Goes == pc' = pc + 1 /\ UNCHANGED <<sent, verdict, agents_up>>

LEMMA Advancing ==
    ASSUME pc \in 1 .. 19, Advance
    PROVE  Goes
BY ScriptSteps DEF Advance, Goes

\* No more mail is under way, or the run is marked as one that did not wait.
Waited == slow' = slow /\ transit = {} /\ \A m \in Mail : queue[m] = 0

LEMMA Waiting ==
    ASSUME TypeOK, Expired
    PROVE  Waited \/ (slow' = slow + 1 /\ slow' > 0)
<1>1. slow \in Nat
  BY SmokeAssumption DEF TypeOK
<1>. QED  BY <1>1 DEF Expired, Idle, Waited

LEMMA NothingQueued ==
    ASSUME TypeOK, Past, pc # 0, Waited
    PROVE  \A k \in Sent : Queued(k) = 0
BY View DEF Waited, Queued

LEMMA SendStep ==
    ASSUME TypeOK, Past, ScriptStep, NEW kind \in Sent, NEW refused \in BOOLEAN,
           IsSend(pc, kind, refused)
    PROVE  /\ UNCHANGED <<filter, slow>>
           /\ \/ /\ Accepts(kind) /\ Queued(kind)' = Queued(kind) + 1
                 /\ \A k \in Sent : k # kind => Queued(k)' = Queued(k)
              \/ ~Accepts(kind) /\ \A k \in Sent : Queued(k)' = Queued(k)
           /\ \/ (Accepts(kind) <=> refused) /\ Ends("fail")
              \/ ~(Accepts(kind) <=> refused) /\ Advance
<1>1. Step.kind = kind /\ Step.expect_refused = refused /\ Step.op = "send"
  BY DEF IsSend, Step
<1>2. cmd_send
  BY <1>1 DEF ScriptStep, compose, Wipe, cmd_flood, cmd_await, await_filter_count
<1>3. /\ queue' = IF Accepts(kind) THEN Enqueue(kind) ELSE queue
      /\ IF Accepts(kind) = refused THEN Ends("fail") ELSE Advance
      /\ UNCHANGED <<filter, slow>>
  BY <1>1, <1>2, Zenon DEF cmd_send
<1>4. run \in Runs /\ run' = run /\ minute' = minute
  BY ScriptFrame, View
<1>5. CASE Accepts(kind)
  <2>1. queue' = Enqueue(kind)
    BY <1>3, <1>5, Zenon
  <2>2. /\ Queued(kind)' = Queued(kind) + 1
        /\ \A k \in Sent : k # kind => Queued(k)' = Queued(k)
    BY <1>4, <2>1, Enqueued
  <2>3. \/ (Accepts(kind) <=> refused) /\ Ends("fail")
        \/ ~(Accepts(kind) <=> refused) /\ Advance
    BY <1>3, <1>5
  <2>. QED  BY <1>3, <1>5, <2>2, <2>3
<1>6. CASE ~Accepts(kind)
  <2>1. UNCHANGED queue
    BY <1>3, <1>6, Zenon
  <2>2. \A k \in Sent : Queued(k)' = Queued(k)
    BY <1>4, <2>1, Frames
  <2>3. Accepts(kind) \in BOOLEAN
    BY SystemView DEF Accepts
  <2>4. \/ (Accepts(kind) <=> refused) /\ Ends("fail")
        \/ ~(Accepts(kind) <=> refused) /\ Advance
    BY <1>3, <1>6, <2>3
  <2>. QED  BY <1>3, <1>6, <2>2, <2>4
<1>. QED  BY <1>5, <1>6

LEMMA FloodStep ==
    ASSUME TypeOK, Past, ScriptStep, Step.op = "flood", NEW n \in Nat, n > 0, Step.count = n
    PROVE  /\ UNCHANGED <<filter, slow, verdict, agents_up>>
           /\ Queued("riempimento")' = Queued("riempimento") + 1
           /\ \A k \in Sent : k # "riempimento" => Queued(k)' = Queued(k)
           /\ sent \in Nat /\ sent < n
           /\ \/ sent + 1 = n /\ sent' = 0 /\ pc' = pc + 1
              \/ sent + 1 < n /\ sent' = sent + 1 /\ pc' = pc
<1>1. cmd_flood
  BY DEF ScriptStep, compose, Wipe, cmd_send, cmd_await, await_filter_count
<1>2. /\ UNCHANGED <<filter, slow, verdict, agents_up>> /\ queue' = Enqueue("riempimento")
      /\ sent' = (sent + 1) % n /\ pc' = IF sent' = 0 THEN pc + 1 ELSE pc
  BY <1>1 DEF cmd_flood
<1>3. run \in Runs /\ run' = run
  BY ScriptFrame, View
<1>4. sent \in Nat /\ sent < n
  <2>1. sent \in Nat /\ Flooding
    BY TypeParts, Sizes DEF ScriptTypes
  <2>. QED  BY <2>1 DEF Flooding
<1>5. \/ sent + 1 = n /\ (sent + 1) % n = 0
      \/ sent + 1 < n /\ (sent + 1) % n = sent + 1
  BY <1>4
<1>6. \/ sent + 1 = n /\ sent' = 0 /\ pc' = pc + 1
      \/ sent + 1 < n /\ sent' = sent + 1 /\ pc' = pc
  BY <1>2, <1>4, <1>5
<1>7. /\ Queued("riempimento")' = Queued("riempimento") + 1
      /\ \A k \in Sent : k # "riempimento" => Queued(k)' = Queued(k)
  BY <1>2, <1>3, Enqueued DEF Sent
<1>. QED  BY <1>2, <1>4, <1>6, <1>7

LEMMA CountStep ==
    ASSUME TypeOK, Past, ScriptStep, Step.op = "await_filter_count", NEW n \in Nat,
           Step.count = n
    PROVE  /\ UNCHANGED <<queue, filter>>
           /\ \/ n <= counted[Second] /\ Advance /\ slow' = slow
              \/ counted[Second] < n /\ Expired /\ Ends("fail")
<1>1. await_filter_count
  BY DEF ScriptStep, compose, Wipe, cmd_send, cmd_flood, cmd_await
<1>2. counted[Second] \in Nat
  BY View, ScriptFrame
<1>. QED  BY <1>1, <1>2 DEF await_filter_count, Second

\* What an await looks for is a letter of this run, unless it goes by the text.
LEMMA AwaitStep ==
    ASSUME TypeOK, Past, ScriptStep, NEW box, NEW kind, NEW hop, NEW absent \in BOOLEAN,
           NEW by \in {"tag", "nonce", "text"}, IsAwait(pc, box, kind, by, hop, absent)
    PROVE  /\ UNCHANGED <<queue, filter>>
           /\ \/ /\ slow' = slow
                 /\ \E l \in inbox : /\ l.box = box /\ l.kind = kind
                                     /\ by # "text" => l.run = run
                                     /\ \/ (absent \/ hop \notin {NoHop, l.hop}) /\ Ends("fail")
                                        \/ ~absent /\ hop \in {NoHop, l.hop} /\ Advance
              \/ /\ \A l \in inbox : ~(l.box = box /\ l.kind = kind /\ l.run = run)
                 /\ Expired /\ ((absent /\ Advance) \/ (~absent /\ Ends("fail")))
<1>1. /\ Step.op = "await" /\ Step.box = box /\ Step.kind = kind /\ Step.by = by
      /\ Step.expect_hop = hop /\ Step.expect_absent = absent
  BY DEF IsAwait, Step
<1>2. cmd_await
  BY <1>1 DEF ScriptStep, compose, Wipe, cmd_send, cmd_flood, await_filter_count
<1>3. \A l \in inbox : l.run \in 1 .. run
  BY DEF Past, Letters
<1>4. run \in 1 .. run
  BY View, ScriptFrame
<1>5. \A l \in inbox : Names(Step, l) /\ by # "text" => l.run = run
  <2>. SUFFICES ASSUME NEW l \in inbox, Names(Step, l), by # "text" PROVE l.run = run
    OBVIOUS
  <2>1. CASE by = "tag"
    <3>1. TAG(minute[l.run]) = TAG(minute[run])
      BY <1>1, <2>1 DEF Names
    <3>. QED  BY <1>3, <1>4, <3>1, OwnTags
  <2>2. CASE by = "nonce"
    BY <1>1, <2>2 DEF Names
  <2>. QED  BY <2>1, <2>2
<1>6. \A l \in inbox : l.run = run => Names(Step, l)
  BY <1>1 DEF Names
<1>7. /\ UNCHANGED <<queue, filter>>
      /\ \/ /\ slow' = slow
            /\ \E l \in search_inbox(Step) :
                    IF absent \/ hop \notin {NoHop, l.hop} THEN Ends("fail") ELSE Advance
         \/ /\ search_inbox(Step) = {} /\ Expired
            /\ IF absent THEN Advance ELSE Ends("fail")
  BY <1>1, <1>2 DEF cmd_await
<1>8. CASE /\ slow' = slow
           /\ \E l \in search_inbox(Step) :
                    IF absent \/ hop \notin {NoHop, l.hop} THEN Ends("fail") ELSE Advance
  <2>1. PICK l \in search_inbox(Step) :
            IF absent \/ hop \notin {NoHop, l.hop} THEN Ends("fail") ELSE Advance
    BY <1>8
  <2>2. l \in inbox /\ l.box = box /\ l.kind = kind /\ Names(Step, l)
    BY <1>1, <2>1 DEF search_inbox
  <2>3. by # "text" => l.run = run
    BY <1>5, <2>2
  <2>4. \/ (absent \/ hop \notin {NoHop, l.hop}) /\ Ends("fail")
        \/ ~absent /\ hop \in {NoHop, l.hop} /\ Advance
    BY <2>1
  <2>. QED  BY <1>7, <1>8, <2>2, <2>3, <2>4
<1>9. CASE /\ search_inbox(Step) = {} /\ Expired
           /\ IF absent THEN Advance ELSE Ends("fail")
  <2>1. \A l \in inbox : ~(l.box = box /\ l.kind = kind /\ l.run = run)
    BY <1>1, <1>6, <1>9 DEF search_inbox
  <2>2. (absent /\ Advance) \/ (~absent /\ Ends("fail"))
    BY <1>9
  <2>. QED  BY <1>7, <1>9, <2>1, <2>2
<1>. QED  BY <1>7, <1>8, <1>9

\* Where a step of the script leaves the run, and what has to be shown of it.
LEMMA GoesOn ==
    ASSUME TypeOK, SmokeInv, ScriptStep, pc' \in {pc, pc + 1}, pc' \in 1 .. 19,
           Learnt', Underway'
    PROVE  SmokeInv'
<1>1. Past' /\ verdict' = "none"
  <2>1. Past'
    BY ScriptPast DEF SmokeInv
  <2>2. verdict = "none" /\ pc' # 0
    BY View, ScriptFrame DEF SmokeInv
  <2>. QED  BY <2>1, <2>2, ScriptPlace
<1>. QED  BY <1>1 DEF SmokeInv, Underway, PassMeansFuse, NoFalseAlarm

LEMMA Failing ==
    ASSUME TypeOK, SmokeInv, ScriptStep, Ends("fail"),
           Sound /\ slow' = 0 => Leftover("oltre")
    PROVE  SmokeInv'
<1>1. Past' /\ pc' = 0 /\ verdict' = "fail"
  BY ScriptPast DEF SmokeInv, Ends
<1>2. UNCHANGED <<sut, retries>> /\ (Leftover("oltre")' <=> Leftover("oltre"))
  BY ScriptFrame
<1>. QED  BY <1>1, <1>2 DEF SmokeInv, Learnt, PassMeansFuse, NoFalseAlarm, Sound

\* What is learnt at a step, besides what was known.
LEMMA Learning ==
    ASSUME TypeOK, SmokeInv, ScriptStep, pc' = pc \/ pc' = pc + 1,
           slow' = slow \/ slow' > 0,
           pc' = 7 => sut.matrix,
           pc' = 9 => pc = 9 \/ sut.tagged,
           pc' = 13 /\ retries = 0 => sut.warn <= Budget,
           pc' = 14 => \/ pc = 14
                       \/ sut.warn <= Budget =>
                            sut.grace \/ Leftover("grazia") \/ sut.hard <= Budget + retries,
           pc' = 16 => HardLimit(Budget) <= sut.hard,
           pc' = 18 /\ retries = 0 => sut.hard <= HardLimit(Budget),
           pc' = 19 /\ (retries = 0 \/ sut.grace) => sut.holds \/ slow' > 0
    PROVE  Learnt'
<1>1. /\ UNCHANGED <<sut, retries>>
      /\ \A k : Leftover(k)' <=> Leftover(k)
  BY ScriptFrame
<1>2. pc \in 1 .. 20 /\ Learnt /\ slow \in Nat
  BY View, ScriptFrame DEF SmokeInv
<1>3. (pc' > 6 => sut.matrix) /\ (pc' > 8 => sut.tagged)
  BY <1>2 DEF Learnt
<1>4. /\ pc' > 12 => (retries = 0 => sut.warn <= Budget)
      /\ pc' > 15 => HardLimit(Budget) <= sut.hard
      /\ pc' > 17 => (retries = 0 => sut.hard <= HardLimit(Budget))
  BY <1>2 DEF Learnt
<1>5. pc' > 13 => (sut.warn <= Budget =>
                      sut.grace \/ Leftover("grazia") \/ sut.hard <= Budget + retries)
  BY <1>2 DEF Learnt
<1>6. pc' > 18 => (retries = 0 \/ sut.grace => sut.holds \/ slow' > 0)
  BY <1>2 DEF Learnt
<1>. QED  BY <1>1, <1>3, <1>4, <1>5, <1>6 DEF Learnt

\* A step that sends nothing, past which nothing more is claimed of the mail.
LEMMA Quiet ==
    ASSUME TypeOK, SmokeInv, ScriptStep, Underway, UNCHANGED <<queue, filter>>, Goes,
           pc \in {4, 5, 6, 8, 10, 12, 13, 15, 17, 18}, sent = 0,
           pc = 10 => Budget <= counted[Second],
           pc = 15 => HardLimit(Budget) <= counted[Second]
    PROVE  Underway'
<1>1. /\ UNCHANGED <<sut, retries, counted, warned, frozen, agents_up>> /\ pc' = pc + 1 /\ sent' = 0
      /\ First' = First /\ Second' = Second
      /\ \A k \in Sent : Queued(k)' = Queued(k)
      /\ \A b, k : Got(b, k)' <=> Got(b, k)
  BY ScriptFrame, Frames DEF filter, Goes
<1>2. OnSecond' = OnSecond /\ ToFirst' = ToFirst /\ ToSecond' = ToSecond
  <2>1. OnSecond' = OnSecond
    BY <1>1 DEF OnSecond, Sent
  <2>2. (pc' > 3 <=> pc > 3) /\ (pc' > 9 <=> pc > 9) /\ (pc' > 11 <=> pc > 11)
        /\ (pc' > 14 <=> pc > 14) /\ (pc' > 16 <=> pc > 16) /\ sent' = sent
    BY <1>1
  <2>. QED  BY <2>1, <2>2 DEF ToFirst, ToSecond
<1>3. Counts'
  BY <1>1, <1>2 DEF Underway, Counts, Sent
<1>4. Signs'
  BY <1>1, <1>2 DEF Underway, Signs, Sent
<1>5. Sound' => Promised'
  <2>1. Sound' => Sound
    BY <1>1 DEF Sound
  <2>. QED  BY <1>1, <1>2, <2>1 DEF Underway, Promised, Sent
<1>. QED  BY <1>3, <1>4, <1>5 DEF Underway

\* The mails of the run: each is promised the moment it is sent.
LEMMA Sending ==
    ASSUME TypeOK, SmokeInv, ScriptStep, Underway, UNCHANGED filter, Goes, sent = 0,
           NEW kind, <<pc, kind>> \in {<<3, "consegna">>, <<7, "senza_etichetta">>,
                                       <<11, "grazia">>, <<16, "oltre">>},
           Queued(kind)' = Queued(kind) + 1,
           \A k \in Sent : k # kind => Queued(k)' = Queued(k)
    PROVE  Underway'
<1>1. /\ UNCHANGED <<sut, retries, counted, warned, frozen, agents_up>> /\ pc' = pc + 1 /\ sent' = 0
      /\ First' = First /\ Second' = Second
      /\ \A b, k : Got(b, k)' <=> Got(b, k)
  BY ScriptFrame, Frames DEF filter, Goes
<1>2. /\ \A k \in Sent : Queued(k) \in Nat
      /\ Queued("consegna") \in Nat /\ Queued("senza_etichetta") \in Nat
      /\ Queued("riempimento") \in Nat /\ Queued("grazia") \in Nat /\ Queued("oltre") \in Nat
      /\ counted[First] \in Nat /\ counted[Second] \in Nat /\ retries \in Nat
      /\ sut.hard \in Nat /\ sut.warn \in Nat
  BY View, ScriptFrame, SystemView DEF SmokeInv, Sent
<1>3. Sound' => Sound
  BY <1>1 DEF Sound
<1>4. CASE pc = 3 /\ kind = "consegna"
  <2>1. /\ Queued("consegna")' = Queued("consegna") + 1
        /\ \A k \in Sent : k # "consegna" => Queued(k)' = Queued(k)
        /\ pc' = 4
    BY <1>1, <1>4
  <2>2. /\ OnSecond' = OnSecond /\ ToFirst = 0 /\ ToFirst' = 1
        /\ ToSecond = 0 /\ ToSecond' = 0
    BY <1>1, <1>4, <2>1, Sizes DEF OnSecond, ToFirst, ToSecond, Sent
  <2>3. Counts'
    BY <1>1, <1>2, <1>4, <2>1, <2>2 DEF Underway, Counts, Sent
  <2>4. Signs'
    BY <1>1, <1>2, <1>4, <2>1, <2>2 DEF Underway, Signs
  <2>5. Sound' => Promised'
    BY <1>1, <1>2, <1>3, <1>4, <2>1, <2>2 DEF Underway, Promised
  <2>. QED  BY <2>3, <2>4, <2>5 DEF Underway
<1>5. CASE pc = 7 /\ kind = "senza_etichetta"
  <2>1. /\ Queued("senza_etichetta")' = Queued("senza_etichetta") + 1
        /\ \A k \in Sent : k # "senza_etichetta" => Queued(k)' = Queued(k)
        /\ pc' = 8
    BY <1>1, <1>5
  <2>2. /\ OnSecond' = OnSecond /\ ToFirst = 1 /\ ToFirst' = 1
        /\ ToSecond = 0 /\ ToSecond' = 0
    BY <1>1, <1>5, <2>1, Sizes DEF OnSecond, ToFirst, ToSecond, Sent
  <2>3. Counts'
    BY <1>1, <1>2, <1>5, <2>1, <2>2 DEF Underway, Counts, Sent
  <2>4. Signs'
    BY <1>1, <1>2, <1>5, <2>1, <2>2 DEF Underway, Signs
  <2>5. Sound' => Promised'
    BY <1>1, <1>2, <1>3, <1>5, <2>1, <2>2 DEF Underway, Promised, Sent
  <2>. QED  BY <2>3, <2>4, <2>5 DEF Underway
<1>6. CASE pc = 11 /\ kind = "grazia"
  <2>1. /\ Queued("grazia")' = Queued("grazia") + 1
        /\ \A k \in Sent : k # "grazia" => Queued(k)' = Queued(k)
        /\ pc' = 12
    BY <1>1, <1>6
  <2>2. /\ OnSecond' = OnSecond + 1 /\ ToFirst = 1 /\ ToFirst' = 1
        /\ ToSecond = Budget /\ ToSecond' = Budget + 1 /\ OnSecond \in Nat
    BY <1>1, <1>2, <1>6, <2>1, Sizes DEF OnSecond, ToFirst, ToSecond, Sent
  <2>3. Counts'
    BY <1>1, <1>2, <1>6, <2>1, <2>2, Sizes DEF Underway, Counts, Sent
  <2>4. Signs'
    BY <1>1, <1>2, <1>6, <2>1, <2>2, Sizes DEF Underway, Signs
  <2>5. Sound' => Promised'
    BY <1>1, <1>2, <1>3, <1>6, <2>1, <2>2, Sizes DEF Underway, Promised, Sent
  <2>. QED  BY <2>3, <2>4, <2>5 DEF Underway
<1>7. CASE pc = 16 /\ kind = "oltre"
  <2>1. /\ Queued("oltre")' = Queued("oltre") + 1
        /\ \A k \in Sent : k # "oltre" => Queued(k)' = Queued(k)
        /\ pc' = 17
    BY <1>1, <1>7
  <2>2. /\ OnSecond' = OnSecond + 1 /\ ToFirst = 1 /\ ToFirst' = 1
        /\ ToSecond' = ToSecond + 1 /\ OnSecond \in Nat /\ ToSecond \in Nat
    BY <1>1, <1>2, <1>7, <2>1, Sizes DEF OnSecond, ToFirst, ToSecond, Sent
  <2>3. Counts'
    BY <1>1, <1>2, <1>7, <2>1, <2>2, Sizes DEF Underway, Counts, Sent
  <2>4. Signs'
    BY <1>1, <1>2, <1>7, <2>1, <2>2, Sizes DEF Underway, Signs
  <2>5. Sound' => Promised'
    BY <1>1, <1>2, <1>3, <1>7, <2>1, <2>2, Sizes DEF Underway, Promised, Sent
  <2>. QED  BY <2>3, <2>4, <2>5 DEF Underway
<1>. QED  BY <1>4, <1>5, <1>6, <1>7

\* The floods: every message is promised on the second thread.
LEMMA FloodsStep ==
    ASSUME TypeOK, SmokeInv, ScriptStep, pc \in {9, 14}
    PROVE  SmokeInv'
<1>1. Step.op = "flood" /\ Past /\ pc # 0 /\ Underway
  BY ScriptSteps DEF Step, SmokeInv, Underway
<1>2. PICK n \in Nat : /\ n > 0 /\ Step.count = n
                       /\ pc = 9 => n = Budget
                       /\ pc = 14 => n = Rest
  BY ScriptSteps, Sizes DEF Step
<1>3. /\ UNCHANGED <<filter, slow, verdict, agents_up>>
      /\ Queued("riempimento")' = Queued("riempimento") + 1
      /\ \A k \in Sent : k # "riempimento" => Queued(k)' = Queued(k)
      /\ sent \in Nat /\ sent < n
      /\ \/ sent + 1 = n /\ sent' = 0 /\ pc' = pc + 1
         \/ sent + 1 < n /\ sent' = sent + 1 /\ pc' = pc
  BY <1>1, <1>2, FloodStep
<1>4. /\ UNCHANGED <<sut, retries, counted, warned, frozen, agents_up>>
      /\ First' = First /\ Second' = Second
      /\ \A b, k : Got(b, k)' <=> Got(b, k)
  BY <1>3, ScriptFrame DEF filter
<1>5. /\ Queued("consegna") \in Nat /\ Queued("senza_etichetta") \in Nat
      /\ Queued("riempimento") \in Nat /\ Queued("grazia") \in Nat /\ Queued("oltre") \in Nat
      /\ counted[First] \in Nat /\ counted[Second] \in Nat /\ retries \in Nat
      /\ sut.hard \in Nat /\ sut.warn \in Nat
  BY <1>1, View, SystemView DEF Sent
<1>6. /\ OnSecond' = OnSecond + 1 /\ OnSecond \in Nat /\ ToFirst' = ToFirst
  BY <1>1, <1>3, <1>5 DEF OnSecond, ToFirst, Sent
<1>7. ToSecond' = ToSecond + 1 /\ ToSecond \in Nat
  <2>1. CASE pc = 9
    BY <1>2, <1>3, <2>1, Sizes DEF ToSecond
  <2>2. CASE pc = 14
    BY <1>2, <1>3, <2>2, Sizes DEF ToSecond
  <2>. QED  BY <2>1, <2>2
<1>8. /\ pc \notin 1 .. 8 /\ pc # 12 /\ pc # 13 /\ (pc > 10 <=> pc = 14)
      /\ pc' \notin 1 .. 8 /\ pc' # 12 /\ pc' # 13 /\ ~(pc' <= 3) /\ ~(pc' > 15) /\ pc' \in 1 .. 19
      /\ (pc' <= 11 <=> pc <= 11) /\ (pc' > 10 <=> pc > 10) /\ pc' \in {pc, pc + 1}
  BY <1>3
<1>9. Counts'
  BY <1>1, <1>3, <1>4, <1>5, <1>6, <1>7, <1>8 DEF Underway, Counts, Sent
<1>10. Signs'
  BY <1>1, <1>3, <1>4, <1>5, <1>6, <1>7, <1>8 DEF Underway, Signs
<1>11. Sound' => Promised'
  <2>1. Sound' => Sound
    BY <1>4 DEF Sound
  <2>. QED  BY <1>1, <1>3, <1>4, <1>5, <1>6, <1>7, <1>8, <2>1 DEF Underway, Promised, Sent
<1>12. Learnt'
  BY <1>3, <1>8, Learning
<1>. QED  BY <1>8, <1>9, <1>10, <1>11, <1>12, GoesOn DEF Underway

\* The agents are stopped, then the threads of all smoke runs are wiped.
LEMMA PrepStep ==
    ASSUME TypeOK, SmokeInv, ScriptStep, pc \in {1, 2}
    PROVE  SmokeInv'
<1>1. Past /\ pc # 0 /\ Underway /\ sent = 0
  <2>1. Step.op # "flood"
    BY ScriptSteps DEF Step
  <2>2. ScriptTypes /\ Flooding
    BY TypeParts
  <2>. QED  BY <2>1, <2>2, NoFlood DEF SmokeInv, Underway
<1>2. /\ UNCHANGED <<sut, retries, inbox, transit>>
      /\ First' = First /\ Second' = Second
      /\ \A b, k : Got(b, k)' <=> Got(b, k)
  BY ScriptFrame
<1>3. /\ UNCHANGED <<queue, slow, sent>> /\ pc' = pc + 1
      /\ \/ pc = 1 /\ UNCHANGED filter /\ agents_up' = FALSE
         \/ pc = 2 /\ UNCHANGED agents_up /\ counted' = [t \in Tags |-> 0]
                   /\ warned' = Clean /\ frozen' = Clean
  <2>1. CASE pc = 1
    <3>1. compose("stop")
      BY <2>1, ScriptSteps DEF Step, ScriptStep, compose, Wipe, cmd_send, cmd_flood, cmd_await,
                               await_filter_count
    <3>. QED  BY <2>1, <3>1 DEF compose
  <2>2. CASE pc = 2
    <3>1. Wipe
      BY <2>2, ScriptSteps DEF Step, ScriptStep, compose, cmd_send, cmd_flood, cmd_await,
                               await_filter_count
    <3>. QED  BY <2>2, <3>1 DEF Wipe
  <2>. QED  BY <2>1, <2>2
<1>4. \A k \in Sent : Queued(k)' = Queued(k)
  BY <1>3, ScriptFrame, Frames
<1>5. /\ OnSecond' = OnSecond /\ ToFirst' = ToFirst /\ ToSecond' = ToSecond
      /\ ToFirst = 0 /\ ToSecond = 0
  BY <1>1, <1>3, <1>4 DEF OnSecond, ToFirst, ToSecond, Sent
<1>6. /\ Queued("consegna") \in Nat /\ OnSecond \in Nat /\ retries \in Nat
      /\ counted[First] \in Nat /\ counted[Second] \in Nat /\ sut.hard \in Nat
      /\ First \in Tags /\ Second \in Tags
  BY <1>1, View, SystemView DEF Sent
<1>7. \/ /\ counted'[First] = counted[First] /\ counted'[Second] = counted[Second]
         /\ frozen'[First] = frozen[First] /\ frozen'[Second] = frozen[Second]
         /\ warned'[Second] = warned[Second]
      \/ /\ counted'[First] = 0 /\ counted'[Second] = 0
         /\ ~frozen'[First] /\ ~frozen'[Second] /\ ~warned'[Second]
  BY <1>3, <1>6 DEF Clean, filter
<1>8. Counts'
  <2>1. pc' > 1 => ~agents_up'
    BY <1>1, <1>3 DEF Underway, Counts
  <2>2. pc' <= 2 => counted'[Second] = 0 /\ OnSecond' = 0
    BY <1>1, <1>3, <1>5, <1>6, <1>7 DEF Underway, Counts
  <2>. QED  BY <1>1, <1>2, <1>3, <1>4, <1>5, <1>6, <1>7, <2>1, <2>2 DEF Underway, Counts, Sent
<1>9. Signs'
  BY <1>1, <1>2, <1>3, <1>4, <1>5 DEF Underway, Signs
<1>10. Sound' => Promised'
  <2>1. Sound' => Sound
    BY <1>2 DEF Sound
  <2>. QED  BY <1>1, <1>2, <1>3, <1>5, <1>6, <1>7, <2>1, Sizes DEF Underway, Promised
<1>11. Learnt'
  BY <1>3, Learning
<1>. QED  BY <1>3, <1>8, <1>9, <1>10, <1>11, GoesOn DEF Underway

\* A letter the run has got is in the mailbox once nothing is on its way.
LEMMA Arrived ==
    ASSUME Waited, NEW box, NEW kind, Got(box, kind)
    PROVE  \E l \in inbox : l.box = box /\ l.kind = kind /\ l.run = run
BY DEF Waited, Got, Letters

LEMMA Found ==
    ASSUME NEW l \in inbox, l.run = run
    PROVE  Got(l.box, l.kind)
BY DEF Got, Letters

\* An await for a letter: a run that goes on has got it, or takes one of an
\* earlier run for it; a run that fails is not one of the system as coded.
LEMMA Finding ==
    ASSUME TypeOK, SmokeInv, ScriptStep, pc \in 1 .. 19, NEW box, NEW kind, NEW hop,
           NEW by \in {"tag", "nonce", "text"}, IsAwait(pc, box, kind, by, hop, FALSE),
           hop = NoHop \/ (hop = 0 /\ kind = "consegna"),
           Sound /\ (\A k \in Sent : Queued(k) = 0) => Got(box, kind)
    PROVE  \/ SmokeInv'
           \/ /\ UNCHANGED <<queue, filter>> /\ Goes /\ slow' = slow
              /\ \/ Got(box, kind)
                 \/ by = "text" /\ \E l \in inbox : l.box = box /\ l.kind = kind /\ l.run < run
<1>1. Past /\ pc # 0
  BY DEF SmokeInv
<1>2. /\ UNCHANGED <<queue, filter>>
      /\ \/ /\ slow' = slow
            /\ \E l \in inbox : /\ l.box = box /\ l.kind = kind
                                /\ by # "text" => l.run = run
                                /\ \/ (FALSE \/ hop \notin {NoHop, l.hop}) /\ Ends("fail")
                                   \/ ~FALSE /\ hop \in {NoHop, l.hop} /\ Advance
         \/ /\ \A l \in inbox : ~(l.box = box /\ l.kind = kind /\ l.run = run)
            /\ Expired /\ ((FALSE /\ Advance) \/ (~FALSE /\ Ends("fail")))
  <2>1. FALSE \in BOOLEAN
    OBVIOUS
  <2>. QED  BY <1>1, <2>1, AwaitStep, Zenon
<1>3. CASE /\ slow' = slow
           /\ \E l \in inbox : /\ l.box = box /\ l.kind = kind
                               /\ by # "text" => l.run = run
                               /\ \/ (FALSE \/ hop \notin {NoHop, l.hop}) /\ Ends("fail")
                                  \/ ~FALSE /\ hop \in {NoHop, l.hop} /\ Advance
  <2>1. PICK l \in inbox : /\ l.box = box /\ l.kind = kind
                           /\ by # "text" => l.run = run
                           /\ hop \notin {NoHop, l.hop} \/ Advance
    BY <1>3
  <2>2. l.run \in 1 .. run /\ run \in Nat /\ (l.kind = "consegna" => l.hop = 0)
    BY <1>1, View DEF Past, Letters
  <2>3. hop \in {NoHop, l.hop}
    BY <2>1, <2>2
  <2>4. Goes
    BY <2>1, <2>3, Advancing
  <2>5. CASE l.run = run
    BY <1>2, <1>3, <2>1, <2>4, <2>5, Found
  <2>6. CASE l.run # run
    BY <1>2, <1>3, <2>1, <2>2, <2>4, <2>6
  <2>. QED  BY <2>5, <2>6
<1>4. CASE /\ \A l \in inbox : ~(l.box = box /\ l.kind = kind /\ l.run = run)
           /\ Expired /\ Ends("fail")
  <2>1. Waited \/ slow' > 0
    BY <1>4, Waiting
  <2>2. ~(Waited /\ Sound)
    <3>. SUFFICES ASSUME Waited, Sound PROVE FALSE
      OBVIOUS
    <3>1. Got(box, kind)
      BY <1>1, NothingQueued
    <3>. QED  BY <1>4, <3>1, Arrived
  <2>3. slow' = 0 => ~(slow' > 0)
    OBVIOUS
  <2>. QED  BY <1>4, <2>1, <2>2, <2>3, Failing
<1>. QED  BY <1>2, <1>3, <1>4

LEMMA Standing ==
    ASSUME TypeOK, SmokeInv, pc \in 1 .. 19, Step.op # "flood"
    PROVE  Past /\ Underway /\ sent = 0
<1>1. ScriptTypes /\ Flooding
  BY TypeParts
<1>. QED  BY <1>1, NoFlood DEF SmokeInv, Underway

LEMMA DeliveryFound ==
    ASSUME TypeOK, SmokeInv, ScriptStep, pc \in {4, 5}
    PROVE  SmokeInv'
<1>1. Underway /\ sent = 0
  <2>1. Step.op # "flood"
    BY ScriptSteps DEF Step, IsAwait
  <2>. QED  BY <2>1, Standing
<1>2. PICK box \in {"verificatore", "director"} : IsAwait(pc, box, "consegna", "tag", 0, FALSE)
  BY ScriptSteps
<1>3. Sound /\ (\A k \in Sent : Queued(k) = 0) => Got(box, "consegna")
  BY <1>1, <1>2 DEF Underway, Promised, Sent
<1>4. SmokeInv' \/ (UNCHANGED <<queue, filter>> /\ Goes /\ slow' = slow)
  <2>1. pc \in 1 .. 19 /\ "tag" \in {"tag", "nonce", "text"} /\ "tag" # "text"
    OBVIOUS
  <2>2. 0 = NoHop \/ (0 = 0 /\ "consegna" = "consegna")
    OBVIOUS
  <2>. QED  BY <1>2, <1>3, <2>1, <2>2, Finding, Zenon
<1>5. CASE UNCHANGED <<queue, filter>> /\ Goes /\ slow' = slow
  <2>1. pc' = pc + 1 /\ pc' \in 1 .. 19
    BY <1>5 DEF Goes
  <2>2. Underway'
    BY <1>1, <1>5, Quiet
  <2>3. Learnt'
    BY <1>5, <2>1, Learning
  <2>. QED  BY <2>1, <2>2, <2>3, GoesOn
<1>. QED  BY <1>4, <1>5

LEMMA BounceFound ==
    ASSUME TypeOK, SmokeInv, ScriptStep, pc = 8
    PROVE  SmokeInv'
<1>1. Underway /\ sent = 0
  <2>1. Step.op # "flood"
    BY ScriptSteps DEF Step, IsAwait
  <2>. QED  BY <2>1, Standing
<1>2. IsAwait(pc, "cronista", "bounce", "nonce", NoHop, FALSE)
  BY ScriptSteps
<1>3. Sound /\ (\A k \in Sent : Queued(k) = 0) => Got("cronista", "bounce")
  BY <1>1 DEF Underway, Promised, Sent
<1>4. \/ SmokeInv'
      \/ UNCHANGED <<queue, filter>> /\ Goes /\ slow' = slow /\ Got("cronista", "bounce")
  <2>1. pc \in 1 .. 19 /\ "nonce" \in {"tag", "nonce", "text"} /\ "nonce" # "text"
    OBVIOUS
  <2>. QED  BY <1>2, <1>3, <2>1, Finding, Zenon
<1>5. CASE UNCHANGED <<queue, filter>> /\ Goes /\ slow' = slow /\ Got("cronista", "bounce")
  <2>1. pc' = 9 /\ sut.tagged
    BY <1>1, <1>5 DEF Goes, Underway, Signs
  <2>2. Underway'
    BY <1>1, <1>5, Quiet
  <2>3. Learnt'
    BY <1>5, <2>1, Learning
  <2>. QED  BY <2>1, <2>2, <2>3, GoesOn
<1>. QED  BY <1>4, <1>5

\* The warning is there: the budget is not larger than the script takes it for.
LEMMA WarningFound ==
    ASSUME TypeOK, SmokeInv, ScriptStep, pc = 12
    PROVE  SmokeInv'
<1>1. Past /\ Underway /\ sent = 0
  <2>1. Step.op # "flood"
    BY ScriptSteps DEF Step, IsAwait
  <2>. QED  BY <2>1, Standing
<1>2. IsAwait(pc, "caporedattore", "in_margine", "tag", NoHop, FALSE)
  BY ScriptSteps
<1>3. /\ ToSecond = Budget + 1 /\ retries \in Nat /\ sut.warn \in Nat /\ counted[Second] \in Nat
      /\ (\A k \in Sent : Queued(k) = 0) => OnSecond = 0
  BY <1>1, View, SystemView, Sizes DEF ToSecond, OnSecond, Sent
<1>4. Sound /\ (\A k \in Sent : Queued(k) = 0) => Got("caporedattore", "in_margine")
  BY <1>1, <1>3, Sizes DEF Underway, Promised
<1>5. \/ SmokeInv'
      \/ UNCHANGED <<queue, filter>> /\ Goes /\ slow' = slow /\ Got("caporedattore", "in_margine")
  <2>1. pc \in 1 .. 19 /\ "tag" \in {"tag", "nonce", "text"} /\ "tag" # "text"
    OBVIOUS
  <2>. QED  BY <1>2, <1>4, <2>1, Finding, Zenon
<1>6. CASE UNCHANGED <<queue, filter>> /\ Goes /\ slow' = slow /\ Got("caporedattore", "in_margine")
  <2>1. pc' = 13 /\ (retries = 0 => sut.warn <= Budget)
    BY <1>1, <1>3, <1>6, Sizes DEF Goes, Underway, Signs
  <2>2. Underway'
    BY <1>1, <1>6, Quiet
  <2>3. Learnt'
    BY <1>6, <2>1, Learning
  <2>. QED  BY <2>1, <2>2, <2>3, GoesOn
<1>. QED  BY <1>5, <1>6

\* The mail in the margin is there, or one of an earlier run is.
LEMMA GraceFound ==
    ASSUME TypeOK, SmokeInv, ScriptStep, pc = 13
    PROVE  SmokeInv'
<1>1. Past /\ Underway /\ sent = 0
  <2>1. Step.op # "flood"
    BY ScriptSteps DEF Step, IsAwait
  <2>. QED  BY <2>1, Standing
<1>2. IsAwait(pc, "verificatore", "grazia", "text", NoHop, FALSE)
  BY ScriptSteps
<1>3. ToSecond = Budget + 1 /\ retries \in Nat /\ sut.hard \in Nat
  BY <1>1, View, SystemView, Sizes DEF ToSecond
<1>4. Sound /\ (\A k \in Sent : Queued(k) = 0) => Got("verificatore", "grazia")
  BY <1>1 DEF Underway, Promised, Sent
<1>5. \/ SmokeInv'
      \/ /\ UNCHANGED <<queue, filter>> /\ Goes /\ slow' = slow
         /\ Got("verificatore", "grazia") \/ Leftover("grazia")
  <2>1. pc \in 1 .. 19 /\ "text" \in {"tag", "nonce", "text"}
    OBVIOUS
  <2>. QED  BY <1>2, <1>4, <2>1, Finding, Zenon DEF Leftover
<1>6. CASE /\ UNCHANGED <<queue, filter>> /\ Goes /\ slow' = slow
           /\ Got("verificatore", "grazia") \/ Leftover("grazia")
  <2>1. /\ pc' = 14
        /\ sut.warn <= Budget => sut.grace \/ Leftover("grazia") \/ sut.hard <= Budget + retries
    BY <1>1, <1>3, <1>6, Sizes DEF Goes, Underway, Signs
  <2>2. Underway'
    BY <1>1, <1>6, Quiet
  <2>3. Learnt'
    BY <1>6, <2>1, Learning
  <2>. QED  BY <2>1, <2>2, <2>3, GoesOn
<1>. QED  BY <1>5, <1>6

\* The freeze notice is there: the fuse trips no later than at the mail past
\* the margin.
LEMMA FreezeFound ==
    ASSUME TypeOK, SmokeInv, ScriptStep, pc = 17
    PROVE  SmokeInv'
<1>1. Past /\ Underway /\ sent = 0
  <2>1. Step.op # "flood"
    BY ScriptSteps DEF Step, IsAwait
  <2>. QED  BY <2>1, Standing
<1>2. IsAwait(pc, "director", "fusibile", "tag", NoHop, FALSE)
  BY ScriptSteps
<1>3. ToSecond = HardLimit(Budget) + 1 /\ retries \in Nat /\ sut.hard \in Nat
  BY <1>1, View, SystemView, Sizes DEF ToSecond
<1>4. Sound /\ (\A k \in Sent : Queued(k) = 0) => Got("director", "fusibile")
  BY <1>1 DEF Underway, Promised, Sent
<1>5. \/ SmokeInv'
      \/ UNCHANGED <<queue, filter>> /\ Goes /\ slow' = slow /\ Got("director", "fusibile")
  <2>1. pc \in 1 .. 19 /\ "tag" \in {"tag", "nonce", "text"} /\ "tag" # "text"
    OBVIOUS
  <2>. QED  BY <1>2, <1>4, <2>1, Finding, Zenon
<1>6. CASE UNCHANGED <<queue, filter>> /\ Goes /\ slow' = slow /\ Got("director", "fusibile")
  <2>1. pc' = 18 /\ (retries = 0 => sut.hard <= HardLimit(Budget))
    BY <1>1, <1>3, <1>6, Sizes DEF Goes, Underway, Signs
  <2>2. Underway'
    BY <1>1, <1>6, Quiet
  <2>3. Learnt'
    BY <1>6, <2>1, Learning
  <2>. QED  BY <2>1, <2>2, <2>3, GoesOn
<1>. QED  BY <1>5, <1>6

\* The barriers: what was sent is counted, or nothing more will be.
LEMMA CountReached ==
    ASSUME TypeOK, SmokeInv, ScriptStep, pc \in {10, 15}
    PROVE  SmokeInv'
<1>1. Past /\ Underway /\ sent = 0 /\ Step.op = "await_filter_count"
  <2>1. Step.op = "await_filter_count"
    BY ScriptSteps DEF Step
  <2>. QED  BY <2>1, Standing
<1>2. PICK n \in Nat : /\ Step.count = n
                       /\ pc = 10 => n = Budget /\ ToSecond = Budget
                       /\ pc = 15 => n = HardLimit(Budget) /\ ToSecond = HardLimit(Budget)
  <2>1. CASE pc = 10
    BY <1>1, <2>1, ScriptSteps, Sizes DEF Step, ToSecond
  <2>2. CASE pc = 15
    BY <1>1, <2>2, ScriptSteps, Sizes DEF Step, ToSecond
  <2>. QED  BY <2>1, <2>2
<1>3. /\ UNCHANGED <<queue, filter>>
      /\ \/ n <= counted[Second] /\ Advance /\ slow' = slow
         \/ counted[Second] < n /\ Expired /\ Ends("fail")
  BY <1>1, <1>2, CountStep
<1>4. /\ counted[Second] \in Nat /\ sut.hard \in Nat /\ retries \in Nat
      /\ (\A k \in Sent : Queued(k) = 0) => OnSecond = 0
  BY <1>1, View, SystemView DEF OnSecond, Sent
<1>5. CASE n <= counted[Second] /\ Advance /\ slow' = slow
  <2>1. Goes /\ pc' \in 1 .. 19 /\ pc' = pc + 1
    BY <1>5, Advancing DEF Goes
  <2>2. /\ pc = 10 => Budget <= counted[Second]
        /\ pc = 15 => HardLimit(Budget) <= counted[Second]
    BY <1>2, <1>5
  <2>3. pc = 15 => HardLimit(Budget) <= sut.hard
    BY <1>1, <1>4, <2>2, Sizes DEF Underway, Counts
  <2>4. Underway'
    BY <1>1, <1>3, <2>1, <2>2, Quiet
  <2>5. Learnt'
    BY <1>5, <2>1, <2>3, Learning
  <2>. QED  BY <2>1, <2>4, <2>5, GoesOn
<1>6. CASE counted[Second] < n /\ Expired /\ Ends("fail")
  <2>1. Waited \/ slow' > 0
    BY <1>6, Waiting
  <2>2. ~(Waited /\ Sound)
    <3>. SUFFICES ASSUME Waited, Sound PROVE FALSE
      OBVIOUS
    <3>1. \A k \in Sent : Queued(k) = 0
      BY <1>1, NothingQueued
    <3>2. ToSecond <= counted[Second] \/ HardLimit(Budget) <= counted[Second]
      BY <1>1, <1>4, <3>1 DEF Underway, Promised
    <3>. QED  BY <1>2, <1>4, <1>6, <3>2, Sizes
  <2>3. slow' = 0 => ~(slow' > 0)
    OBVIOUS
  <2>. QED  BY <1>6, <2>1, <2>2, <2>3, Failing
<1>. QED  BY <1>3, <1>5, <1>6

\* The mail past the margin: it is held, or was not looked for long enough.
LEMMA AbsentStep ==
    ASSUME TypeOK, SmokeInv, ScriptStep, pc = 18
    PROVE  SmokeInv'
<1>1. Past /\ Underway /\ sent = 0 /\ pc # 0 /\ Learnt
  <2>1. Step.op # "flood"
    BY ScriptSteps DEF Step, IsAwait
  <2>. QED  BY <2>1, Standing DEF SmokeInv
<1>2. /\ UNCHANGED <<queue, filter>>
      /\ \/ /\ slow' = slow
            /\ \E l \in inbox : /\ l.box = "verificatore" /\ l.kind = "oltre"
                                /\ Ends("fail")
         \/ /\ \A l \in inbox : ~(l.box = "verificatore" /\ l.kind = "oltre" /\ l.run = run)
            /\ Expired /\ Advance
  <2>1. IsAwait(pc, "verificatore", "oltre", "text", NoHop, TRUE)
    BY ScriptSteps
  <2>2. TRUE \in BOOLEAN /\ "text" \in {"tag", "nonce", "text"}
    OBVIOUS
  <2>3. /\ UNCHANGED <<queue, filter>>
        /\ \/ /\ slow' = slow
              /\ \E l \in inbox : /\ l.box = "verificatore" /\ l.kind = "oltre"
                                  /\ "text" # "text" => l.run = run
                                  /\ \/ (TRUE \/ NoHop \notin {NoHop, l.hop}) /\ Ends("fail")
                                     \/ ~TRUE /\ NoHop \in {NoHop, l.hop} /\ Advance
           \/ /\ \A l \in inbox : ~(l.box = "verificatore" /\ l.kind = "oltre" /\ l.run = run)
              /\ Expired /\ ((TRUE /\ Advance) \/ (~TRUE /\ Ends("fail")))
    BY <1>1, <2>1, <2>2, AwaitStep, Zenon
  <2>. QED  BY <2>3
<1>3. /\ retries \in Nat /\ sut.hard \in Nat /\ sut.holds \in BOOLEAN /\ sut.grace \in BOOLEAN
      /\ slow \in Nat
  BY <1>1, View, SystemView
<1>4. CASE \E l \in inbox : l.box = "verificatore" /\ l.kind = "oltre" /\ Ends("fail")
  <2>1. PICK l \in inbox : l.box = "verificatore" /\ l.kind = "oltre" /\ Ends("fail")
    BY <1>4
  <2>2. l.run \in 1 .. run /\ run \in Nat
    BY <1>1, View DEF Past, Letters
  <2>3. Sound => l.run # run
    BY <1>1, <2>1, Found DEF Underway, Promised
  <2>4. Sound => Leftover("oltre")
    BY <2>1, <2>2, <2>3 DEF Leftover
  <2>. QED  BY <2>1, <2>4, Failing
<1>5. CASE /\ \A l \in inbox : ~(l.box = "verificatore" /\ l.kind = "oltre" /\ l.run = run)
           /\ Expired /\ Advance
  <2>1. Goes /\ pc' = 19
    BY <1>5, Advancing DEF Goes
  <2>2. slow' > 0 \/ (slow' = slow /\ (retries = 0 \/ sut.grace => sut.holds))
    <3>1. CASE Waited
      <4>1. ~Got("verificatore", "oltre")
        BY <1>5, <3>1, Arrived
      <4>2. Queued("oltre") = 0
        BY <1>1, <3>1, NothingQueued DEF Sent
      <4>3. sut.holds \/ (~sut.grace /\ HardLimit(Budget) < sut.hard)
        BY <1>1, <4>1, <4>2 DEF Underway, Signs
      <4>4. retries = 0 => sut.hard <= HardLimit(Budget)
        BY <1>1 DEF Learnt
      <4>. QED  BY <1>3, <3>1, <4>3, <4>4, Sizes DEF Waited
    <3>. QED  BY <1>5, <3>1, Waiting
  <2>3. Underway'
    BY <1>1, <1>2, <2>1, Quiet
  <2>4. Learnt'
    BY <2>1, <2>2, Learning
  <2>. QED  BY <2>1, <2>3, <2>4, GoesOn
<1>. QED  BY <1>2, <1>4, <1>5

\* The mails of the run are accepted; the one against the matrix is refused.
LEMMA SendsStep ==
    ASSUME TypeOK, SmokeInv, ScriptStep, pc \in {3, 6, 7, 11, 16}
    PROVE  SmokeInv'
<1>1. Past /\ Underway /\ sent = 0 /\ sut.matrix \in BOOLEAN
  <2>1. Step.op # "flood"
    BY ScriptSteps DEF Step, IsSend
  <2>. QED  BY <2>1, Standing, SystemView
<1>2. CASE pc = 6
  <2>1. IsSend(pc, "fuori_matrice", TRUE) /\ "fuori_matrice" \in Sent /\ TRUE \in BOOLEAN
    BY <1>2, ScriptSteps DEF Sent
  <2>2. Accepts("fuori_matrice") <=> ~sut.matrix
    BY DEF Accepts
  <2>3. /\ UNCHANGED <<filter, slow>>
        /\ \/ Accepts("fuori_matrice") /\ Ends("fail")
           \/ ~Accepts("fuori_matrice") /\ Advance
    BY <1>1, <2>1, SendStep
  <2>4. CASE ~sut.matrix /\ Ends("fail")
    <3>1. ~Sound
      BY <2>4, SystemView DEF Sound
    <3>. QED  BY <2>4, <3>1, Failing
  <2>5. CASE sut.matrix /\ Advance
    <3>1. Goes /\ pc' = 7
      BY <1>2, <2>5, Advancing DEF Goes
    <3>2. UNCHANGED queue
      <4>1. cmd_send
        BY <2>1 DEF IsSend, Step, ScriptStep, compose, Wipe, cmd_flood, cmd_await,
                    await_filter_count
      <4>2. Step.kind = "fuori_matrice"
        BY <2>1 DEF IsSend, Step
      <4>. QED  BY <2>2, <2>5, <4>1, <4>2 DEF cmd_send
    <3>3. Underway'
      BY <1>1, <1>2, <2>3, <3>1, <3>2, Quiet
    <3>4. Learnt'
      BY <1>2, <2>3, <2>5, <3>1, Learning
    <3>. QED  BY <1>2, <3>1, <3>3, <3>4, GoesOn
  <2>. QED  BY <2>2, <2>3, <2>4, <2>5
<1>3. CASE pc \in {3, 7, 11, 16}
  <2>1. PICK kind \in Sent :
            /\ IsSend(pc, kind, FALSE) /\ kind \notin {"fuori_matrice", "servizio"}
            /\ <<pc, kind>> \in {<<3, "consegna">>, <<7, "senza_etichetta">>,
                                 <<11, "grazia">>, <<16, "oltre">>}
    <3>1. CASE pc = 3
      BY <3>1, ScriptSteps DEF Sent
    <3>2. CASE pc = 7
      BY <3>2, ScriptSteps DEF Sent
    <3>3. CASE pc = 11
      BY <3>3, ScriptSteps DEF Sent
    <3>4. CASE pc = 16
      BY <3>4, ScriptSteps DEF Sent
    <3>. QED  BY <1>3, <3>1, <3>2, <3>3, <3>4
  <2>2. Accepts(kind)
    BY <2>1 DEF Accepts
  <2>3. /\ UNCHANGED <<filter, slow>> /\ Advance
        /\ Queued(kind)' = Queued(kind) + 1
        /\ \A k \in Sent : k # kind => Queued(k)' = Queued(k)
    <3>1. FALSE \in BOOLEAN
      OBVIOUS
    <3>. QED  BY <1>1, <2>1, <2>2, <3>1, SendStep
  <2>4. Goes /\ pc' = pc + 1 /\ pc' \in 1 .. 19
    BY <1>3, <2>3, Advancing DEF Goes
  <2>5. Underway'
    BY <1>1, <2>1, <2>3, <2>4, Sending
  <2>6. Learnt'
    BY <1>3, <2>3, <2>4, Learning
  <2>. QED  BY <2>4, <2>5, <2>6, GoesOn
<1>. QED  BY <1>2, <1>3

\* The agents are started; the last mail is refused, and the run passes.
LEMMA LastSteps ==
    ASSUME TypeOK, SmokeInv, ScriptStep, pc \in {19, 20}
    PROVE  SmokeInv'
<1>1. Past /\ pc # 0 /\ Past' /\ Learnt /\ verdict = "none"
  BY ScriptPast, View DEF SmokeInv
<1>2. /\ UNCHANGED <<sut, retries>> /\ \A k : Leftover(k)' <=> Leftover(k)
  BY ScriptFrame
<1>3. CASE pc = 19
  <2>1. compose("start")
    BY <1>3, ScriptSteps DEF Step, ScriptStep, compose, Wipe, cmd_send, cmd_flood, cmd_await,
                             await_filter_count
  <2>2. pc' = 20 /\ slow' = slow /\ verdict' = "none"
    BY <1>1, <1>3, <2>1 DEF compose
  <2>3. Learnt'
    BY <1>3, <2>2, Learning
  <2>. QED  BY <1>1, <2>2, <2>3 DEF SmokeInv, PassMeansFuse, NoFalseAlarm
<1>4. CASE pc = 20
  <2>1. IsSend(pc, "servizio", TRUE) /\ "servizio" \in Sent /\ TRUE \in BOOLEAN
    BY <1>4, ScriptSteps DEF Sent
  <2>2. Accepts("servizio") <=> ~sut.matrix
    BY DEF Accepts
  <2>3. /\ slow' = slow
        /\ \/ Accepts("servizio") /\ Ends("fail")
           \/ ~Accepts("servizio") /\ Advance
    BY <1>1, <2>1, SendStep
  <2>4. CASE ~sut.matrix
    BY <1>1, <1>4, <2>4 DEF Learnt
  <2>5. CASE sut.matrix /\ Advance
    <3>1. pc' = 0 /\ verdict' = "pass"
      BY <1>4, <2>5, ScriptSteps DEF Advance, Ends
    <3>2. retries \in Nat /\ sut.hard \in Nat /\ sut.warn \in Nat
      BY <1>1, View, SystemView
    <3>3. PassMeansFuse'
      <4>1. sut.matrix /\ sut.tagged
        BY <1>1, <1>4 DEF Learnt
      <4>2. retries = 0 => sut.hard = HardLimit(Budget) /\ sut.warn <= Budget
        BY <1>1, <1>4, <3>2, Sizes DEF Learnt
      <4>3. sut.warn <= Budget /\ retries < grace_margin(Budget) =>
                sut.grace \/ Leftover("grazia")
        BY <1>1, <1>4, <3>2, Sizes DEF Learnt
      <4>4. retries = 0 \/ sut.grace => sut.holds \/ slow > 0
        BY <1>1, <1>4 DEF Learnt
      <4>. QED  BY <1>2, <2>3, <4>1, <4>2, <4>3, <4>4 DEF PassMeansFuse
    <3>. QED  BY <1>1, <3>1, <3>3 DEF SmokeInv, Learnt, NoFalseAlarm
  <2>. QED  BY <2>2, <2>3, <2>4, <2>5
<1>. QED  BY <1>3, <1>4

LEMMA ScriptStepInv ==
    ASSUME TypeOK, SmokeInv, ScriptStep
    PROVE  SmokeInv'
<1>1. pc \in 1 .. 20
  BY View, ScriptFrame DEF SmokeInv
<1>2. CASE pc \in {1, 2, 3, 6, 7, 9, 11, 14, 16, 19, 20}
  BY <1>2, PrepStep, SendsStep, FloodsStep, LastSteps
<1>3. CASE pc \in {4, 5, 8, 10, 12, 13, 15, 17, 18}
  BY <1>3, DeliveryFound, BounceFound, WarningFound, GraceFound, FreezeFound, CountReached,
     AbsentStep
<1>. QED  BY <1>1, <1>2, <1>3

LEMMA InitInv == Init => SmokeInv
<1>. SUFFICES ASSUME Init PROVE SmokeInv
  OBVIOUS
<1>1. run = 0 /\ pc = 0 /\ verdict = "none" /\ Letters = {}
  BY DEF Init, Letters
<1>2. Past
  BY <1>1 DEF Init, Past, Clean
<1>. QED  BY <1>1, <1>2 DEF SmokeInv, Learnt, PassMeansFuse, NoFalseAlarm

\* What a run knows, counts, has got and may rely on, at every step of its script.
THEOREM SmokeInvariant == Spec => [](TypeOK /\ SmokeInv)
<1>1. Init => TypeOK /\ SmokeInv
  BY InitTypes, InitInv
<1>2. TypeOK /\ SmokeInv /\ [Next]_vars => TypeOK' /\ SmokeInv'
  <2>. SUFFICES ASSUME TypeOK, SmokeInv, [Next]_vars PROVE TypeOK' /\ SmokeInv'
    OBVIOUS
  <2>1. TypeOK'
    BY ScriptStepTypes, FilterTypes, OtherTypes DEF Next, MailStep
  <2>2. SmokeInv'
    BY <2>1, StartStep, ScriptStepInv, FilterStep, OtherStep DEF Next, MailStep
  <2>. QED  BY <2>1, <2>2
<1>. QED  BY <1>1, <1>2, PTL DEF Spec

\* A run that passes has met a system that checks the matrix and the tag, warns,
\* delivers and holds where the code does, whatever mail was late or left over.
THEOREM PassMeansFuseAlways == Spec => []PassMeansFuse
<1>1. TypeOK /\ SmokeInv => PassMeansFuse
  BY DEF SmokeInv
<1>. QED  BY <1>1, SmokeInvariant, PTL

\* The system as coded fails no run that waits for it.
THEOREM NoFalseAlarmAlways == Spec => []NoFalseAlarm
<1>1. TypeOK /\ SmokeInv => NoFalseAlarm
  BY DEF SmokeInv
<1>. QED  BY <1>1, SmokeInvariant, PTL
=============================================================================
