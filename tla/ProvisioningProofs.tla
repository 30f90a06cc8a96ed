-------------------------- MODULE ProvisioningProofs --------------------------
(***************************************************************************)
(* Running a provisioning script again on a complete newsroom breaks no    *)
(* more than what the script writes anew, and the keys when their list     *)
(* fails, for all agents, keys, buckets and grants.                        *)
(***************************************************************************)
EXTENDS Provisioning, TLAPS

AgentFile == [file : {"absent", "empty", "full"}, password : Passwords, s3 : Nat, wp : Nat]

\* The types the argument needs; TypeOK also bounds the secrets issued.
Typed ==
    /\ env \in Passwords /\ agent_env \in [Agents -> AgentFile]
    /\ himalaya \in [Keyed -> Passwords] /\ mailbox \in [Users -> Passwords]
    /\ ca \in BOOLEAN /\ mail_crt \in BOOLEAN /\ agents_ca \in BOOLEAN
    /\ core \in BOOLEAN /\ was \in BOOLEAN /\ misread \in BOOLEAN
    /\ keys \in [Keyed -> Nat] /\ issued \in Nat /\ failures \in Nat

\* The turns of a loop are over what the loop is about.
Turns ==
    /\ script = "env" /\ pc \in {"agent env", "agent password"} =>
            agent \in Agents /\ todo \subseteq Agents
    /\ script = "env" /\ pc \in {"himalaya", "himalaya password"} =>
            agent \in Keyed /\ todo \subseteq Keyed
    /\ script = "mailboxes" /\ pc = "add" => agent \in Users /\ todo \subseteq Users
    /\ script = "storage" /\ pc \in {"key", "write key", "allow"} =>
            agent \in Keyed /\ todo \subseteq Keyed

\* An agent's .env has a password only when sed has written it.
Written == \A a \in Agents : agent_env[a].file # "full" => agent_env[a].password = "none"

\* Commands a script comes to only where something is missing.
Repairs == {"secrets", "agent password", "certificate", "add", "apply", "activate"}

\* The turns of the current loop that are not done yet.
Left == todo \cup {agent}

\* The keys are lost only to a script that did not see them.
KeysKept ==
    /\ script # "storage" \/ ~misread => StorageReady
    /\ script = "storage" /\ ~misread => pc # "write key"
    /\ script = "storage" /\ misread => pc \in {"list keys", "key", "write key", "allow"}

\* What setup-env.sh and setup-wordpress.sh have written again so far.
Rewritten ==
    /\ script = "env" /\ pc \in {"himalaya", "himalaya password"} =>
            \A a \in Keyed : himalaya[a] = env \/ a \in Left
    /\ script = "wordpress" /\ ~misread /\ pc = "create" => app_passwords = {}
    /\ script = "wordpress" /\ pc = "write password" =>
            /\ issued \in app_passwords
            /\ ~misread => app_passwords = {issued}

\* A script that found the newsroom intact keeps it so, but for what it writes
\* again and for the keys it does not see.
Kept ==
    was /\ script # "none" =>
        /\ script \in Scripts /\ IntactBut(script)
        /\ pc \notin Repairs
        /\ KeysKept /\ Rewritten

RInv == Typed /\ Turns /\ Written /\ Kept

\* RerunDoesNoHarm, of one step.
Harmless ==
    was /\ script # "none" /\ script' = "none" =>
        /\ \A s \in Scripts : script = s => IntactBut(s)'
        /\ script # "storage" \/ ~misread => StorageReady'
        /\ failures' = failures /\ script # "storage" => (MailReady /\ MayPublish)'
        /\ failures' = failures /\ ~misread => Complete'

\* What NextTurn does, but for the choice of the turn.
TurnOver(S, command, after) ==
    /\ UNCHANGED <<script, history>>
    /\ pc' = after \/ (pc' = command /\ agent' \in S /\ todo' \subseteq S)

LEMMA Turn ==
    ASSUME NEW S, NEW left, left \subseteq S, NEW command, NEW after,
           NextTurn(left, command, after)
    PROVE  TurnOver(S, command, after)
<1>1. CASE left = {}
  BY <1>1 DEF NextTurn, TurnOver
<1>2. CASE left # {}
  <2>1. PICK a \in {CHOOSE x \in left : TRUE} :
            pc' = command /\ agent' = a /\ todo' = left \ {a}
    BY <1>2 DEF NextTurn
  <2>2. a \in left
    BY <1>2, <2>1
  <2> QED
    BY <2>1, <2>2 DEF NextTurn, TurnOver
<1> QED
  BY <1>1, <1>2

\* A loop over something goes on with one of its turns.
Turned(left, command) ==
    /\ UNCHANGED <<script, misread, progress, was, lost, failures, deletes>>
    /\ pc' = command /\ agent' \in left /\ todo' = left \ {agent'} /\ Left' = left

LEMMA LoopGoesOn ==
    ASSUME NEW left, left # {}, NEW command, NEW after, NextTurn(left, command, after)
    PROVE  Turned(left, command)
<1>1. PICK a \in {CHOOSE x \in left : TRUE} :
          pc' = command /\ agent' = a /\ todo' = left \ {a}
  BY DEF NextTurn
<1>2. a \in left
  BY <1>1
<1>. QED  BY <1>1, <1>2 DEF NextTurn, history, Left, Turned

\* The loops of the scripts; there are agents, with keys too.
LEMMA Loops ==
    /\ NextTurn(Agents, "agent env", "none") => Turned(Agents, "agent env")
    /\ NextTurn(Keyed, "himalaya", "none") => Turned(Keyed, "himalaya")
    /\ NextTurn(Keyed, "key", "none") => Turned(Keyed, "key")
    /\ todo # {} /\ NextTurn(todo, "agent env", "none") => Turned(todo, "agent env")
    /\ todo # {} /\ NextTurn(todo, "himalaya", "none") => Turned(todo, "himalaya")
    /\ todo # {} /\ NextTurn(todo, "add", "none") => Turned(todo, "add")
    /\ todo # {} /\ NextTurn(todo, "key", "none") => Turned(todo, "key")
<1>1. Agents # {} /\ Keyed # {}
  BY ProvisioningAssumption
<1>. QED  BY <1>1, LoopGoesOn

LEMMA Finished ==
    ASSUME Done
    PROVE  script' = "none" /\ pc' = "none" /\ UNCHANGED <<was, misread, failures>>
BY DEF Done, Ends

\* A new secret is a number too, and a death leaves a trace.
LEMMA Issued ==
    ASSUME Typed, issued' = issued + 1
    PROVE  issued' \in Nat
BY DEF Typed

LEMMA Death ==
    ASSUME Typed, failures' = failures + 1
    PROVE  failures' \in Nat /\ failures' # failures
BY DEF Typed

\* The redirection empties no file that has a password.
LEMMA FileCreated ==
    ASSUME Typed, Written, NEW a \in Agents, agent_env[a].file = "absent",
           agent_env' = [agent_env EXCEPT ![a].file = "empty"]
    PROVE  agent_env' \in [Agents -> AgentFile] /\ Written'
<1>1. agent_env' \in [Agents -> AgentFile]
  BY DEF Typed, AgentFile
<1>2. \A b \in Agents : /\ agent_env'[b].password = agent_env[b].password
                       /\ agent_env[b].file = "full" => agent_env'[b].file = "full"
  BY DEF Typed, AgentFile
<1> QED
  BY <1>1, <1>2 DEF Written

\* sed fills in what it replaces and nothing else: the mail password,
LEMMA PasswordWritten ==
    ASSUME Typed, Written, NEW a \in Agents,
           agent_env' = [agent_env EXCEPT ![a].file = "full", ![a].password = env]
    PROVE  agent_env' \in [Agents -> AgentFile] /\ Written'
<1>1. agent_env' \in [Agents -> AgentFile]
  BY DEF Typed, AgentFile
<1>2. /\ agent_env'[a].file = "full"
      /\ \A b \in Agents \ {a} : agent_env'[b] = agent_env[b]
  BY DEF Typed, AgentFile
<1> QED
  BY <1>1, <1>2 DEF Written

\* an S3 secret,
LEMMA KeyWritten ==
    ASSUME Typed, Written, NEW a \in Agents, NEW key \in Nat,
           agent_env' = [agent_env EXCEPT ![a].s3 =
                            IF agent_env[a].file = "full" THEN key ELSE @]
    PROVE  /\ agent_env' \in [Agents -> AgentFile] /\ Written'
           /\ \A b \in Agents : /\ agent_env'[b].password = agent_env[b].password
                                /\ agent_env'[b].wp = agent_env[b].wp
<1>1. agent_env' \in [Agents -> AgentFile]
  BY DEF Typed, AgentFile
<1>2. \A b \in Agents : /\ agent_env'[b].password = agent_env[b].password
                       /\ agent_env'[b].file = agent_env[b].file
                       /\ agent_env'[b].wp = agent_env[b].wp
  BY DEF Typed, AgentFile
<1> QED
  BY <1>1, <1>2 DEF Written

\* or the WordPress password, which a file with a mail password always takes.
LEMMA WpWritten ==
    ASSUME Typed, Written, NEW a \in Agents, NEW n \in Nat,
           agent_env' = [agent_env EXCEPT ![a].wp =
                            IF agent_env[a].file = "full" THEN n ELSE @]
    PROVE  /\ agent_env' \in [Agents -> AgentFile] /\ Written'
           /\ \A b \in Agents : /\ agent_env'[b].password = agent_env[b].password
                                /\ agent_env'[b].s3 = agent_env[b].s3
           /\ agent_env[a].password # "none" => agent_env'[a].wp = n
<1>1. agent_env' \in [Agents -> AgentFile]
  BY DEF Typed, AgentFile
<1>2. \A b \in Agents : /\ agent_env'[b].password = agent_env[b].password
                       /\ agent_env'[b].file = agent_env[b].file
                       /\ agent_env'[b].s3 = agent_env[b].s3
  BY DEF Typed, AgentFile
<1>3. agent_env[a].password # "none" => agent_env'[a].wp = n
  BY DEF Typed, AgentFile, Written
<1> QED
  BY <1>1, <1>2, <1>3 DEF Written

\* SetupEnv keeps the invariant and does no harm.
LEMMA SetupEnvKeeps ==
    ASSUME RInv, SetupEnv
    PROVE  RInv' /\ Harmless
<1> USE ProvisioningAssumption
    DEF At, Goto, RInv, Typed, Turns, Written, Kept, KeysKept, Rewritten, Repairs, Harmless,
        AgentFile, Passwords, Scripts, Users, Left,
        IntactBut, MailReady, StorageReady, WordPressReady, MayPublish, PublishingReady, Complete,
        files, tls, garage, wp, disk, history, process
<1>1. CASE EnvStart
  <2>1. NextTurn(Agents, "agent env", "none") => TurnOver(Agents, "agent env", "none")
    BY <1>1, Turn DEF EnvStart
  <2>2. Typed'
    BY <1>1, <2>1 DEF EnvStart, TurnOver
  <2>3. Turns'
    BY <1>1, <2>1 DEF EnvStart, TurnOver
  <2>4. Written'
    BY <1>1, <2>1 DEF EnvStart, TurnOver
  <2>5. Kept'
    BY <1>1, <2>1 DEF EnvStart, TurnOver
  <2>6. Harmless
    BY <1>1, <2>1 DEF EnvStart, TurnOver
  <2> QED
    BY <2>2, <2>3, <2>4, <2>5, <2>6
<1>2. CASE EnvSecrets
  BY <1>2, Finished DEF EnvSecrets
<1>3. CASE AgentEnv
  <2>1. NextTurn(Keyed, "himalaya", "none") => TurnOver(Keyed, "himalaya", "none")
    BY <1>3, Turn DEF AgentEnv
  <2>2. NextTurn(todo, "agent env", "none") => TurnOver(Agents, "agent env", "none")
    BY <1>3, Turn DEF AgentEnv
  <2>3. CASE agent_env[agent].file # "absent"
    <3>1. Typed'
      BY <1>3, <2>1, <2>2, <2>3 DEF AgentEnv, TurnOver
    <3>2. Turns'
      BY <1>3, <2>1, <2>2, <2>3 DEF AgentEnv, TurnOver
    <3>3. Written'
      BY <1>3, <2>1, <2>2, <2>3 DEF AgentEnv, TurnOver
    <3>4. /\ script = "env" /\ script' = "env" /\ UNCHANGED <<disk, issued, misread, was>>
          /\ pc' = "agent env" \/ (pc' = "himalaya" /\ Left' = Keyed)
      BY <1>3, <2>2, <2>3, Loops DEF AgentEnv, TurnOver, Turned
    <3>5. Kept'
      BY <3>4
    <3>6. Harmless
      BY <3>4
    <3> QED
      BY <3>1, <3>2, <3>3, <3>5, <3>6
  <2>4. CASE agent_env[agent].file = "absent"
    <3>1. agent_env' \in [Agents -> AgentFile] /\ Written'
      BY <1>3, <2>4, FileCreated DEF AgentEnv
    <3>2. Typed'
      BY <1>3, <2>4, <3>1 DEF AgentEnv
    <3>3. Turns'
      BY <1>3, <2>4, <3>1 DEF AgentEnv
    <3>4. Written'
      BY <1>3, <2>4, <3>1 DEF AgentEnv
    <3>5. Kept'
      BY <1>3, <2>4, <3>1 DEF AgentEnv
    <3>6. Harmless
      BY <1>3, <2>4, <3>1 DEF AgentEnv
    <3> QED
      BY <3>2, <3>3, <3>4, <3>5, <3>6
  <2> QED
    BY <2>3, <2>4
<1>4. CASE AgentPassword
  <2>1. NextTurn(Keyed, "himalaya", "none") => TurnOver(Keyed, "himalaya", "none")
    BY <1>4, Turn DEF AgentPassword
  <2>2. NextTurn(todo, "agent env", "none") => TurnOver(Agents, "agent env", "none")
    BY <1>4, Turn DEF AgentPassword
  <2>3. agent_env' \in [Agents -> AgentFile] /\ Written'
    BY <1>4, PasswordWritten DEF AgentPassword
  <2>4. Typed'
    BY <1>4, <2>1, <2>2, <2>3 DEF AgentPassword, TurnOver
  <2>5. Turns'
    BY <1>4, <2>1, <2>2, <2>3 DEF AgentPassword, TurnOver
  <2>6. Written'
    BY <1>4, <2>1, <2>2, <2>3 DEF AgentPassword, TurnOver
  <2>7. Kept'
    BY <1>4, <2>1, <2>2, <2>3 DEF AgentPassword, TurnOver
  <2>8. Harmless
    BY <1>4, <2>1, <2>2, <2>3 DEF AgentPassword, TurnOver
  <2> QED
    BY <2>4, <2>5, <2>6, <2>7, <2>8
<1>5. CASE TruncateHimalaya
  <2>1. /\ script = "env" /\ script' = "env" /\ pc = "himalaya" /\ pc' = "himalaya password"
        /\ UNCHANGED <<env, agent_env, tls, mailbox, garage, wp, issued, agent, todo, history>>
        /\ himalaya' = [himalaya EXCEPT ![agent] = "none"]
    BY <1>5 DEF TruncateHimalaya
  <2>2. Typed' /\ Turns' /\ Written'
    BY <2>1
  <2>3. \A a \in Keyed : a # agent => himalaya'[a] = himalaya[a]
    BY <2>1
  <2>4. Kept'
    BY <2>1, <2>3
  <2> QED
    BY <2>1, <2>2, <2>4
<1>6. CASE HimalayaPassword
  <2>1. NextTurn(todo, "himalaya", "none") => TurnOver(Keyed, "himalaya", "none")
    BY <1>6, Turn DEF HimalayaPassword
  <2>2. Typed'
    BY <1>6, <2>1, Finished DEF HimalayaPassword, TurnOver
  <2>3. Turns'
    BY <1>6, <2>1, Finished DEF HimalayaPassword, TurnOver
  <2>4. Written'
    BY <1>6, <2>1, Finished DEF HimalayaPassword, TurnOver
  <2>5. /\ script = "env" /\ pc = "himalaya password"
        /\ UNCHANGED <<env, agent_env, tls, mailbox, garage, wp, issued, misread, was>>
        /\ himalaya'[agent] = env /\ \A a \in Keyed : a # agent => himalaya'[a] = himalaya[a]
        /\ \/ script' = "none" /\ todo = {}
           \/ script' = "env" /\ pc' = "himalaya" /\ Left' = todo
    BY <1>6, Loops, Finished DEF HimalayaPassword, Turned
  <2>6. Kept'
    BY <2>5
  <2>7. Harmless
    BY <2>5
  <2> QED
    BY <2>2, <2>3, <2>4, <2>6, <2>7
<1> QED
  BY <1>1, <1>2, <1>3, <1>4, <1>5, <1>6 DEF SetupEnv

\* SetupTls keeps the invariant and does no harm.
LEMMA SetupTlsKeeps ==
    ASSUME RInv, SetupTls
    PROVE  RInv' /\ Harmless
<1> USE ProvisioningAssumption
    DEF At, Goto, RInv, Typed, Turns, Written, Kept, KeysKept, Rewritten, Repairs, Harmless,
        AgentFile, Passwords, Scripts, Users, Left,
        IntactBut, MailReady, StorageReady, WordPressReady, MayPublish, PublishingReady, Complete,
        files, tls, garage, wp, disk, history, process
<1>1. CASE Authority
  BY <1>1 DEF Authority
<1>2. CASE Certificate
  BY <1>2 DEF Certificate
<1>3. CASE TruncateCopy
  BY <1>3 DEF TruncateCopy
<1>4. CASE CopyAuthority
  <2>1. /\ script = "tls" /\ UNCHANGED <<files, ca, mail_crt, mailbox, garage, wp, issued>>
        /\ agents_ca' = TRUE
    BY <1>4 DEF CopyAuthority
  <2>2. script' = "none" /\ pc' = "none" /\ UNCHANGED <<was, misread, failures>>
    BY <1>4, Finished DEF CopyAuthority
  <2>3. Typed' /\ Turns' /\ Written' /\ Kept'
    BY <2>1, <2>2
  <2>4. Harmless
    BY <2>1, <2>2
  <2> QED
    BY <2>3, <2>4
<1> QED
  BY <1>1, <1>2, <1>3, <1>4 DEF SetupTls

\* SetupMailboxes keeps the invariant and does no harm.
LEMMA SetupMailboxesKeeps ==
    ASSUME RInv, SetupMailboxes
    PROVE  RInv' /\ Harmless
<1> USE ProvisioningAssumption
    DEF At, Goto, RInv, Typed, Turns, Written, Kept, KeysKept, Rewritten, Repairs, Harmless,
        AgentFile, Passwords, Scripts, Users, Left,
        IntactBut, MailReady, StorageReady, WordPressReady, MayPublish, PublishingReady, Complete,
        files, tls, garage, wp, disk, history, process
<1>1. CASE ListMailboxes
  <2>1. NextTurn({u \in Users : mailbox[u] = "none"}, "add", "none")
            => TurnOver(Users, "add", "none")
    BY <1>1, Turn DEF ListMailboxes
  <2>2. was => {u \in Users : mailbox[u] = "none"} = {}
    BY <1>1 DEF ListMailboxes
  <2>3. Typed'
    BY <1>1, <2>1, <2>2, Finished DEF ListMailboxes, TurnOver
  <2>4. Turns'
    BY <1>1, <2>1, <2>2, Finished DEF ListMailboxes, TurnOver
  <2>5. Written'
    BY <1>1, <2>1, <2>2, Finished DEF ListMailboxes, TurnOver
  <2>6. Kept'
    BY <1>1, <2>1, <2>2, Finished DEF ListMailboxes, TurnOver
  <2>7. Harmless
    BY <1>1, <2>1, <2>2, Finished DEF ListMailboxes, TurnOver
  <2> QED
    BY <2>3, <2>4, <2>5, <2>6, <2>7
<1>2. CASE AddMailbox
  <2>1. NextTurn(todo, "add", "none") => TurnOver(Users, "add", "none")
    BY <1>2, Turn DEF AddMailbox
  <2>2. Typed'
    BY <1>2, <2>1, Finished DEF AddMailbox, TurnOver
  <2>3. Turns'
    BY <1>2, <2>1, Finished DEF AddMailbox, TurnOver
  <2>4. Written'
    BY <1>2, <2>1, Finished DEF AddMailbox, TurnOver
  <2>5. Kept'
    BY <1>2, <2>1, Finished DEF AddMailbox, TurnOver
  <2>6. Harmless
    BY <1>2, <2>1, Finished DEF AddMailbox, TurnOver
  <2> QED
    BY <2>2, <2>3, <2>4, <2>5, <2>6
<1> QED
  BY <1>1, <1>2 DEF SetupMailboxes

\* SetupStorage keeps the invariant and does no harm.
LEMMA SetupStorageKeeps ==
    ASSUME RInv, SetupStorage
    PROVE  RInv' /\ Harmless
<1> USE ProvisioningAssumption
    DEF At, Goto, RInv, Typed, Turns, Written, Kept, KeysKept, Rewritten, Repairs, Harmless,
        AgentFile, Passwords, Scripts, Users, Left,
        IntactBut, MailReady, StorageReady, WordPressReady, MayPublish, PublishingReady, Complete,
        files, tls, garage, wp, disk, history, process
<1>1. CASE AssignLayout
  <2>1. /\ script = "storage" /\ script' = "storage" /\ pc = "start"
        /\ UNCHANGED <<files, tls, mailbox, buckets, keys, allowed, doubled, wp, issued>>
        /\ UNCHANGED <<agent, todo, history>>
        /\ layout = "applied" => layout' = "applied" /\ pc' = "buckets"
        /\ pc' \in {"buckets", "apply"}
    BY <1>1 DEF AssignLayout
  <2>2. Typed' /\ Turns' /\ Written'
    BY <2>1
  <2>3. Kept'
    BY <2>1
  <2> QED
    BY <2>1, <2>2, <2>3
<1>2. CASE ApplyLayout
  BY <1>2 DEF ApplyLayout
<1>3. CASE CreateBucket
  <2>1. /\ script = "storage" /\ pc = "buckets"
        /\ UNCHANGED <<files, tls, mailbox, layout, keys, allowed, doubled, wp, issued, misread, was>>
        /\ \/ UNCHANGED process /\ buckets # Buckets
           \/ /\ UNCHANGED <<buckets, script, agent, todo>> /\ pc' = "list keys"
           \/ /\ UNCHANGED buckets /\ layout # "applied"
              /\ script' = "none" /\ pc' = "none"
    BY <1>3 DEF CreateBucket, Fails, Ends
  <2>2. failures' = failures
    BY <1>3 DEF CreateBucket, Fails
  <2>3. Typed' /\ Turns' /\ Written'
    BY <2>1, <2>2
  <2>4. Kept'
    BY <2>1
  <2>5. Harmless
    BY <2>1
  <2> QED
    BY <2>3, <2>4, <2>5
<1>4. CASE ListKeys
  <2>1. TurnOver(Keyed, "key", "none") /\ Turned(Keyed, "key")
    BY <1>4, Turn, Loops DEF ListKeys
  <2>2. Typed' /\ Turns' /\ Written'
    BY <1>4, <2>1 DEF ListKeys, TurnOver, Turned
  <2>3. /\ script = "storage" /\ script' = "storage" /\ pc' = "key"
        /\ UNCHANGED <<disk, issued, misread, was>>
    BY <1>4, <2>1 DEF ListKeys, Turned
  <2>4. Kept' /\ Harmless
    BY <2>3
  <2> QED
    BY <2>2, <2>4
<1>5. CASE CreateKey
  <2>1. issued' = issued + 1 \/ UNCHANGED issued
    BY <1>5 DEF CreateKey
  <2>2. issued' \in Nat
    BY <2>1, Issued
  <2>3. Typed'
    <3>1. keys' = [keys EXCEPT ![agent] = issued'] \/ UNCHANGED keys
      BY <1>5 DEF CreateKey
    <3>2. keys' \in [Keyed -> Nat]
      BY <2>2, <3>1
    <3> QED
      BY <1>5, <2>2, <3>2 DEF CreateKey
  <2>4. Turns'
    BY <1>5, <2>2 DEF CreateKey
  <2>5. Written'
    BY <1>5, <2>2 DEF CreateKey
  <2>6. Kept'
    BY <1>5, <2>2 DEF CreateKey
  <2>7. Harmless
    BY <1>5, <2>2 DEF CreateKey
  <2> QED
    BY <2>3, <2>4, <2>5, <2>6, <2>7
<1>6. CASE WriteKey
  <2>1. /\ agent_env' \in [Agents -> AgentFile] /\ Written'
        /\ \A b \in Agents : /\ agent_env'[b].password = agent_env[b].password
                             /\ agent_env'[b].wp = agent_env[b].wp
    BY <1>6, KeyWritten DEF WriteKey
  <2>2. /\ script = "storage" /\ script' = "storage" /\ pc = "write key" /\ pc' = "allow"
        /\ UNCHANGED <<env, himalaya, tls, mailbox, garage, wp, issued, agent, todo>>
        /\ UNCHANGED <<misread, was, failures>>
    BY <1>6 DEF WriteKey
  <2>3. Typed' /\ Turns'
    BY <2>1, <2>2
  <2>4. Kept'
    BY <2>1, <2>2
  <2> QED
    BY <2>1, <2>2, <2>3, <2>4
<1>7. CASE Allow
  <2>1. NextTurn(todo, "key", "none") => TurnOver(Keyed, "key", "none")
    BY <1>7, Turn DEF Allow
  <2>2. Typed'
    BY <1>7, <2>1, Finished DEF Allow, Fails, Ends, TurnOver
  <2>3. Turns'
    BY <1>7, <2>1, Finished DEF Allow, Fails, Ends, TurnOver
  <2>4. Written'
    BY <1>7, <2>1, Finished DEF Allow, Fails, Ends, TurnOver
  <2>5. /\ script = "storage" /\ pc = "allow" /\ agent \in Keyed
        /\ UNCHANGED <<files, tls, mailbox, layout, buckets, keys, wp, issued, misread, was>>
        /\ allowed' = allowed \/ Missing # {}
    BY <1>7, <2>1, Finished DEF Allow, Fails, TurnOver
  <2>6. allowed = Grants => Missing = {}
    BY DEF Missing
  <2>7. script' # "none" => script' = "storage" /\ pc' \in {"key", "allow"}
    BY <1>7, <2>1, Loops, Finished DEF Allow, Fails, Ends, Turned
  <2>8. Kept'
    BY <2>5, <2>6, <2>7
  <2>9. Harmless
    BY <2>5, <2>6
  <2> QED
    BY <2>2, <2>3, <2>4, <2>8, <2>9
<1> QED
  BY <1>1, <1>2, <1>3, <1>4, <1>5, <1>6, <1>7 DEF SetupStorage

\* SetupWordPress keeps the invariant and does no harm.
LEMMA SetupWordPressKeeps ==
    ASSUME RInv, SetupWordPress
    PROVE  RInv' /\ Harmless
<1> USE ProvisioningAssumption
    DEF At, Goto, RInv, Typed, Turns, Written, Kept, KeysKept, Rewritten, Repairs, Harmless,
        AgentFile, Passwords, Scripts, Users, Left,
        IntactBut, MailReady, StorageReady, WordPressReady, MayPublish, PublishingReady, Complete,
        files, tls, garage, wp, disk, history, process
<1>1. CASE InstallCore
  BY <1>1 DEF InstallCore
<1>2. CASE InstallPlugin
  BY <1>2 DEF InstallPlugin
<1>3. CASE ActivatePlugin
  BY <1>3 DEF ActivatePlugin
<1>4. CASE CreateRole
  BY <1>4 DEF CreateRole
<1>5. CASE AddCapability
  BY <1>5 DEF AddCapability
<1>6. CASE CreateUser
  BY <1>6 DEF CreateUser
<1>7. CASE RevokePassword
  <2>1. Typed'
    BY <1>7 DEF RevokePassword
  <2>2. Turns'
    BY <1>7 DEF RevokePassword
  <2>3. Written'
    BY <1>7 DEF RevokePassword
  <2>4. Kept'
    BY <1>7 DEF RevokePassword
  <2>5. Harmless
    BY <1>7 DEF RevokePassword
  <2> QED
    BY <2>1, <2>2, <2>3, <2>4, <2>5
<1>8. CASE CreatePassword
  <2>1. issued' \in Nat
    BY <1>8, Issued DEF CreatePassword
  <2> QED
    BY <1>8, <2>1 DEF CreatePassword
<1>9. CASE WritePassword
  <2>1. /\ agent_env' \in [Agents -> AgentFile] /\ Written'
        /\ \A b \in Agents : /\ agent_env'[b].password = agent_env[b].password
                             /\ agent_env'[b].s3 = agent_env[b].s3
        /\ agent_env[Impaginatore].password # "none" => agent_env'[Impaginatore].wp = issued
    <3>1. Impaginatore \in Agents /\ issued \in Nat
      OBVIOUS
    <3>2. agent_env' = [agent_env EXCEPT ![Impaginatore].wp =
                           IF agent_env[Impaginatore].file = "full" THEN issued ELSE @]
      BY <1>9 DEF WritePassword
    <3> QED
      BY <3>1, <3>2, WpWritten
  <2>2. Typed'
    BY <1>9, <2>1, Finished DEF WritePassword
  <2>3. Turns'
    BY <1>9, <2>1, Finished DEF WritePassword
  <2>4. Written'
    BY <1>9, <2>1, Finished DEF WritePassword
  <2>5. Kept'
    BY <1>9, <2>1, Finished DEF WritePassword
  <2>6. Harmless
    <3> SUFFICES ASSUME was
                 PROVE  /\ script = "wordpress" /\ MailReady' /\ StorageReady' /\ WordPressReady'
                        /\ MayPublish' /\ (~misread => PublishingReady')
      OBVIOUS
    <3>1. /\ script = "wordpress" /\ pc = "write password"
          /\ UNCHANGED <<env, himalaya, tls, mailbox, garage, wp>>
      BY <1>9 DEF WritePassword
    <3>2. agent_env'[Impaginatore].wp = issued /\ MayPublish' /\ (~misread => PublishingReady')
      BY <2>1, <3>1
    <3>5. MailReady'
      BY <2>1, <3>1
    <3>3. StorageReady'
      <4>1. StorageReady
        BY <1>9 DEF WritePassword
      <4>2. \A a \in Keyed : agent_env'[a].s3 = agent_env[a].s3
        BY <2>1
      <4>3. UNCHANGED <<layout, buckets, keys, allowed>>
        BY <1>9 DEF WritePassword
      <4> QED
        BY <4>1, <4>2, <4>3, Zenon
    <3>4. WordPressReady'
      BY <1>9 DEF WritePassword
    <3> QED
      BY <3>1, <3>2, <3>3, <3>4, <3>5
  <2> QED
    BY <2>2, <2>3, <2>4, <2>5, <2>6
<1>10. CASE ListPasswords
  BY <1>10 DEF ListPasswords
<1> QED
  BY <1>1, <1>2, <1>3, <1>4, <1>5, <1>6, <1>7, <1>8, <1>9, <1>10 DEF SetupWordPress

\* So do the director, who may delete what was complete, and a script that
\* starts or ends early.
LEMMA OthersKeep ==
    ASSUME RInv,
           \/ \E s \in Scripts : Run(s)
           \/ Die \/ Misread
           \/ \E a \in Agents : DeleteAgentEnv(a)
           \/ \E a \in Keyed : DeleteKey(a)
    PROVE  RInv' /\ Harmless
<1> USE ProvisioningAssumption
    DEF At, Goto, RInv, Typed, Turns, Written, Kept, KeysKept, Rewritten, Repairs, Harmless,
        AgentFile, Passwords, Scripts, Users, Left,
        IntactBut, MailReady, StorageReady, WordPressReady, MayPublish, PublishingReady, Complete,
        files, tls, garage, wp, disk, history, process
<1>1. CASE \E s \in Scripts : Run(s)
  <2>1. PICK s \in Scripts : Run(s)
    BY <1>1
  <2>2. s # "none" /\ Complete \in BOOLEAN
    BY DEF Scripts, Complete
  <2>3. Typed' /\ Turns' /\ Written'
    BY <2>1, <2>2 DEF Run
  <2>4. Kept'
    BY <2>1, <2>2 DEF Run, Complete
  <2>5. Harmless
    BY <2>1 DEF Run
  <2> QED
    BY <2>3, <2>4, <2>5
<1>2. CASE Die
  <2>1. script' = "none" /\ pc' = "none" /\ UNCHANGED <<disk, issued, misread, was>>
    BY <1>2 DEF Die, Ends
  <2>2. failures' \in Nat /\ failures' # failures
    BY <1>2, Death DEF Die
  <2>3. Typed'
    BY <2>1, <2>2
  <2>4. Turns' /\ Written' /\ Kept'
    BY <2>1
  <2>5. Harmless
    BY <2>1, <2>2
  <2> QED
    BY <2>3, <2>4, <2>5
<1>3. CASE \E a \in Agents : DeleteAgentEnv(a)
  <2>1. PICK a \in Agents : DeleteAgentEnv(a)
    BY <1>3
  <2>2. script = "none"
    BY <2>1 DEF DeleteAgentEnv, MayDelete
  <2>3. Typed'
    BY <2>1 DEF DeleteAgentEnv, NoFile
  <2>4. Turns' /\ Written' /\ Kept'
    BY <2>1, <2>2 DEF DeleteAgentEnv, NoFile
  <2> QED
    BY <2>2, <2>3, <2>4
<1>4. CASE \E a \in Keyed : DeleteKey(a)
  <2>1. PICK a \in Keyed : DeleteKey(a)
    BY <1>4
  <2>2. script = "none"
    BY <2>1 DEF DeleteKey, MayDelete
  <2>3. Typed'
    BY <2>1 DEF DeleteKey
  <2>4. Turns' /\ Written' /\ Kept'
    BY <2>1, <2>2 DEF DeleteKey
  <2> QED
    BY <2>2, <2>3, <2>4
<1>5. CASE Misread
  <2>1. /\ script \in {"storage", "wordpress"} /\ pc \in {"list keys", "list passwords"}
        /\ script = "storage" => pc = "list keys"
        /\ misread' = TRUE /\ UNCHANGED <<disk, process, issued, was>>
    BY <1>5 DEF Misread
  <2>2. failures' \in Nat
    BY <1>5, Death DEF Misread
  <2>3. Typed' /\ Turns' /\ Written'
    BY <2>1, <2>2
  <2>4. Kept' /\ Harmless
    BY <2>1
  <2> QED
    BY <2>3, <2>4
<1> QED
  BY <1>1, <1>2, <1>3, <1>4, <1>5

\* At the start there is nothing, and no script runs.
LEMMA NothingYet ==
    ASSUME Init
    PROVE  RInv
<1>1. Typed
  BY DEF Init, NoFile, Typed, AgentFile, Passwords, Users
<1>2. Turns /\ Kept
  BY DEF Init, Turns, Kept
<1>3. Written
  BY DEF Init, NoFile, Written
<1> QED
  BY <1>1, <1>2, <1>3 DEF RInv

\* Any step.
LEMMA StepKeeps ==
    ASSUME RInv, [Next]_vars
    PROVE  RInv' /\ [Harmless]_vars
<1>1. CASE SetupEnv
  BY <1>1, SetupEnvKeeps
<1>2. CASE SetupTls
  BY <1>2, SetupTlsKeeps
<1>3. CASE SetupMailboxes
  BY <1>3, SetupMailboxesKeeps
<1>4. CASE SetupStorage
  BY <1>4, SetupStorageKeeps
<1>5. CASE SetupWordPress
  BY <1>5, SetupWordPressKeeps
<1>6. CASE \/ \E s \in Scripts : Run(s)
           \/ Die \/ Misread
           \/ \E a \in Agents : DeleteAgentEnv(a)
           \/ \E a \in Keyed : DeleteKey(a)
  BY <1>6, OthersKeep
<1>7. CASE UNCHANGED vars
  <2>1. UNCHANGED <<disk, process, issued, misread, was, failures>>
    BY <1>7 DEF vars, history
  <2>2. Typed' /\ Turns' /\ Written'
    BY <2>1 DEF disk, files, tls, garage, wp, process, RInv, Typed, Turns, Written
  <2>3. Kept'
    BY <2>1 DEF disk, files, tls, garage, wp, process, RInv, Kept, KeysKept, Rewritten, Left,
                IntactBut, StorageReady, WordPressReady, PublishingReady
  <2> QED
    BY <1>7, <2>2, <2>3 DEF RInv
<1> QED
  BY <1>1, <1>2, <1>3, <1>4, <1>5, <1>6, <1>7 DEF Next

\* What a provisioning script started on a complete newsroom can break is what
\* it writes anew, when it ends early, and when its list fails unseen the keys or
\* a password that stays valid: for all agents, keys, buckets and grants, and any
\* number of runs, failures and deletions.
THEOREM RerunHarmless == Spec => RerunDoesNoHarm
<1>1. Init => RInv
  BY NothingYet
<1>2. RInv /\ [Next]_vars => RInv'
  BY StepKeeps
<1>3. RInv /\ [Next]_vars => [Harmless]_vars
  BY StepKeeps
<1> QED
  BY <1>1, <1>2, <1>3, PTL DEF Spec, RerunDoesNoHarm, Harmless
=============================================================================
