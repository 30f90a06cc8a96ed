----------------------------- MODULE RunbookProofs -----------------------------
(***************************************************************************)
(* The types of the provisioning scripts, and that following the runbook   *)
(* repairs the newsroom, for all agents, keys, buckets and grants, any     *)
(* order in which scripts were run before and any number of failures.      *)
(***************************************************************************)
EXTENDS ProvisioningProofs, FiniteSetTheorems

-----------------------------------------------------------------------------
(* What loops, ends and failures do.                                         *)

\* A script that runs to its end advances the runbook if it was the next one.
LEMMA RunbookGoesOn ==
    ASSUME TypeOK, Done, script # "none"
    PROVE  /\ script' = "none" /\ pc' = "none" /\ agent' = NoAgent /\ todo' = {}
           /\ UNCHANGED <<misread, was, lost, failures, deletes>>
           /\ progress' \in 0 .. 6
           /\ script = "env" => progress' = (IF progress = 1 THEN 2 ELSE 1)
           /\ script = "tls" => progress' = (IF progress = 2 THEN 3 ELSE 0)
           /\ script = "mailboxes" => progress' = (IF progress = 3 THEN 4 ELSE 0)
           /\ script = "storage" => progress' = (IF progress = 4 THEN 5 ELSE 0)
           /\ script = "wordpress" => progress' = (IF progress = 5 THEN 6 ELSE 0)
<1>1. /\ Len(Runbook) = 6 /\ Runbook[1] = "env" /\ Runbook[2] = "env" /\ Runbook[3] = "tls"
      /\ Runbook[4] = "mailboxes" /\ Runbook[5] = "storage" /\ Runbook[6] = "wordpress"
  BY DEF Runbook
<1>2. progress \in 0 .. 6 /\ script \in {"env", "tls", "mailboxes", "storage", "wordpress"}
  BY <1>1 DEF TypeOK, Scripts
<1>3. progress' = IF progress < 6 /\ Runbook[progress + 1] = script
                  THEN progress + 1 ELSE IF script = "env" THEN 1 ELSE 0
  BY <1>1 DEF Done
<1>4. \/ progress = 0 /\ Runbook[progress + 1] = "env"
      \/ progress = 1 /\ Runbook[progress + 1] = "env"
      \/ progress = 2 /\ Runbook[progress + 1] = "tls"
      \/ progress = 3 /\ Runbook[progress + 1] = "mailboxes"
      \/ progress = 4 /\ Runbook[progress + 1] = "storage"
      \/ progress = 5 /\ Runbook[progress + 1] = "wordpress"
      \/ progress = 6
  BY <1>1, <1>2
<1>5. /\ progress' \in 0 .. 6
      /\ script = "env" => progress' = (IF progress = 1 THEN 2 ELSE 1)
      /\ script = "tls" => progress' = (IF progress = 2 THEN 3 ELSE 0)
      /\ script = "mailboxes" => progress' = (IF progress = 3 THEN 4 ELSE 0)
      /\ script = "storage" => progress' = (IF progress = 4 THEN 5 ELSE 0)
      /\ script = "wordpress" => progress' = (IF progress = 5 THEN 6 ELSE 0)
  BY <1>2, <1>3, <1>4
<1>. QED  BY <1>5 DEF Done, Ends

-----------------------------------------------------------------------------
(* Types.                                                                  *)

EnvFile == [file : {"absent", "empty", "full"}, password : Passwords,
            s3 : Secrets, wp : Secrets]

\* The commands of each script.
Places ==
    /\ script = "none" => pc = "none"
    /\ script = "env" => pc \in {"start", "secrets", "agent env", "agent password", "himalaya",
                                "himalaya password"}
    /\ script = "tls" => pc \in {"start", "certificate", "copy", "write copy"}
    /\ script = "mailboxes" => pc \in {"start", "add"}
    /\ script = "storage" => pc \in {"start", "apply", "buckets", "list keys", "key",
                                    "write key", "allow"}
    /\ script = "wordpress" =>
            pc \in {"start", "plugin", "activate", "role", "capability", "user",
                    "list passwords", "revoke", "create", "write password"}

\* Of two keys of one name the new one has been allowed nothing.
Ungranted == \A a \in doubled : \A g \in allowed : g[1] # a

\* A run that did not see the keys ends at the first it creates again.
Doubling == script = "storage" /\ pc \in {"write key", "allow"} /\ agent \in doubled

\* A script has secrets left for what it has still to create.
Enough ==
    /\ script = "storage" => issued + Cardinality(Keyless) <= MaxSecrets
    /\ script = "storage" /\ misread /\ ~Doubling => issued + Cardinality(Keyless) < MaxSecrets
    /\ script = "wordpress" /\ pc # "write password" => issued < MaxSecrets

TypeInv == TypeOK /\ Turns /\ Places /\ Ungranted /\ Enough

LEMMA KeylessType == IsFiniteSet(Keyless) /\ Cardinality(Keyless) \in Nat
<1>1. IsFiniteSet(Keyed)
  BY ProvisioningAssumption, FS_Subset
<1>2. Keyless \in SUBSET Keyed
  BY DEF Keyless
<1>. QED  BY <1>1, <1>2, FS_Subset, FS_CardinalityType

\* The types, part by part.
FileTypes ==
    /\ env \in Passwords /\ agent_env \in [Agents -> EnvFile]
    /\ himalaya \in [Keyed -> Passwords]
TlsTypes     == ca \in BOOLEAN /\ mail_crt \in BOOLEAN /\ agents_ca \in BOOLEAN
MailboxTypes == mailbox \in [Users -> Passwords]
GarageTypes ==
    /\ layout \in {"none", "staged", "applied"} /\ buckets \subseteq Buckets
    /\ keys \in [Keyed -> Secrets] /\ allowed \subseteq Grants /\ doubled \subseteq Keyed
WpTypes ==
    /\ core \in BOOLEAN /\ plugin \in {"none", "installed", "active"}
    /\ role \in {"none", "contributor", "uploads"} /\ user \in {"none", "impaginatore"}
    /\ app_passwords \subseteq Secrets \ {0}
RunTypes ==
    /\ script \in Scripts \cup {"none"} /\ (script = "none" <=> pc = "none")
    /\ agent \in Users \cup {NoAgent} /\ todo \subseteq Users
    /\ progress \in 0 .. 6
HistoryTypes ==
    /\ issued \in Secrets /\ was \in BOOLEAN /\ misread \in BOOLEAN
    /\ failures \in 0 .. MaxFailures /\ deletes \in 0 .. MaxDeletes

LEMMA TypeParts ==
    TypeOK <=> /\ FileTypes /\ TlsTypes /\ MailboxTypes /\ GarageTypes /\ WpTypes
               /\ RunTypes /\ HistoryTypes
<1>1. Len(Runbook) = 6
  BY DEF Runbook
<1>. QED  BY <1>1 DEF TypeOK, FileTypes, TlsTypes, MailboxTypes, GarageTypes, WpTypes, RunTypes,
                      HistoryTypes, EnvFile

LEMMA TypePartsNext ==
    TypeOK' <=> /\ FileTypes' /\ TlsTypes' /\ MailboxTypes' /\ GarageTypes' /\ WpTypes'
                /\ RunTypes' /\ HistoryTypes'
BY TypeParts, PTL

LEMMA InitTypes == Init => TypeInv
<1>. SUFFICES ASSUME Init PROVE TypeInv
  OBVIOUS
<1>1. /\ 0 \in Secrets /\ MaxFailures \in Nat /\ MaxDeletes \in Nat
      /\ 0 \in 0 .. MaxFailures /\ 0 \in 0 .. MaxDeletes
  BY ProvisioningAssumption DEF Secrets
<1>2. NoFile \in EnvFile
  BY <1>1 DEF NoFile, EnvFile, Passwords
<1>3. FileTypes /\ TlsTypes /\ MailboxTypes
  BY <1>2 DEF Init, FileTypes, TlsTypes, MailboxTypes, Passwords
<1>4. GarageTypes /\ WpTypes
  BY <1>1 DEF Init, GarageTypes, WpTypes
<1>5. RunTypes
  BY DEF Init, RunTypes
<1>6. HistoryTypes
  BY <1>1 DEF Init, HistoryTypes
<1>. QED  BY <1>3, <1>4, <1>5, <1>6, TypeParts DEF TypeInv, Init, Turns, Places, Ungranted, Enough

\* What a step of setup-env.sh does to the files, and where it goes.
LEMMA SetupEnvTypes ==
    ASSUME TypeInv, SetupEnv
    PROVE  TypeInv'
<1>. USE DEF files, tls, garage, wp, disk, history, process
<1>1. FileTypes /\ RunTypes /\ HistoryTypes /\ Turns
  BY TypeParts DEF TypeInv
<1>2. /\ script = "env" /\ UNCHANGED <<tls, mailbox, garage, wp, issued, misread, was, lost, failures, deletes>>
  <2>1. CASE EnvStart
    BY <2>1 DEF EnvStart, At, Goto, NextTurn
  <2>2. CASE EnvSecrets \/ TruncateHimalaya \/ HimalayaPassword
    BY <2>2 DEF EnvSecrets, TruncateHimalaya, HimalayaPassword, At, Goto, Done, NextTurn
  <2>3. CASE AgentEnv \/ AgentPassword
    BY <2>3 DEF AgentEnv, AgentPassword, At, Goto, NextTurn
  <2>. QED  BY <2>1, <2>2, <2>3 DEF SetupEnv
<1>3. FileTypes'
  <2>1. CASE EnvStart
    BY <1>1, <2>1 DEF EnvStart, FileTypes, Passwords
  <2>2. CASE EnvSecrets
    BY <1>1, <2>2 DEF EnvSecrets, FileTypes, Passwords
  <2>3. CASE AgentEnv
    BY <1>1, <2>3 DEF AgentEnv, FileTypes, EnvFile
  <2>4. CASE AgentPassword
    BY <1>1, <2>4 DEF AgentPassword, FileTypes, EnvFile
  <2>5. CASE TruncateHimalaya \/ HimalayaPassword
    BY <1>1, <2>5 DEF TruncateHimalaya, HimalayaPassword, FileTypes, Passwords
  <2>. QED  BY <2>1, <2>2, <2>3, <2>4, <2>5 DEF SetupEnv
<1>4. \/ /\ pc' \in {"secrets", "agent password", "himalaya password"}
         /\ UNCHANGED <<script, agent, todo, progress>>
         /\ pc' = "agent password" => pc = "agent env"
         /\ pc' = "himalaya password" => pc = "himalaya"
      \/ Turned(Agents, "agent env") \/ Turned(Keyed, "himalaya")
      \/ Turned(todo, "agent env") /\ todo \subseteq Agents
      \/ Turned(todo, "himalaya") /\ todo \subseteq Keyed
      \/ Done
  <2>1. CASE EnvStart
    BY <2>1, Loops DEF EnvStart, Goto
  <2>2. CASE EnvSecrets
    BY <2>2 DEF EnvSecrets
  <2>3. CASE AgentEnv \/ AgentPassword
    BY <1>1, <2>3, Loops DEF AgentEnv, AgentPassword, At, Goto, Turns
  <2>4. CASE TruncateHimalaya \/ HimalayaPassword
    BY <1>1, <2>4, Loops DEF TruncateHimalaya, HimalayaPassword, At, Goto, Turns
  <2>. QED  BY <2>1, <2>2, <2>3, <2>4 DEF SetupEnv
<1>5. /\ script' \in {"env", "none"} /\ Places' /\ Turns' /\ RunTypes'
  <2>1. CASE Done
    BY <1>2, <2>1, RunbookGoesOn DEF TypeInv, Places, Turns, RunTypes
  <2>2. CASE ~Done
    BY <1>1, <1>2, <1>4, <2>2, ProvisioningAssumption
       DEF Turned, Places, Turns, RunTypes, Users, Scripts
  <2>. QED  BY <2>1, <2>2
<1>6. TypeOK'
  BY <1>2, <1>3, <1>5, TypeParts, TypePartsNext
     DEF TypeInv, TlsTypes, MailboxTypes, GarageTypes, WpTypes, HistoryTypes
<1>. QED  BY <1>2, <1>5, <1>6 DEF TypeInv, Ungranted, Enough

LEMMA SetupTlsTypes ==
    ASSUME TypeInv, SetupTls
    PROVE  TypeInv'
<1>. USE DEF files, tls, garage, wp, disk, history, process
<1>1. /\ script = "tls" /\ UNCHANGED <<files, mailbox, garage, wp, issued, misread, was, lost, failures, deletes>>
      /\ TlsTypes'
      /\ \/ /\ pc' \in {"certificate", "copy", "write copy"}
            /\ UNCHANGED <<script, agent, todo, progress>>
         \/ Done
  BY TypeParts
     DEF TypeInv, TlsTypes, SetupTls, Authority, Certificate, TruncateCopy, CopyAuthority, At,
         Goto, Done
<1>2. script' \in {"tls", "none"} /\ Places' /\ Turns' /\ RunTypes'
  BY <1>1, TypeParts, RunbookGoesOn DEF TypeInv, RunTypes, Scripts, Places, Turns
<1>3. TypeOK'
  BY <1>1, <1>2, TypeParts, TypePartsNext
     DEF TypeInv, FileTypes, MailboxTypes, GarageTypes, WpTypes, HistoryTypes
<1>. QED  BY <1>1, <1>2, <1>3 DEF TypeInv, Ungranted, Enough

LEMMA SetupMailboxesTypes ==
    ASSUME TypeInv, SetupMailboxes
    PROVE  TypeInv'
<1>. USE DEF files, tls, garage, wp, disk, history, process
<1>0. env \in Passwords /\ mailbox \in [Users -> Passwords] /\ RunTypes /\ Turns
  BY TypeParts DEF TypeInv, FileTypes, MailboxTypes
<1>1. /\ script = "mailboxes"
      /\ UNCHANGED <<files, tls, garage, wp, issued, misread, was, lost, failures, deletes>>
      /\ MailboxTypes'
  BY <1>0 DEF SetupMailboxes, ListMailboxes, AddMailbox, At, Done, NextTurn, MailboxTypes
<1>2. (\E left \in SUBSET Users : Turned(left, "add")) \/ Done
  <2>1. CASE ListMailboxes
    <3>1. PICK missing \in SUBSET Users :
              IF missing = {} THEN Done ELSE NextTurn(missing, "add", "none")
      BY <2>1 DEF ListMailboxes
    <3>. QED  BY <3>1, LoopGoesOn
  <2>2. CASE AddMailbox
    BY <1>0, <2>2, Loops DEF AddMailbox, At, Turns
  <2>. QED  BY <2>1, <2>2 DEF SetupMailboxes
<1>3. script' \in {"mailboxes", "none"} /\ Places' /\ Turns' /\ RunTypes'
  <2>1. CASE Done
    BY <1>1, <2>1, RunbookGoesOn DEF TypeInv, Places, Turns, RunTypes
  <2>2. CASE ~Done
    BY <1>0, <1>1, <1>2, <2>2 DEF Turned, Places, Turns, RunTypes, Scripts
  <2>. QED  BY <2>1, <2>2
<1>4. TypeOK'
  BY <1>1, <1>3, TypeParts, TypePartsNext
     DEF TypeInv, FileTypes, TlsTypes, GarageTypes, WpTypes, HistoryTypes
<1>. QED  BY <1>1, <1>3, <1>4 DEF TypeInv, Ungranted, Enough

\* A key that is doubled has not been allowed everything.
LEMMA DoubledMisses ==
    ASSUME Ungranted, agent \in Keyed, agent \in doubled
    PROVE  Missing # {}
<1>1. PICK b \in Buckets : <<agent, b>> \in Grants
  BY ProvisioningAssumption
<1>2. <<agent, b>>[1] = agent
  OBVIOUS
<1>3. <<agent, b>> \notin allowed
  BY <1>2 DEF Ungranted
<1>. QED  BY <1>1, <1>2, <1>3 DEF Missing

LEMMA SetupStorageTypes ==
    ASSUME TypeInv, SetupStorage
    PROVE  TypeInv'
<1>. USE DEF files, tls, garage, wp, disk, history, process
<1>0. FileTypes /\ GarageTypes /\ RunTypes /\ HistoryTypes /\ Turns /\ Ungranted /\ Enough
  BY TypeParts DEF TypeInv
<1>1. /\ script = "storage"
      /\ UNCHANGED <<env, himalaya, tls, mailbox, wp, misread, was, failures, deletes>>
  <2>1. CASE AssignLayout \/ ApplyLayout \/ WriteKey
    BY <2>1 DEF AssignLayout, ApplyLayout, WriteKey, At, Goto
  <2>2. CASE CreateBucket \/ ListKeys
    BY <2>2 DEF CreateBucket, ListKeys, At, Goto, NextTurn, Fails
  <2>3. CASE CreateKey
    BY <2>3 DEF CreateKey, At, Goto
  <2>4. CASE Allow
    BY <2>4 DEF Allow, At, NextTurn, Done, Fails
  <2>. QED  BY <2>1, <2>2, <2>3, <2>4 DEF SetupStorage
<1>2. CASE CreateKey
  <2>1. /\ pc = "key" /\ pc' \in {"write key", "allow"} /\ agent \in Keyed
        /\ UNCHANGED <<script, agent, todo, layout, buckets, agent_env, progress>>
        /\ \/ UNCHANGED <<keys, issued, doubled, allowed>>
           \/ /\ keys' = [keys EXCEPT ![agent] = issued + 1] /\ issued' = issued + 1
              /\ allowed' = {g \in allowed : g[1] # agent}
              /\ pc' = "write key"
              /\ \/ keys[agent] = 0 /\ UNCHANGED doubled
                 \/ keys[agent] # 0 /\ misread /\ doubled' = doubled \cup {agent}
    <3>1. script = "storage" /\ pc = "key" /\ agent \in Keyed
      BY <1>0, <1>2 DEF CreateKey, At, Turns
    <3>. QED  BY <1>2, <3>1 DEF CreateKey, Goto
  <2>2. /\ issued \in Nat /\ MaxSecrets \in Nat /\ Cardinality(Keyless) \in Nat
        /\ issued + Cardinality(Keyless) <= MaxSecrets
        /\ misread => issued + Cardinality(Keyless) < MaxSecrets
        /\ keys \in [Keyed -> Secrets] /\ agent \in Keyed
    <3>1. ~Doubling
      BY <2>1 DEF Doubling
    <3>2. script = "storage" /\ keys \in [Keyed -> Secrets] /\ agent \in Keyed
      BY <1>0, <1>1, <2>1 DEF GarageTypes
    <3>3. issued \in Nat /\ MaxSecrets \in Nat
      BY <1>0, ProvisioningAssumption DEF HistoryTypes, Secrets
    <3>. QED  BY <1>0, <3>1, <3>2, <3>3, KeylessType DEF Enough
  <2>3. /\ issued' \in Secrets /\ keys' \in [Keyed -> Secrets]
        /\ issued' + Cardinality(Keyless)' <= MaxSecrets
        /\ misread /\ ~Doubling' => issued' + Cardinality(Keyless)' < MaxSecrets
    <3>1. CASE UNCHANGED <<keys, issued>>
      <4>1. Keyless' = Keyless
        BY <3>1 DEF Keyless
      <4>. QED  BY <1>0, <2>2, <3>1, <4>1 DEF HistoryTypes
    <3>2. CASE /\ keys[agent] = 0
               /\ keys' = [keys EXCEPT ![agent] = issued + 1] /\ issued' = issued + 1
      <4>1. Keyless' = Keyless \ {agent} /\ agent \in Keyless
        <5>1. /\ keys'[agent] # 0 /\ keys[agent] = 0 /\ agent \in Keyed
              /\ \A a \in Keyed : a # agent => keys'[a] = keys[a]
          BY <2>2, <3>2
        <5>. QED  BY <5>1 DEF Keyless
      <4>2. Cardinality(Keyless)' = Cardinality(Keyless) - 1
        BY <4>1, KeylessType, FS_RemoveElement
      <4>3. Cardinality(Keyless)' \in Nat
        BY <4>1, KeylessType, FS_RemoveElement, FS_CardinalityType
      <4>4. /\ issued' + Cardinality(Keyless)' <= MaxSecrets /\ issued' \in Secrets
            /\ misread => issued' + Cardinality(Keyless)' < MaxSecrets
        BY <2>2, <3>2, <4>2, <4>3 DEF Secrets
      <4>. QED  BY <2>2, <3>2, <4>4
    <3>3. CASE /\ keys[agent] # 0 /\ misread /\ doubled' = doubled \cup {agent}
               /\ keys' = [keys EXCEPT ![agent] = issued + 1] /\ issued' = issued + 1
               /\ pc' = "write key"
      <4>1. Keyless' = Keyless
        <5>1. issued \in Nat /\ keys \in [Keyed -> Secrets] /\ agent \in Keyed
          BY <2>2
        <5>2. keys[agent] # 0 /\ keys' = [keys EXCEPT ![agent] = issued + 1]
          BY <3>3
        <5>3. /\ keys'[agent] # 0 /\ keys[agent] # 0 /\ agent \in Keyed
              /\ \A a \in Keyed : a # agent => keys'[a] = keys[a]
          BY <5>1, <5>2
        <5>. QED  BY <5>3 DEF Keyless
      <4>2. Doubling'
        BY <1>1, <2>1, <3>3 DEF Doubling
      <4>3. issued' + Cardinality(Keyless)' <= MaxSecrets /\ issued' \in Secrets
        <5>1. issued + Cardinality(Keyless) < MaxSecrets /\ issued' = issued + 1
          BY <2>2, <3>3
        <5>2. Cardinality(Keyless)' = Cardinality(Keyless)
          BY <4>1
        <5>. QED  BY <2>2, <5>1, <5>2 DEF Secrets
      <4>. QED  BY <2>1, <2>2, <3>3, <4>2, <4>3
    <3>. QED  BY <2>1, <3>1, <3>2, <3>3
  <2>4. allowed' \subseteq Grants /\ doubled' \subseteq Keyed /\ Ungranted'
    BY <1>0, <2>1 DEF GarageTypes, Ungranted
  <2>5. TypeOK'
    BY <1>0, <1>1, <2>1, <2>3, <2>4, TypeParts, TypePartsNext
       DEF TypeInv, FileTypes, TlsTypes, MailboxTypes, WpTypes, GarageTypes, RunTypes, HistoryTypes
  <2>6. Turns' /\ Places'
    BY <1>0, <1>1, <2>1 DEF Turns, Places
  <2>. QED  BY <1>1, <2>1, <2>3, <2>4, <2>5, <2>6 DEF TypeInv, Enough
<1>3. CASE ~CreateKey
  <2>1. UNCHANGED <<keys, doubled, issued>>
    BY <1>3 DEF SetupStorage, AssignLayout, ApplyLayout, WriteKey, CreateBucket, ListKeys, Allow
  <2>2. FileTypes'
    <3>1. CASE WriteKey
      BY <1>0, <3>1 DEF WriteKey, At, Turns, FileTypes, GarageTypes, EnvFile
    <3>2. CASE ~WriteKey
      BY <1>0, <1>3, <3>2 DEF SetupStorage, AssignLayout, ApplyLayout, CreateBucket, ListKeys,
                              Allow, FileTypes
    <3>. QED  BY <3>1, <3>2
  <2>3. /\ layout' \in {"none", "staged", "applied"} /\ buckets' \subseteq Buckets
        /\ \/ UNCHANGED allowed
           \/ agent \notin doubled /\ \E g \in Missing : allowed' = allowed \cup {g}
    <3>1. CASE Allow
      BY <1>0, <3>1 DEF Allow, GarageTypes
    <3>2. CASE ~Allow
      BY <1>0, <1>3, <3>2 DEF SetupStorage, AssignLayout, ApplyLayout, WriteKey, CreateBucket,
                              ListKeys, GarageTypes
    <3>. QED  BY <3>1, <3>2
  <2>4. GarageTypes' /\ Ungranted'
    BY <1>0, <2>1, <2>3 DEF GarageTypes, Ungranted, Missing
  <2>5. \/ /\ pc' \in {"apply", "buckets", "list keys"} /\ UNCHANGED <<script, agent, todo, progress>>
           /\ pc \notin {"write key", "allow"}
        \/ pc \in {"write key", "allow"} /\ pc' = "allow" /\ UNCHANGED <<script, agent, todo, progress>>
        \/ Turned(Keyed, "key") /\ pc = "list keys"
        \/ Turned(todo, "key") /\ todo \subseteq Keyed /\ Missing = {} /\ agent \in Keyed
        \/ Done
        \/ Fails
    <3>1. CASE AssignLayout \/ ApplyLayout \/ WriteKey
      BY <3>1 DEF AssignLayout, ApplyLayout, WriteKey, Goto, At
    <3>2. CASE CreateBucket
      BY <3>2 DEF CreateBucket, At, Goto
    <3>3. CASE ListKeys
      BY <3>3, Loops DEF ListKeys, At
    <3>4. CASE Allow
      <4>1. pc = "allow" /\ todo \subseteq Keyed /\ agent \in Keyed
        BY <1>0, <3>4 DEF Allow, At, Turns
      <4>2. \/ UNCHANGED <<process, history>>
            \/ Fails
            \/ Missing = {} /\ IF todo = {} THEN Done ELSE NextTurn(todo, "key", "none")
        BY <3>4 DEF Allow
      <4>. QED  BY <4>1, <4>2, Loops
    <3>. QED  BY <1>3, <3>1, <3>2, <3>3, <3>4 DEF SetupStorage
  <2>6. script' \in {"storage", "none"} /\ Places' /\ Turns' /\ RunTypes'
    <3>1. CASE Done
      BY <1>1, <3>1, RunbookGoesOn DEF TypeInv, Places, Turns, RunTypes
    <3>2. CASE Fails
      BY <3>2 DEF Fails, Ends, Places, Turns, RunTypes
    <3>3. CASE Turned(Keyed, "key") \/ (Turned(todo, "key") /\ todo \subseteq Keyed)
      <4>1. /\ script' = "storage" /\ pc' = "key" /\ progress' = progress
            /\ agent' \in Keyed /\ todo' \subseteq Keyed
        BY <1>1, <3>3 DEF Turned
      <4>. QED  BY <1>0, <4>1, ProvisioningAssumption DEF Places, Turns, RunTypes, Scripts, Users
    <3>4. CASE UNCHANGED <<script, agent, todo, progress>> /\ ~Done /\ ~Fails
      BY <1>0, <1>1, <2>5, <3>4 DEF Turned, Places, Turns, RunTypes
    <3>. QED  BY <2>5, <3>1, <3>2, <3>3, <3>4
  <2>7. TypeOK'
    BY <1>0, <1>1, <2>1, <2>2, <2>4, <2>6, TypeParts, TypePartsNext
       DEF TypeInv, TlsTypes, MailboxTypes, WpTypes, HistoryTypes
  <2>8. script' = "storage" /\ Doubling => Doubling'
    <3>1. CASE UNCHANGED <<script, agent, todo, progress>>
      BY <1>1, <2>1, <2>5, <3>1 DEF Doubling, Turned, Done, Fails, Ends
    <3>2. CASE Turned(Keyed, "key") /\ pc = "list keys"
      BY <3>2 DEF Doubling
    <3>3. CASE Missing = {} /\ agent \in Keyed
      BY <1>0, <3>3, DoubledMisses DEF Doubling
    <3>4. CASE Done \/ Fails
      BY <3>4 DEF Done, Fails, Ends
    <3>. QED  BY <2>5, <3>1, <3>2, <3>3, <3>4
  <2>9. Cardinality(Keyless)' = Cardinality(Keyless)
    BY <2>1 DEF Keyless
  <2>. QED  BY <1>0, <1>1, <2>1, <2>4, <2>6, <2>7, <2>8, <2>9 DEF TypeInv, Enough
<1>. QED  BY <1>2, <1>3

LEMMA SetupWordPressTypes ==
    ASSUME TypeInv, SetupWordPress
    PROVE  TypeInv'
<1>. USE DEF files, tls, garage, wp, disk, history, process
<1>0. FileTypes /\ WpTypes /\ RunTypes /\ HistoryTypes /\ Turns /\ Places /\ Enough
  BY TypeParts DEF TypeInv
<1>1. /\ script = "wordpress"
      /\ UNCHANGED <<env, himalaya, tls, mailbox, garage, misread, was, lost, failures, deletes>>
  BY DEF SetupWordPress, InstallCore, InstallPlugin, ActivatePlugin, CreateRole, AddCapability,
         CreateUser, ListPasswords, RevokePassword, CreatePassword, WritePassword, At, Goto, Done
<1>2. FileTypes'
  <2>1. CASE WritePassword
    BY <1>0, <2>1, ProvisioningAssumption DEF WritePassword, FileTypes, EnvFile, HistoryTypes
  <2>2. CASE ~WritePassword
    BY <1>0, <2>2
       DEF SetupWordPress, InstallCore, InstallPlugin, ActivatePlugin, CreateRole, AddCapability,
           CreateUser, ListPasswords, RevokePassword, CreatePassword, FileTypes
  <2>. QED  BY <2>1, <2>2
<1>3. /\ issued' \in Secrets /\ WpTypes'
      /\ pc' # "write password" /\ pc' # "none" => issued' < MaxSecrets
  <2>1. CASE CreatePassword
    <3>1. issued + 1 \in Secrets \ {0}
      <4>1. issued < MaxSecrets
        BY <1>0, <2>1 DEF CreatePassword, At, Enough
      <4>2. issued \in Nat /\ MaxSecrets \in Nat
        BY <1>0, ProvisioningAssumption DEF HistoryTypes, Secrets
      <4>. QED  BY <4>1, <4>2 DEF Secrets
    <3>. QED  BY <1>0, <2>1, <3>1 DEF CreatePassword, WpTypes, Goto
  <2>2. CASE ~CreatePassword
    <3>1. /\ issued' = issued /\ WpTypes'
          /\ pc' # "write password" /\ pc' # "none" => pc # "write password"
      BY <1>0, <2>2
         DEF SetupWordPress, InstallCore, InstallPlugin, ActivatePlugin, CreateRole,
             AddCapability, CreateUser, ListPasswords, RevokePassword, WritePassword, WpTypes, At,
             Goto, Done, Ends
    <3>. QED  BY <1>0, <1>1, <3>1 DEF Enough, HistoryTypes
  <2>. QED  BY <2>1, <2>2
<1>4. \/ /\ pc' \in {"plugin", "activate", "role", "capability", "user", "list passwords",
                     "revoke", "create", "write password"}
         /\ UNCHANGED <<script, agent, todo, progress>>
      \/ Done
  BY DEF SetupWordPress, InstallCore, InstallPlugin, ActivatePlugin, CreateRole, AddCapability,
         CreateUser, ListPasswords, RevokePassword, CreatePassword, WritePassword, At, Goto
<1>5. script' \in {"wordpress", "none"} /\ Places' /\ Turns' /\ RunTypes'
  BY <1>0, <1>1, <1>4, RunbookGoesOn DEF TypeInv, RunTypes, Places, Turns
<1>6. TypeOK'
  BY <1>0, <1>1, <1>2, <1>3, <1>5, TypeParts, TypePartsNext
     DEF TypeInv, TlsTypes, MailboxTypes, GarageTypes, HistoryTypes
<1>. QED  BY <1>1, <1>3, <1>5, <1>6 DEF TypeInv, Ungranted, Enough, RunTypes

LEMMA OthersTypes ==
    ASSUME TypeInv,
           \/ \E s \in Scripts : Run(s)
           \/ Die
           \/ Misread
           \/ \E a \in Agents : DeleteAgentEnv(a)
           \/ \E a \in Keyed : DeleteKey(a)
    PROVE  TypeInv'
<1>. USE DEF files, tls, garage, wp, disk, history, process
<1>0. FileTypes /\ GarageTypes /\ RunTypes /\ HistoryTypes /\ Turns /\ Places
      /\ Ungranted /\ Enough
  BY TypeParts DEF TypeInv
<1>1. CASE \E s \in Scripts : Run(s)
  <2>1. PICK s \in Scripts : Run(s)
    BY <1>1
  <2>2. /\ script' = s /\ pc' = "start" /\ UNCHANGED <<disk, agent, todo, issued, progress>>
        /\ UNCHANGED <<lost, failures, deletes>> /\ misread' = FALSE /\ was' \in BOOLEAN
    <3>1. was' = (IntactBut(s) /\ StorageReady)
      BY <2>1 DEF Run
    <3>. QED  BY <2>1, <3>1 DEF Run
  <2>3. Turns' /\ Places' /\ RunTypes'
    BY <1>0, <2>2 DEF Turns, Places, RunTypes, Scripts
  <2>4. Enough'
    <3>1. /\ s = "storage" => MaxSecrets - issued >= Cardinality(Keyless)
          /\ s = "wordpress" => MaxSecrets - issued >= 1
      BY <2>1 DEF Run, SecretsLeft, Keyless
    <3>2. issued \in Nat /\ MaxSecrets \in Nat /\ Cardinality(Keyless) \in Nat
      BY <1>0, KeylessType, ProvisioningAssumption DEF HistoryTypes, Secrets
    <3>3. Cardinality(Keyless)' = Cardinality(Keyless)
      BY <2>2 DEF Keyless
    <3>4. /\ s = "storage" => issued + Cardinality(Keyless) <= MaxSecrets
          /\ s = "wordpress" => issued < MaxSecrets
      BY <3>1, <3>2
    <3>. QED  BY <2>2, <3>3, <3>4 DEF Enough
  <2>5. TypeOK'
    BY <1>0, <2>2, <2>3, TypeParts, TypePartsNext
       DEF TypeInv, FileTypes, TlsTypes, MailboxTypes, GarageTypes, WpTypes, HistoryTypes
  <2>. QED  BY <1>0, <2>2, <2>3, <2>4, <2>5 DEF TypeInv, Ungranted
<1>2. CASE Die
  <2>1. /\ script' = "none" /\ pc' = "none" /\ agent' = NoAgent /\ todo' = {}
        /\ progress' = 0 /\ UNCHANGED <<disk, issued, misread, was, deletes>>
        /\ failures < MaxFailures /\ failures' = failures + 1
    BY <1>2 DEF Die, Ends
  <2>2. Turns' /\ Places' /\ RunTypes' /\ Enough'
    BY <2>1 DEF Turns, Places, RunTypes, Enough
  <2>3. HistoryTypes'
    BY <1>0, <2>1, ProvisioningAssumption DEF HistoryTypes
  <2>4. TypeOK'
    BY <1>0, <2>1, <2>2, <2>3, TypeParts, TypePartsNext
       DEF TypeInv, FileTypes, TlsTypes, MailboxTypes, GarageTypes, WpTypes
  <2>. QED  BY <1>0, <2>1, <2>2, <2>4 DEF TypeInv, Ungranted
<1>3. CASE Misread
  <2>1. /\ failures < MaxFailures /\ failures' = failures + 1 /\ misread' = TRUE
        /\ UNCHANGED <<disk, process, issued, progress, was, lost, deletes>>
        /\ script = "storage" => issued + Cardinality(Keyless) < MaxSecrets
    BY <1>3 DEF Misread
  <2>2. HistoryTypes'
    BY <1>0, <2>1, ProvisioningAssumption DEF HistoryTypes
  <2>3. Turns' /\ Places' /\ RunTypes' /\ Ungranted'
    BY <1>0, <2>1 DEF Turns, Places, RunTypes, Ungranted
  <2>4. Enough'
    <3>1. Cardinality(Keyless)' = Cardinality(Keyless)
      BY <2>1 DEF Keyless
    <3>. QED  BY <1>0, <2>1, <3>1 DEF Enough
  <2>5. TypeOK'
    BY <1>0, <2>1, <2>2, <2>3, TypeParts, TypePartsNext
       DEF TypeInv, FileTypes, TlsTypes, MailboxTypes, GarageTypes, WpTypes
  <2>. QED  BY <2>3, <2>4, <2>5 DEF TypeInv
<1>4. CASE (\E a \in Agents : DeleteAgentEnv(a)) \/ (\E a \in Keyed : DeleteKey(a))
  <2>1. /\ script = "none" /\ progress' = 0 /\ deletes < MaxDeletes /\ deletes' = deletes + 1
        /\ UNCHANGED <<env, himalaya, tls, mailbox, layout, buckets, wp, process, issued, misread>>
        /\ UNCHANGED <<was, failures>>
    BY <1>4 DEF DeleteAgentEnv, DeleteKey, MayDelete
  <2>2. 0 \in Secrets
    BY ProvisioningAssumption DEF Secrets
  <2>3. agent_env' \in [Agents -> EnvFile]
    <3>1. NoFile \in EnvFile
      BY <2>2 DEF NoFile, EnvFile, Passwords
    <3>. QED  BY <1>0, <1>4, <3>1 DEF DeleteAgentEnv, DeleteKey, FileTypes
  <2>4. keys' \in [Keyed -> Secrets] /\ allowed' \subseteq Grants /\ doubled' \subseteq Keyed
    BY <1>0, <1>4, <2>2 DEF DeleteAgentEnv, DeleteKey, GarageTypes
  <2>5. Turns' /\ Places' /\ RunTypes' /\ Enough'
    BY <1>0, <2>1 DEF Turns, Places, RunTypes, Enough
  <2>6. HistoryTypes'
    BY <1>0, <2>1, ProvisioningAssumption DEF HistoryTypes
  <2>7. FileTypes' /\ GarageTypes'
    BY <1>0, <2>1, <2>3, <2>4 DEF FileTypes, GarageTypes
  <2>8. TypeOK'
    BY <2>1, <2>5, <2>6, <2>7, TypeParts, TypePartsNext
       DEF TypeInv, TlsTypes, MailboxTypes, WpTypes
  <2>9. Ungranted'
    BY <1>0, <1>4 DEF DeleteAgentEnv, DeleteKey, Ungranted
  <2>. QED  BY <2>5, <2>8, <2>9 DEF TypeInv
<1>. QED  BY <1>1, <1>2, <1>3, <1>4

LEMMA TypesKept ==
    ASSUME TypeInv, [Next]_vars
    PROVE  TypeInv'
<1>1. CASE UNCHANGED vars
  <2>. USE <1>1 DEF vars, disk, files, tls, garage, wp, process, history
  <2>1. TypeOK'
    BY DEF TypeInv, TypeOK
  <2>2. Turns' /\ Places'
    BY DEF TypeInv, Turns, Places
  <2>3. Enough' /\ Ungranted'
    BY DEF TypeInv, Enough, Doubling, Ungranted, Keyless
  <2>. QED  BY <2>1, <2>2, <2>3 DEF TypeInv
<1>. QED
  BY <1>1, SetupEnvTypes, SetupTlsTypes, SetupMailboxesTypes, SetupStorageTypes,
     SetupWordPressTypes, OthersTypes DEF Next

LEMMA TypesInvariant == Spec => []TypeInv
BY InitTypes, TypesKept, PTL DEF Spec

\* Every variable keeps its type, no script at rest is in the middle of
\* something, and none creates more secrets than were left when it started.
THEOREM ProvisioningTypes == Spec => []TypeOK
<1>1. TypeInv => TypeOK
  BY DEF TypeInv
<1>. QED  BY <1>1, TypesInvariant, PTL

-----------------------------------------------------------------------------
(* The runbook repairs.                                                    *)

Excuses == lost \cup Window

\* What only looks complete was left so by a script that ended there, or is
\* being completed.
Excused ==
    /\ env = "template" => <<"passwords", NoAgent>> \in Excuses
    /\ \A a \in Agents : agent_env[a].file = "empty" => <<"agent env", a>> \in Excuses
    /\ ca /\ ~mail_crt => <<"certificate", NoAgent>> \in Excuses
    /\ layout = "staged" => <<"layout", NoAgent>> \in Excuses
    /\ \A a \in Keyed : keys[a] # 0 /\ agent_env[a].s3 # keys[a] =>
            <<"agent env", a>> \in lost \/ <<"secret", a>> \in Excuses
    /\ plugin = "installed" => <<"plugin", NoAgent>> \in Excuses

\* Wherever a password was written it is the one of .env, which was made before
\* any other and never again.
Agreed ==
    /\ \A u \in Users : mailbox[u] \in {"none", env}
    /\ \A a \in Agents : agent_env[a].password \in {"none", env}
    /\ \A a \in Agents : agent_env[a].file = "full" => agent_env[a].password # "none"
    /\ \A a \in Keyed : himalaya[a] \in {"none", env}
    /\ pc = "secrets" => /\ \A u \in Users : mailbox[u] = "none"
                         /\ \A a \in Agents : agent_env[a].password = "none"
                         /\ \A a \in Keyed : himalaya[a] = "none"
    /\ env = "none" \/ pc = "secrets" => progress = 0
    /\ env = "none" => script \in {"none", "tls"} \/ (script = "env" /\ pc = "start")

\* What a command is done for, the commands before it have made.
Under ==
    /\ pc \in {"agent env", "agent password"} =>
            \A a \in Agents \ Left : agent_env[a].file # "absent"
    /\ pc = "agent password" => agent_env[agent].file = "empty"
    /\ pc \in {"himalaya", "himalaya password"} =>
            /\ \A a \in Agents : agent_env[a].file # "absent"
            /\ \A a \in Keyed \ Left : himalaya[a] = env
    /\ pc \in {"certificate", "copy", "write copy"} => ca
    /\ pc = "add" => \A u \in Users \ Left : mailbox[u] # "none"
    /\ pc \in {"apply", "buckets", "list keys", "key", "write key", "allow"} => layout # "none"
    /\ pc \in {"list keys", "key", "write key", "allow"} => buckets = Buckets
    /\ pc \in {"key", "write key", "allow"} =>
            /\ \A a \in Keyed \ Left : keys[a] # 0
            /\ \A g \in Grants : g[1] \notin Left => g \in allowed
    /\ pc \in {"write key", "allow"} => keys[agent] # 0
    /\ pc \in {"plugin", "activate", "role", "capability", "user", "list passwords", "revoke",
               "create", "write password"} => core
    /\ pc \in {"role", "capability", "user", "list passwords", "revoke", "create",
               "write password"} => plugin # "none"
    /\ pc \in {"user", "list passwords", "revoke", "create", "write password"} =>
            role = "uploads"
    /\ pc \in {"list passwords", "revoke", "create", "write password"} =>
            user = "impaginatore"
    /\ pc = "create" => misread \/ app_passwords = {}
    /\ pc = "write password" => /\ issued \in app_passwords
                                /\ misread \/ app_passwords = {issued}

\* What each script of the runbook has made is there as long as the runbook is
\* followed.
Reached ==
    /\ progress >= 2 => /\ \A a \in Agents : agent_env[a].file # "absent"
                        /\ script # "env" => \A a \in Keyed : himalaya[a] = env
                        /\ pc # "agent password"
    /\ progress >= 3 => ca /\ (script # "tls" => agents_ca)
    /\ progress >= 4 => \A u \in Users : mailbox[u] # "none"
    /\ progress >= 5 => /\ layout # "none" /\ buckets = Buckets
                        /\ \A a \in Keyed : keys[a] # 0
                        /\ script # "storage" => allowed = Grants
    /\ progress >= 6 => /\ core /\ plugin # "none" /\ role = "uploads" /\ user = "impaginatore"
                        /\ script = "none" /\ agent_env[Impaginatore].file = "full" =>
                              MayPublish /\ (misread \/ PublishingReady)

RepairInv == Excused /\ Agreed /\ Under /\ Reached

LEMMA RepairComplete ==
    ASSUME TypeOK, RepairInv
    PROVE  RunbookRepairs
<1>. SUFFICES ASSUME progress = 6, script = "none", lost = {}
              PROVE  /\ MailReady /\ StorageReady /\ WordPressReady /\ MayPublish
                     /\ ~misread => PublishingReady
  BY DEF RunbookRepairs, Runbook
<1>0. /\ progress >= 2 /\ progress >= 3 /\ progress >= 4 /\ progress >= 5 /\ progress >= 6
      /\ env # "none"
  BY DEF RepairInv, Agreed
<1>1. \A x : x \notin Excuses
  BY DEF TypeOK, Excuses, Window
<1>2. env = "random"
  BY <1>0, <1>1 DEF TypeOK, Passwords, RepairInv, Excused, Agreed
<1>3. /\ \A a \in Agents : agent_env[a].file = "full"
      /\ \A a \in Keyed : keys[a] # 0 /\ agent_env[a].s3 = keys[a]
  <2>1. \A a \in Agents : agent_env[a].file \in {"absent", "empty", "full"}
    BY DEF TypeOK
  <2>2. /\ \A a \in Agents : agent_env[a].file # "absent"
        /\ \A a \in Keyed : keys[a] # 0
    BY <1>0 DEF RepairInv, Reached
  <2>3. \A a \in Agents : agent_env[a].file # "empty"
    BY <1>0, <1>1 DEF RepairInv, Excused
  <2>4. \A a \in Keyed : keys[a] # 0 => agent_env[a].s3 = keys[a]
    BY <1>1, ProvisioningAssumption DEF RepairInv, Excused, Excuses
  <2>. QED  BY <2>1, <2>2, <2>3, <2>4
<1>4. MailReady
  BY <1>0, <1>1, <1>2, <1>3 DEF TypeOK, RepairInv, Excused, Agreed, Reached, MailReady
<1>5. StorageReady
  BY <1>0, <1>1, <1>3 DEF TypeOK, RepairInv, Excused, Reached, StorageReady
<1>6. WordPressReady /\ MayPublish /\ (misread \/ PublishingReady)
  BY <1>0, <1>1, <1>3, ProvisioningAssumption
     DEF TypeOK, RepairInv, Excused, Reached, WordPressReady
<1>. QED  BY <1>4, <1>5, <1>6

LEMMA InitRepair == Init => RepairInv
<1>. SUFFICES ASSUME Init PROVE RepairInv
  OBVIOUS
<1>1. \A a \in Agents : agent_env[a] = NoFile
  BY DEF Init
<1>2. Excused /\ Agreed
  BY <1>1, ProvisioningAssumption DEF Init, Excused, Agreed, NoFile
<1>3. Under /\ Reached
  BY DEF Init, Under, Reached
<1>. QED  BY <1>2, <1>3 DEF RepairInv

\* The end of a script reaches no more of the runbook than that script, and
\* nothing that was not reached before.
LEMMA Passed ==
    ASSUME TypeOK, Done, script # "none"
    PROVE  /\ script # "env" /\ progress' >= 2 => progress >= 2
           /\ script \notin {"env", "tls"} /\ progress' >= 3 => progress >= 3
           /\ script \in {"storage", "wordpress"} /\ progress' >= 4 => progress >= 4
           /\ script = "wordpress" /\ progress' >= 5 => progress >= 5
           /\ script = "env" /\ progress' >= 2 => progress # 0
           /\ progress' >= 3 => script # "env"
           /\ progress' >= 4 => script \notin {"env", "tls"}
           /\ progress' >= 5 => script \in {"storage", "wordpress"}
           /\ progress' >= 6 => script = "wordpress"
<1>1. script \in {"env", "tls", "mailboxes", "storage", "wordpress"}
  BY DEF TypeOK, Scripts
<1>2. CASE script = "env"
  BY <1>2, RunbookGoesOn
<1>3. CASE script = "tls"
  BY <1>3, RunbookGoesOn
<1>4. CASE script = "mailboxes"
  BY <1>4, RunbookGoesOn
<1>5. CASE script = "storage"
  BY <1>5, RunbookGoesOn
<1>6. CASE script = "wordpress"
  BY <1>6, RunbookGoesOn
<1>. QED  BY <1>1, <1>2, <1>3, <1>4, <1>5, <1>6

\* The start and the end of a loop's turn.
LEMMA EnvStartRepairs ==
    ASSUME TypeInv, TypeInv', RepairInv, EnvStart
    PROVE  RepairInv'
<1>. USE DEF files, tls, garage, wp, history
<1>1. CASE env = "none"
  <2>1. /\ env' = "template" /\ script = "env" /\ pc = "start" /\ pc' = "secrets" /\ agent' = agent
        /\ UNCHANGED <<agent_env, himalaya, tls, mailbox, garage, wp, issued, script, todo, history>>
    BY <1>1 DEF EnvStart, At, Goto
  <2>2. progress = 0
    BY <1>1 DEF RepairInv, Agreed
  <2>3. Window = {} /\ Window' = {<<"passwords", NoAgent>>}
    BY <2>1 DEF Window
  <2>4. Excused'
    BY <2>1, <2>3 DEF RepairInv, Excused, Excuses
  <2>5. Agreed'
    BY <1>1, <2>1, <2>2 DEF RepairInv, Agreed
  <2>6. Under'
    BY <2>1 DEF Under
  <2>7. Reached'
    BY <2>1, <2>2 DEF Reached
  <2>. QED  BY <2>4, <2>5, <2>6, <2>7 DEF RepairInv
<1>2. CASE env # "none"
  <2>1. /\ script = "env" /\ pc = "start" /\ Turned(Agents, "agent env")
        /\ UNCHANGED <<env, agent_env, himalaya, tls, mailbox, garage, wp, issued>>
    BY <1>2, Loops DEF EnvStart, At
  <2>2. /\ pc' = "agent env" /\ Left' = Agents
        /\ UNCHANGED <<script, progress, misread, was, lost, failures, deletes>>
    BY <2>1 DEF Turned
  <2>3. Window = {} /\ Window' = {}
    BY <2>1, <2>2 DEF Window
  <2>4. Excused'
    BY <2>1, <2>2, <2>3 DEF RepairInv, Excused, Excuses
  <2>5. Agreed'
    BY <1>2, <2>1, <2>2 DEF RepairInv, Agreed
  <2>6. Under'
    BY <2>1, <2>2 DEF Under
  <2>7. Reached'
    BY <2>1, <2>2 DEF RepairInv, Reached, MayPublish, PublishingReady
  <2>. QED  BY <2>4, <2>5, <2>6, <2>7 DEF RepairInv
<1>. QED  BY <1>1, <1>2

LEMMA EnvSecretsRepairs ==
    ASSUME TypeInv, TypeInv', RepairInv, EnvSecrets
    PROVE  RepairInv'
<1>. USE DEF files, tls, garage, wp, history
<1>1. /\ env' = "random" /\ script = "env" /\ pc = "secrets" /\ Done
      /\ UNCHANGED <<agent_env, himalaya, tls, mailbox, garage, wp, issued>>
  BY DEF EnvSecrets, At
<1>2. /\ script' = "none" /\ pc' = "none" /\ UNCHANGED <<misread, was, lost, failures, deletes>>
      /\ progress = 0 /\ progress' = 1
  BY <1>1, RunbookGoesOn DEF TypeInv, RepairInv, Agreed
<1>3. Window = {<<"passwords", NoAgent>>} /\ Window' = {}
  BY <1>1, <1>2 DEF Window
<1>4. Excused'
  BY <1>1, <1>2, <1>3 DEF RepairInv, Excused, Excuses
<1>5. Agreed'
  BY <1>1, <1>2 DEF RepairInv, Agreed
<1>6. Under'
  BY <1>2 DEF Under
<1>7. Reached'
  BY <1>2 DEF Reached
<1>. QED  BY <1>4, <1>5, <1>6, <1>7 DEF RepairInv

\* Before the second run of setup-env.sh nothing of the runbook is reached.
LEMMA EarlyReached ==
    ASSUME progress' \in 0 .. 6, ~(progress' >= 2)
    PROVE  Reached'
<1>1. /\ ~(progress' >= 3) /\ ~(progress' >= 4) /\ ~(progress' >= 5) /\ ~(progress' >= 6)
  <2>1. \A p \in 0 .. 6 : ~(p >= 2) => ~(p >= 3) /\ ~(p >= 4) /\ ~(p >= 5) /\ ~(p >= 6)
    OBVIOUS
  <2>. QED  BY <2>1
<1>. QED  BY <1>1 DEF Reached

LEMMA AgentEnvRepairs ==
    ASSUME TypeInv, TypeInv', RepairInv, AgentEnv
    PROVE  RepairInv'
<1>. USE DEF files, tls, garage, wp, history
<1>1. /\ script = "env" /\ pc = "agent env" /\ agent \in Agents /\ progress \in 0 .. 6
      /\ UNCHANGED <<env, himalaya, tls, mailbox, garage, wp, issued>>
      /\ agent_env \in [Agents -> EnvFile] /\ env # "none"
  BY TypeParts DEF AgentEnv, At, TypeInv, Turns, RunTypes, FileTypes, RepairInv, Agreed
<1>2. CASE agent_env[agent].file # "absent"
  <2>1. /\ UNCHANGED agent_env
        /\ \/ Turned(todo, "agent env")
           \/ Turned(Keyed, "himalaya") /\ todo = {}
    BY <1>2, Loops DEF AgentEnv
  <2>2. /\ UNCHANGED <<script, progress, misread, was, lost, failures, deletes>>
        /\ \/ pc' = "agent env" /\ Left' = todo
           \/ pc' = "himalaya" /\ Left' = Keyed /\ todo = {}
    BY <2>1 DEF Turned
  <2>3. Window = {} /\ Window' = {}
    BY <1>1, <2>2 DEF Window
  <2>4. Excused'
    BY <1>1, <2>1, <2>2, <2>3 DEF RepairInv, Excused, Excuses
  <2>5. Agreed'
    BY <1>1, <2>1, <2>2 DEF RepairInv, Agreed
  <2>6. Under'
    BY <1>1, <1>2, <2>1, <2>2, ProvisioningAssumption DEF RepairInv, Under, Left
  <2>7. Reached'
    BY <1>1, <2>1, <2>2 DEF RepairInv, Reached, MayPublish, PublishingReady
  <2>. QED  BY <2>4, <2>5, <2>6, <2>7 DEF RepairInv
<1>3. CASE agent_env[agent].file = "absent"
  <2>1. /\ agent_env' = [agent_env EXCEPT ![agent].file = "empty"]
        /\ pc' = "agent password" /\ UNCHANGED <<script, agent, todo, history>> /\ Left' = Left
    BY <1>3 DEF AgentEnv, Goto, Left
  <2>2. /\ agent_env'[agent].file = "empty"
        /\ \A a \in Agents : /\ a # agent => agent_env'[a].file = agent_env[a].file
                             /\ agent_env'[a].password = agent_env[a].password
                             /\ agent_env'[a].s3 = agent_env[a].s3
    BY <1>1, <2>1 DEF EnvFile
  <2>3. ~(progress >= 2)
    BY <1>1, <1>3 DEF RepairInv, Reached
  <2>4. Window = {} /\ Window' = {<<"agent env", agent>>}
    BY <1>1, <2>1 DEF Window
  <2>5. Excused'
    BY <1>1, <2>1, <2>2, <2>4, ProvisioningAssumption DEF RepairInv, Excused, Excuses
  <2>6. Agreed'
    BY <1>1, <2>1, <2>2 DEF RepairInv, Agreed
  <2>7. Under'
    BY <1>1, <2>1, <2>2 DEF RepairInv, Under
  <2>8. Reached'
    BY <1>1, <2>1, <2>3, EarlyReached
  <2>. QED  BY <2>5, <2>6, <2>7, <2>8 DEF RepairInv
<1>. QED  BY <1>2, <1>3

LEMMA AgentPasswordRepairs ==
    ASSUME TypeInv, TypeInv', RepairInv, AgentPassword
    PROVE  RepairInv'
<1>. USE DEF files, tls, garage, wp, history
<1>1. /\ script = "env" /\ pc = "agent password" /\ agent \in Agents /\ progress \in 0 .. 6
      /\ UNCHANGED <<env, himalaya, tls, mailbox, garage, wp, issued>>
      /\ agent_env \in [Agents -> EnvFile] /\ env # "none"
      /\ agent_env' = [agent_env EXCEPT ![agent].file = "full", ![agent].password = env]
  BY TypeParts DEF AgentPassword, At, TypeInv, Turns, RunTypes, FileTypes, RepairInv, Agreed
<1>2. /\ agent_env'[agent].file = "full" /\ agent_env'[agent].password = env
      /\ \A a \in Agents : /\ a # agent => agent_env'[a].file = agent_env[a].file
                           /\ a # agent => agent_env'[a].password = agent_env[a].password
                           /\ agent_env'[a].s3 = agent_env[a].s3
  BY <1>1 DEF EnvFile
<1>3. /\ UNCHANGED <<script, progress, misread, was, lost, failures, deletes>>
      /\ \/ pc' = "agent env" /\ Left' = todo
         \/ pc' = "himalaya" /\ Left' = Keyed /\ todo = {}
  BY Loops DEF AgentPassword, Turned
<1>4. ~(progress >= 2)
  BY <1>1 DEF RepairInv, Reached
<1>5. Window = {<<"agent env", agent>>} /\ Window' = {}
  BY <1>1, <1>3 DEF Window
<1>6. Excused'
  BY <1>1, <1>2, <1>3, <1>5, ProvisioningAssumption DEF RepairInv, Excused, Excuses
<1>7. Agreed'
  BY <1>1, <1>2, <1>3 DEF RepairInv, Agreed
<1>8. Under'
  BY <1>1, <1>2, <1>3, ProvisioningAssumption DEF RepairInv, Under, Left
<1>9. Reached'
  BY <1>1, <1>3, <1>4, EarlyReached
<1>. QED  BY <1>6, <1>7, <1>8, <1>9 DEF RepairInv

LEMMA TruncateRepairs ==
    ASSUME TypeInv, TypeInv', RepairInv, TruncateHimalaya
    PROVE  RepairInv'
<1>. USE DEF files, tls, garage, wp, history
<1>1. /\ script = "env" /\ pc = "himalaya" /\ pc' = "himalaya password" /\ agent \in Keyed
      /\ UNCHANGED <<env, agent_env, tls, mailbox, garage, wp, issued>>
      /\ UNCHANGED <<script, agent, todo, history>> /\ Left' = Left /\ agent \in Left
      /\ himalaya \in [Keyed -> Passwords] /\ env # "none"
      /\ himalaya' = [himalaya EXCEPT ![agent] = "none"]
  BY TypeParts DEF TruncateHimalaya, At, Goto, TypeInv, Turns, FileTypes, RepairInv, Agreed, Left
<1>2. \A a \in Keyed : himalaya'[a] = IF a = agent THEN "none" ELSE himalaya[a]
  BY <1>1
<1>3. Window = {} /\ Window' = {}
  BY <1>1 DEF Window
<1>4. Excused'
  BY <1>1, <1>3 DEF RepairInv, Excused, Excuses
<1>5. Agreed'
  BY <1>1, <1>2 DEF RepairInv, Agreed
<1>6. Under'
  BY <1>1, <1>2 DEF RepairInv, Under
<1>7. Reached'
  BY <1>1 DEF RepairInv, Reached
<1>. QED  BY <1>4, <1>5, <1>6, <1>7 DEF RepairInv

LEMMA HimalayaRepairs ==
    ASSUME TypeInv, TypeInv', RepairInv, HimalayaPassword
    PROVE  RepairInv'
<1>. USE DEF files, tls, garage, wp, history
<1>1. /\ script = "env" /\ pc = "himalaya password" /\ agent \in Keyed
      /\ UNCHANGED <<env, agent_env, tls, mailbox, garage, wp, issued>>
      /\ himalaya \in [Keyed -> Passwords] /\ env # "none"
      /\ himalaya' = [himalaya EXCEPT ![agent] = env]
  BY TypeParts DEF HimalayaPassword, At, TypeInv, Turns, FileTypes, RepairInv, Agreed
<1>2. \A a \in Keyed : himalaya'[a] = IF a = agent THEN env ELSE himalaya[a]
  BY <1>1
<1>3. Turned(todo, "himalaya") \/ (Done /\ todo = {})
  BY Loops DEF HimalayaPassword
<1>4. CASE Turned(todo, "himalaya")
  <2>1. UNCHANGED <<script, progress, misread, was, lost, failures, deletes>> /\ pc' = "himalaya" /\ Left' = todo
    BY <1>4 DEF Turned
  <2>2. Window = {} /\ Window' = {}
    BY <1>1, <2>1 DEF Window
  <2>3. Excused'
    BY <1>1, <2>1, <2>2 DEF RepairInv, Excused, Excuses
  <2>4. Agreed'
    BY <1>1, <1>2, <2>1 DEF RepairInv, Agreed
  <2>5. Under'
    BY <1>1, <1>2, <2>1 DEF RepairInv, Under, Left
  <2>6. Reached'
    BY <1>1, <1>2, <2>1 DEF RepairInv, Reached, MayPublish, PublishingReady
  <2>. QED  BY <2>3, <2>4, <2>5, <2>6 DEF RepairInv
<1>5. CASE Done /\ todo = {}
  <2>1. /\ script' = "none" /\ pc' = "none" /\ UNCHANGED <<misread, was, lost, failures, deletes>>
    BY <1>1, <1>5, RunbookGoesOn DEF TypeInv
  <2>2. Window = {} /\ Window' = {}
    BY <1>1, <2>1 DEF Window
  <2>3. Excused'
    BY <1>1, <2>1, <2>2 DEF RepairInv, Excused, Excuses
  <2>4. Agreed'
    BY <1>1, <1>2, <2>1 DEF RepairInv, Agreed
  <2>5. Under'
    BY <2>1 DEF Under
  <2>6. /\ ~(progress' >= 3) /\ ~(progress' >= 4) /\ ~(progress' >= 5) /\ ~(progress' >= 6)
    BY <1>1, <1>5, Passed DEF TypeInv
  <2>7. \A a \in Agents : agent_env'[a].file # "absent"
    BY <1>1 DEF RepairInv, Under
  <2>8. \A a \in Keyed : himalaya'[a] = env'
    BY <1>1, <1>2, <1>5 DEF RepairInv, Under, Left
  <2>9. Reached'
    BY <2>1, <2>6, <2>7, <2>8 DEF Reached
  <2>. QED  BY <2>3, <2>4, <2>5, <2>9 DEF RepairInv
<1>. QED  BY <1>3, <1>4, <1>5

LEMMA SetupEnvRepairs ==
    ASSUME TypeInv, TypeInv', RepairInv, SetupEnv
    PROVE  RepairInv'
BY EnvStartRepairs, EnvSecretsRepairs, AgentEnvRepairs, AgentPasswordRepairs, TruncateRepairs,
   HimalayaRepairs
   DEF SetupEnv

\* setup-tls.sh touches nothing but its own files.
LEMMA SetupTlsRepairs ==
    ASSUME TypeInv, TypeInv', RepairInv, SetupTls
    PROVE  RepairInv'
<1>. USE DEF files, tls, garage, wp, history
<1>1. /\ script = "tls" /\ UNCHANGED <<files, mailbox, garage, wp, issued, misread, was, lost, failures, deletes>>
      /\ ca \in BOOLEAN /\ mail_crt \in BOOLEAN
  BY TypeParts
     DEF SetupTls, Authority, Certificate, TruncateCopy, CopyAuthority, At, Goto, Done, TypeInv, TlsTypes
<1>2. \/ /\ pc = "start" /\ ca' = TRUE /\ pc' = (IF ca THEN "copy" ELSE "certificate")
         /\ UNCHANGED <<mail_crt, agents_ca, script, agent, todo, progress>>
      \/ /\ pc = "certificate" /\ mail_crt' = TRUE /\ pc' = "copy"
         /\ UNCHANGED <<ca, agents_ca, script, agent, todo, progress>>
      \/ /\ pc = "copy" /\ agents_ca' = FALSE /\ pc' = "write copy"
         /\ UNCHANGED <<ca, mail_crt, script, agent, todo, progress>>
      \/ pc = "write copy" /\ agents_ca' = TRUE /\ Done /\ UNCHANGED <<ca, mail_crt>>
  BY DEF SetupTls, Authority, Certificate, TruncateCopy, CopyAuthority, At, Goto
<1>3. CASE Done /\ pc = "write copy"
  <2>1. script' = "none" /\ pc' = "none" /\ agents_ca' = TRUE /\ UNCHANGED <<ca, mail_crt>>
    BY <1>1, <1>2, <1>3, RunbookGoesOn DEF TypeInv
  <2>2. ca
    BY <1>3 DEF RepairInv, Under
  <2>3. Window = {} /\ Window' = {}
    BY <1>3, <2>1 DEF Window
  <2>4. Excused'
    BY <1>1, <2>1, <2>3 DEF RepairInv, Excused, Excuses
  <2>5. Agreed'
    <3>1. env = "none" => progress' = 0
      <4>1. progress' = (IF progress = 2 THEN 3 ELSE 0)
        BY <1>1, <1>3, RunbookGoesOn DEF TypeInv
      <4>2. env = "none" => progress = 0
        BY DEF RepairInv, Agreed
      <4>. QED  BY <4>1, <4>2
    <3>. QED  BY <1>1, <2>1, <3>1 DEF RepairInv, Agreed
  <2>6. Under'
    BY <2>1 DEF Under
  <2>7. /\ progress' >= 2 => progress >= 2
        /\ ~(progress' >= 4) /\ ~(progress' >= 5) /\ ~(progress' >= 6)
    BY <1>1, <1>3, Passed DEF TypeInv
  <2>8. Reached'
    BY <1>1, <2>1, <2>2, <2>7 DEF RepairInv, Reached
  <2>. QED  BY <2>4, <2>5, <2>6, <2>8 DEF RepairInv
<1>4. CASE ~(Done /\ pc = "write copy")
  <2>1. /\ ca' /\ pc' \in {"certificate", "copy", "write copy"}
        /\ mail_crt => mail_crt'
        /\ pc' # "certificate" /\ ~mail_crt' => ca /\ pc \in {"start", "copy"} /\ ~mail_crt
        /\ UNCHANGED <<script, agent, todo, progress>>
    <3>1. pc \in {"certificate", "copy"} => ca
      BY DEF RepairInv, Under
    <3>2. CASE pc = "start"
      BY <1>1, <1>2, <3>2
    <3>3. CASE pc = "certificate"
      BY <1>1, <1>2, <3>1, <3>3
    <3>4. CASE pc = "copy"
      BY <1>1, <1>2, <3>1, <3>4
    <3>. QED  BY <1>2, <1>4, <3>2, <3>3, <3>4
  <2>2. /\ pc \in {"start", "copy"} => Window = {}
        /\ pc' = "certificate" => Window' = {<<"certificate", NoAgent>>}
        /\ pc' \in {"copy", "write copy"} => Window' = {}
        /\ pc = "certificate" => Window = {<<"certificate", NoAgent>>}
    BY DEF Window
  <2>3. Excused'
    BY <1>1, <1>2, <1>4, <2>1, <2>2 DEF RepairInv, Excused, Excuses
  <2>4. Agreed'
    BY <1>1, <2>1 DEF RepairInv, Agreed
  <2>5. Under'
    BY <2>1 DEF Under
  <2>6. Reached'
    BY <1>1, <2>1 DEF RepairInv, Reached, MayPublish, PublishingReady
  <2>. QED  BY <2>3, <2>4, <2>5, <2>6 DEF RepairInv
<1>. QED  BY <1>3, <1>4

\* setup-mailboxes.sh creates what is missing and changes nothing.
LEMMA SetupMailboxesRepairs ==
    ASSUME TypeInv, TypeInv', RepairInv, SetupMailboxes
    PROVE  RepairInv'
<1>. USE DEF files, tls, garage, wp, history
<1>1. /\ script = "mailboxes"
      /\ UNCHANGED <<files, tls, garage, wp, issued, misread, was, lost, failures, deletes>>
      /\ mailbox \in [Users -> Passwords] /\ env # "none"
      /\ pc \in {"start", "add"}
  BY TypeParts DEF SetupMailboxes, ListMailboxes, AddMailbox, At, Done, NextTurn, disk, TypeInv,
                   MailboxTypes, RepairInv, Agreed
<1>2. /\ \A u \in Users : mailbox'[u] \in {mailbox[u], env} /\ (mailbox[u] # "none" => mailbox'[u] # "none")
      /\ \/ Turned({u \in Users : mailbox'[u] = "none"} , "add")
         \/ Turned(todo, "add") /\ pc = "add" /\ \A u \in Users \ todo : mailbox'[u] # "none"
         \/ Done /\ \A u \in Users : mailbox'[u] # "none"
  <2>1. CASE ListMailboxes
    <3>1. PICK missing : /\ missing = {u \in Users : mailbox[u] = "none"}
                         /\ IF missing = {} THEN Done ELSE NextTurn(missing, "add", "none")
      BY <2>1 DEF ListMailboxes
    <3>2. mailbox' = mailbox
      BY <2>1 DEF ListMailboxes, disk
    <3>. QED  BY <3>1, <3>2, LoopGoesOn
  <2>2. CASE AddMailbox
    <3>1. /\ pc = "add" /\ agent \in Users /\ mailbox' = [mailbox EXCEPT ![agent] = env]
          /\ Turned(todo, "add") \/ (Done /\ todo = {})
      BY <2>2, Loops DEF AddMailbox, At, TypeInv, Turns
    <3>2. \A u \in Users : mailbox'[u] = IF u = agent THEN env ELSE mailbox[u]
      BY <1>1, <3>1
    <3>3. \A u \in Users \ todo : mailbox'[u] # "none"
      BY <1>1, <3>1, <3>2 DEF RepairInv, Under, Left
    <3>. QED  BY <1>1, <3>1, <3>2, <3>3
  <2>. QED  BY <2>1, <2>2 DEF SetupMailboxes
<1>3. CASE Done /\ \A u \in Users : mailbox'[u] # "none"
  <2>1. script' = "none" /\ pc' = "none"
    BY <1>1, <1>3, RunbookGoesOn DEF TypeInv
  <2>2. Window = {} /\ Window' = {}
    BY <1>1, <2>1 DEF Window
  <2>3. Excused'
    BY <1>1, <2>2 DEF RepairInv, Excused, Excuses
  <2>4. Agreed'
    BY <1>1, <1>2, <2>1 DEF RepairInv, Agreed
  <2>5. Under'
    BY <2>1 DEF Under
  <2>6. /\ progress' >= 2 => progress >= 2
        /\ progress' >= 3 => progress >= 3
        /\ ~(progress' >= 5) /\ ~(progress' >= 6)
    BY <1>1, <1>3, Passed DEF TypeInv
  <2>7. Reached'
    BY <1>1, <1>3, <2>1, <2>6 DEF RepairInv, Reached
  <2>. QED  BY <2>3, <2>4, <2>5, <2>7 DEF RepairInv
<1>4. CASE ~(Done /\ \A u \in Users : mailbox'[u] # "none")
  <2>1. /\ pc' = "add" /\ script' = script /\ progress' = progress
        /\ \A u \in Users : u \in Left' \/ mailbox'[u] # "none"
    BY <1>2, <1>4 DEF Turned
  <2>2. Window = {} /\ Window' = {}
    BY <1>1, <2>1 DEF Window
  <2>3. Excused'
    BY <1>1, <2>2 DEF RepairInv, Excused, Excuses
  <2>4. Agreed'
    BY <1>1, <1>2, <2>1 DEF RepairInv, Agreed
  <2>5. Under'
    BY <2>1 DEF Under
  <2>6. Reached'
    BY <1>1, <1>2, <2>1 DEF RepairInv, Reached, MayPublish, PublishingReady
  <2>. QED  BY <2>3, <2>4, <2>5, <2>6 DEF RepairInv
<1>. QED  BY <1>3, <1>4

\* setup-storage.sh: the layout and the buckets.
LEMMA LayoutRepairs ==
    ASSUME TypeInv, TypeInv', RepairInv, AssignLayout \/ ApplyLayout \/ CreateBucket \/ ListKeys
    PROVE  RepairInv'
<1>. USE DEF disk, files, tls, garage, wp, history, process
<1>1. /\ script = "storage" /\ env # "none"
      /\ UNCHANGED <<files, tls, mailbox, keys, allowed, wp, issued, misread, was, lost, failures, deletes>>
      /\ layout \in {"none", "staged", "applied"} /\ buckets \subseteq Buckets
      /\ buckets' \subseteq Buckets
      /\ pc \in {"start", "apply", "buckets", "list keys"}
  BY TypeParts
     DEF AssignLayout, ApplyLayout, CreateBucket, ListKeys, At, Goto, NextTurn, Fails, TypeInv,
         GarageTypes, RepairInv, Agreed
<1>2. /\ layout' # "none" /\ layout' = "staged" => layout = "staged" \/ pc' = "apply"
      /\ layout # "none" => layout' # "none"
      /\ pc = "apply" => layout' = "applied"
      /\ buckets \subseteq buckets'
      /\ \/ pc' \in {"apply", "buckets"} /\ UNCHANGED <<script, agent, progress>>
         \/ pc' = "list keys" /\ buckets' = Buckets /\ UNCHANGED <<script, agent, progress>>
         \/ /\ pc' = "key" /\ Left' = Keyed /\ buckets' = Buckets
            /\ UNCHANGED <<script, progress>>
         \/ script' = "none" /\ pc' = "none" /\ progress' = 0
  <2>1. CASE AssignLayout
    BY <1>1, <2>1 DEF AssignLayout, At, Goto
  <2>2. CASE ApplyLayout
    BY <1>1, <2>2 DEF ApplyLayout, At, Goto
  <2>3. CASE CreateBucket
    BY <1>1, <2>3 DEF CreateBucket, At, Goto, Fails, Ends
  <2>4. CASE ListKeys
    BY <1>1, <2>4, Loops DEF ListKeys, At, Turned, RepairInv, Under
  <2>. QED  BY <2>1, <2>2, <2>3, <2>4
<1>3. layout' # "none"
  BY <1>1, <1>2 DEF AssignLayout, ApplyLayout, CreateBucket, ListKeys, At, RepairInv, Under
<1>4. /\ Window = (IF pc = "apply" THEN {<<"layout", NoAgent>>} ELSE {})
      /\ Window' = (IF pc' = "apply" THEN {<<"layout", NoAgent>>} ELSE {})
  BY <1>1, <1>2 DEF Window
<1>5. Excused'
  BY <1>1, <1>2, <1>4 DEF RepairInv, Excused, Excuses
<1>6. Agreed'
  BY <1>1, <1>2 DEF RepairInv, Agreed
<1>7. Under'
  <2>1. \A g \in Grants : g[1] \in Keyed
    BY ProvisioningAssumption
  <2>. QED  BY <1>1, <1>2, <1>3, <2>1 DEF Under
<1>8. Reached'
  <2>1. (script' = "storage" /\ progress' = progress) \/ progress' = 0
    BY <1>1, <1>2
  <2>2. CASE progress' = 0
    BY <2>2, EarlyReached
  <2>3. CASE script' = "storage" /\ progress' = progress
    <3>1. pc' # "agent password" /\ buckets' \subseteq Buckets /\ buckets \subseteq buckets'
      BY <1>1, <1>2, <2>3
    <3>. QED  BY <1>1, <1>3, <2>3, <3>1 DEF RepairInv, Reached
  <2>. QED  BY <2>1, <2>2, <2>3
<1>. QED  BY <1>5, <1>6, <1>7, <1>8 DEF RepairInv

\* A key is created where none was seen, and written at once.
LEMMA CreateKeyRepairs ==
    ASSUME TypeInv, TypeInv', RepairInv, CreateKey
    PROVE  RepairInv'
<1>. USE DEF files, tls, garage, wp, history
<1>0. /\ agent \in Keyed /\ keys \in [Keyed -> Secrets] /\ issued \in Nat /\ env # "none"
  <2>1. agent \in Keyed
    BY DEF CreateKey, At, TypeInv, Turns
  <2>2. keys \in [Keyed -> Secrets] /\ issued \in Secrets
    BY TypeParts DEF TypeInv, GarageTypes, HistoryTypes
  <2>3. env # "none"
    BY DEF CreateKey, At, RepairInv, Agreed
  <2>. QED  BY <2>1, <2>2, <2>3, ProvisioningAssumption DEF Secrets
<1>1. /\ script = "storage" /\ pc = "key" /\ agent \in Keyed /\ env # "none"
      /\ UNCHANGED <<files, tls, mailbox, layout, buckets, wp>>
      /\ UNCHANGED <<script, agent, todo, history>> /\ Left' = Left
      /\ agent \in Left
  BY <1>0 DEF CreateKey, At, Goto, Left
<1>2. \/ pc' = "write key" /\ keys' = [keys EXCEPT ![agent] = issued + 1]
      \/ keys[agent] # 0 /\ pc' = "allow" /\ UNCHANGED keys
  BY DEF CreateKey, Goto
<1>9. \A g \in allowed : g[1] # agent => g \in allowed'
  BY DEF CreateKey
<1>3. /\ keys'[agent] # 0
      /\ \A a \in Keyed : a # agent => keys'[a] = keys[a]
      /\ pc' = "allow" => keys' = keys
  <2>1. PICK secret : secret = issued + 1
    OBVIOUS
  <2>2. secret # 0
    BY <1>0, <2>1
  <2>3. \/ pc' = "write key" /\ keys' = [keys EXCEPT ![agent] = secret]
        \/ keys[agent] # 0 /\ UNCHANGED keys
    BY <1>2, <2>1
  <2>4. pc' = "allow" => UNCHANGED keys
    BY <1>2
  <2>5. /\ keys'[agent] = secret \/ keys'[agent] # 0
        /\ \A a \in Keyed : a # agent => keys'[a] = keys[a]
    BY <1>0, <2>3
  <2>. QED  BY <2>2, <2>4, <2>5
<1>4. Window = {} /\ Window' = (IF pc' = "write key" THEN {<<"secret", agent>>} ELSE {})
  BY <1>1, <1>2 DEF Window
<1>5. Excused'
  BY <1>1, <1>2, <1>3, <1>4 DEF RepairInv, Excused, Excuses
<1>6. Agreed'
  BY <1>1, <1>2 DEF RepairInv, Agreed
<1>7. Under'
  BY <1>1, <1>2, <1>3, <1>9 DEF RepairInv, Under
<1>8. Reached'
  BY <1>1, <1>2, <1>3 DEF RepairInv, Reached, MayPublish, PublishingReady
<1>. QED  BY <1>5, <1>6, <1>7, <1>8 DEF RepairInv

LEMMA WriteKeyRepairs ==
    ASSUME TypeInv, TypeInv', RepairInv, WriteKey
    PROVE  RepairInv'
<1>. USE DEF files, tls, garage, wp, history
<1>1. /\ script = "storage" /\ pc = "write key" /\ pc' = "allow" /\ agent \in Keyed
      /\ env # "none" /\ UNCHANGED <<env, himalaya, tls, mailbox, garage, wp, issued>>
      /\ UNCHANGED <<script, agent, todo, progress>> /\ Left' = Left
      /\ agent_env \in [Agents -> EnvFile]
      /\ agent_env' = [agent_env EXCEPT ![agent].s3 =
                          IF agent_env[agent].file = "full" THEN keys[agent] ELSE @]
      /\ lost' = lost \cup (IF agent_env[agent].file = "absent" THEN {<<"secret", agent>>} ELSE {})
  BY TypeParts DEF WriteKey, At, TypeInv, Turns, FileTypes, RepairInv, Agreed, Left
<1>2. /\ agent \in Agents
      /\ agent_env[agent].file = "full" => agent_env'[agent].s3 = keys[agent]
      /\ \A a \in Agents : /\ agent_env'[a].file = agent_env[a].file
                           /\ agent_env'[a].password = agent_env[a].password
                           /\ agent_env'[a].wp = agent_env[a].wp
                           /\ a # agent => agent_env'[a].s3 = agent_env[a].s3
                           /\ agent_env[a].file \in {"absent", "empty", "full"}
  BY <1>1, ProvisioningAssumption DEF EnvFile
<1>3. Window = {<<"secret", agent>>} /\ Window' = {}
  BY <1>1 DEF Window
<1>4. agent_env[agent].file = "empty" => <<"agent env", agent>> \in lost
  BY <1>2, <1>3 DEF RepairInv, Excused, Excuses
<1>5. Excused'
  <2>1. \A x : x \in Excuses => x \in Excuses' \/ x = <<"secret", agent>>
    BY <1>1, <1>3 DEF Excuses
  <2>2. ASSUME NEW a \in Keyed, keys'[a] # 0, agent_env'[a].s3 # keys'[a]
        PROVE  <<"agent env", a>> \in lost' \/ <<"secret", a>> \in Excuses'
    <3>1. CASE a = agent
      BY <1>1, <1>2, <1>4, <2>2, <3>1 DEF Excuses
    <3>2. CASE a # agent
      BY <1>1, <1>2, <2>1, <2>2, <3>2, ProvisioningAssumption DEF RepairInv, Excused
    <3>. QED  BY <3>1, <3>2
  <2>. QED  BY <1>1, <1>2, <2>1, <2>2 DEF RepairInv, Excused
<1>6. Agreed'
  BY <1>1, <1>2 DEF RepairInv, Agreed
<1>7. Under'
  BY <1>1, <1>2 DEF RepairInv, Under
<1>8. Reached'
  BY <1>1, <1>2, ProvisioningAssumption DEF RepairInv, Reached, MayPublish, PublishingReady
<1>. QED  BY <1>5, <1>6, <1>7, <1>8 DEF RepairInv

\* Every key is given its grants, one it already had too.
LEMMA AllowRepairs ==
    ASSUME TypeInv, TypeInv', RepairInv, Allow
    PROVE  RepairInv'
<1>. USE DEF files, tls, garage, wp, history, process
<1>1. /\ script = "storage" /\ pc = "allow" /\ agent \in Keyed /\ env # "none"
      /\ UNCHANGED <<files, tls, mailbox, layout, buckets, keys, wp, issued>>
      /\ allowed \subseteq Grants /\ allowed \subseteq allowed' /\ allowed' \subseteq Grants
  <2>1. script = "storage" /\ pc = "allow" /\ agent \in Keyed /\ env # "none"
    BY DEF Allow, At, TypeInv, Turns, RepairInv, Agreed
  <2>2. allowed \subseteq Grants /\ allowed' \subseteq Grants
    BY TypeParts, TypePartsNext DEF TypeInv, GarageTypes
  <2>. QED  BY <2>1, <2>2 DEF Allow
<1>2. \/ UNCHANGED <<process, history>> /\ Left' = Left
      \/ Fails
      \/ /\ \A g \in Grants : g[1] = agent => g \in allowed
         /\ allowed' = allowed
         /\ Turned(todo, "key") \/ (Done /\ todo = {})
  BY Loops DEF Allow, Missing, Left
<1>3. CASE UNCHANGED <<process, history>> /\ Left' = Left
  <2>1. Window = {} /\ Window' = {}
    BY <1>1, <1>3 DEF Window
  <2>2. Excused'
    BY <1>1, <1>3, <2>1 DEF RepairInv, Excused, Excuses
  <2>3. Agreed'
    BY <1>1, <1>3 DEF RepairInv, Agreed
  <2>4. Under'
    BY <1>1, <1>3 DEF RepairInv, Under
  <2>5. Reached'
    BY <1>1, <1>3 DEF RepairInv, Reached, MayPublish, PublishingReady
  <2>. QED  BY <2>2, <2>3, <2>4, <2>5 DEF RepairInv
<1>4. ASSUME \A g \in Grants : g[1] = agent => g \in allowed, allowed' = allowed
      PROVE  /\ buckets = Buckets /\ layout # "none"
             /\ \A a \in Keyed \ todo : keys[a] # 0
             /\ \A g \in Grants : g[1] \notin todo => g \in allowed
  BY <1>1, <1>4 DEF RepairInv, Under, Left
<1>5. CASE /\ \A g \in Grants : g[1] = agent => g \in allowed
           /\ allowed' = allowed /\ Turned(todo, "key")
  <2>1. /\ pc' = "key" /\ Left' = todo
        /\ UNCHANGED <<script, progress, misread, was, lost, failures, deletes>>
    BY <1>5 DEF Turned
  <2>2. Window = {} /\ Window' = {}
    BY <1>1, <2>1 DEF Window
  <2>3. Excused'
    BY <1>1, <2>1, <2>2 DEF RepairInv, Excused, Excuses
  <2>4. Agreed'
    BY <1>1, <2>1 DEF RepairInv, Agreed
  <2>5. Under'
    BY <1>1, <1>4, <1>5, <2>1 DEF Under
  <2>6. Reached'
    BY <1>1, <1>5, <2>1 DEF RepairInv, Reached, MayPublish, PublishingReady
  <2>. QED  BY <2>3, <2>4, <2>5, <2>6 DEF RepairInv
<1>6. CASE /\ \A g \in Grants : g[1] = agent => g \in allowed
           /\ allowed' = allowed /\ Done /\ todo = {}
  <2>1. script' = "none" /\ pc' = "none" /\ UNCHANGED <<misread, was, lost, failures, deletes>>
    BY <1>1, <1>6, RunbookGoesOn DEF TypeInv
  <2>2. Window = {} /\ Window' = {}
    BY <1>1, <2>1 DEF Window
  <2>3. Excused'
    BY <1>1, <2>1, <2>2 DEF RepairInv, Excused, Excuses
  <2>4. Agreed'
    BY <1>1, <2>1 DEF RepairInv, Agreed
  <2>5. Under'
    BY <2>1 DEF Under
  <2>6. /\ progress' >= 2 => progress >= 2
        /\ progress' >= 3 => progress >= 3
        /\ progress' >= 4 => progress >= 4
        /\ ~(progress' >= 6)
    BY <1>1, <1>6, Passed DEF TypeInv
  <2>7. allowed' = Grants /\ \A a \in Keyed : keys[a] # 0
    BY <1>1, <1>4, <1>6
  <2>8. Reached'
    BY <1>1, <1>4, <1>6, <2>1, <2>6, <2>7 DEF RepairInv, Reached
  <2>. QED  BY <2>3, <2>4, <2>5, <2>8 DEF RepairInv
<1>7. CASE Fails
  <2>1. /\ script' = "none" /\ pc' = "none" /\ progress' = 0
        /\ UNCHANGED <<misread, was, lost, failures, deletes>>
    BY <1>7 DEF Fails, Ends
  <2>2. Window = {} /\ Window' = {}
    BY <1>1, <2>1 DEF Window
  <2>3. Excused'
    BY <1>1, <2>1, <2>2 DEF RepairInv, Excused, Excuses
  <2>4. Agreed'
    BY <1>1, <2>1 DEF RepairInv, Agreed
  <2>5. Under'
    BY <2>1 DEF Under
  <2>6. Reached'
    BY <2>1, EarlyReached
  <2>. QED  BY <2>3, <2>4, <2>5, <2>6 DEF RepairInv
<1>. QED  BY <1>2, <1>3, <1>5, <1>6, <1>7

LEMMA SetupStorageRepairs ==
    ASSUME TypeInv, TypeInv', RepairInv, SetupStorage
    PROVE  RepairInv'
BY LayoutRepairs, CreateKeyRepairs, WriteKeyRepairs, AllowRepairs DEF SetupStorage

\* setup-wordpress.sh up to the passwords.
LEMMA SiteRepairs ==
    ASSUME TypeInv, TypeInv', RepairInv,
           InstallCore \/ InstallPlugin \/ ActivatePlugin \/ CreateRole \/ AddCapability \/ CreateUser
    PROVE  RepairInv'
<1>. USE DEF files, tls, garage, wp, history
<1>1. /\ script = "wordpress" /\ env # "none"
      /\ UNCHANGED <<files, tls, mailbox, garage, app_passwords, issued, script, agent, todo, history>>
      /\ pc \in {"start", "plugin", "activate", "role", "capability", "user"}
  BY DEF InstallCore, InstallPlugin, ActivatePlugin, CreateRole, AddCapability, CreateUser, At, Goto,
         RepairInv, Agreed
<1>2. /\ core'
      /\ plugin # "none" => plugin' # "none"
      /\ plugin' = "installed" => plugin = "installed" \/ pc' = "activate"
      /\ pc = "activate" => plugin' = "active"
      /\ role = "uploads" => role' = "uploads"
      /\ user = "impaginatore" => user' = "impaginatore"
      /\ \/ pc' = "plugin"
         \/ pc' = "activate" /\ plugin' = "installed"
         \/ pc' \in {"role", "capability"} /\ plugin' # "none"
         \/ pc' = "user" /\ plugin' # "none" /\ role' = "uploads"
         \/ /\ pc' = "list passwords" /\ plugin' # "none" /\ role' = "uploads"
            /\ user' = "impaginatore"
  <2>1. CASE InstallCore
    BY <2>1 DEF InstallCore, At, Goto
  <2>2. CASE InstallPlugin \/ ActivatePlugin
    BY <2>2 DEF InstallPlugin, ActivatePlugin, At, Goto, RepairInv, Under
  <2>3. CASE CreateRole \/ AddCapability \/ CreateUser
    BY <2>3 DEF CreateRole, AddCapability, CreateUser, At, Goto, RepairInv, Under
  <2>. QED  BY <2>1, <2>2, <2>3
<1>3. /\ Window = (IF pc = "activate" THEN {<<"plugin", NoAgent>>} ELSE {})
      /\ Window' = (IF pc' = "activate" THEN {<<"plugin", NoAgent>>} ELSE {})
  BY <1>1, <1>2 DEF Window
<1>4. Excused'
  BY <1>1, <1>2, <1>3 DEF RepairInv, Excused, Excuses
<1>5. Agreed'
  BY <1>1, <1>2 DEF RepairInv, Agreed
<1>6. Under'
  BY <1>1, <1>2 DEF Under
<1>7. Reached'
  BY <1>1, <1>2 DEF RepairInv, Reached
<1>. QED  BY <1>4, <1>5, <1>6, <1>7 DEF RepairInv

\* The old passwords go, and a new one comes.
LEMMA RenewRepairs ==
    ASSUME TypeInv, TypeInv', RepairInv, ListPasswords \/ RevokePassword \/ CreatePassword
    PROVE  RepairInv'
<1>. USE DEF disk, files, tls, garage, wp, history, process
<1>1. /\ script = "wordpress" /\ env # "none" /\ pc \in {"list passwords", "revoke", "create"}
      /\ UNCHANGED <<files, tls, mailbox, garage, core, plugin, role, user>>
      /\ UNCHANGED <<script, agent, todo, history>>
      /\ core /\ plugin # "none" /\ role = "uploads" /\ user = "impaginatore"
  BY DEF ListPasswords, RevokePassword, CreatePassword, At, Goto, RepairInv, Agreed, Under
<1>2. \/ pc' = "revoke"
      \/ pc' = "create" /\ (misread' \/ app_passwords' = {})
      \/ /\ pc' = "write password" /\ issued' \in app_passwords'
         /\ misread' \/ app_passwords' = {issued'}
  <2>0. CASE ListPasswords
    BY <2>0 DEF ListPasswords, At, Goto
  <2>1. CASE RevokePassword
    BY <2>1 DEF RevokePassword, At, Goto
  <2>2. CASE CreatePassword
    BY <2>2 DEF CreatePassword, At, Goto, RepairInv, Under
  <2>. QED  BY <2>0, <2>1, <2>2
<1>3. Window = {} /\ Window' = {}
  BY <1>1, <1>2 DEF Window
<1>4. Excused'
  BY <1>1, <1>3 DEF RepairInv, Excused, Excuses
<1>5. Agreed'
  BY <1>1, <1>2 DEF RepairInv, Agreed
<1>6. Under'
  BY <1>1, <1>2 DEF Under
<1>7. Reached'
  BY <1>1, <1>2 DEF RepairInv, Reached
<1>. QED  BY <1>4, <1>5, <1>6, <1>7 DEF RepairInv

\* The last command of the runbook.
LEMMA WritePasswordRepairs ==
    ASSUME TypeInv, TypeInv', RepairInv, WritePassword
    PROVE  RepairInv'
<1>. USE DEF files, tls, garage, wp, history
<1>1. /\ script = "wordpress" /\ pc = "write password" /\ env # "none"
      /\ UNCHANGED <<env, himalaya, tls, mailbox, garage, wp, issued>> /\ Done
      /\ agent_env \in [Agents -> EnvFile] /\ Impaginatore \in Agents
      /\ agent_env' = [agent_env EXCEPT ![Impaginatore].wp =
                          IF agent_env[Impaginatore].file = "full" THEN issued ELSE @]
  BY TypeParts, ProvisioningAssumption
     DEF WritePassword, At, TypeInv, FileTypes, RepairInv, Agreed
<1>2. /\ agent_env'[Impaginatore].file = "full" => agent_env'[Impaginatore].wp = issued
      /\ \A a \in Agents : /\ agent_env'[a].file = agent_env[a].file
                           /\ agent_env'[a].password = agent_env[a].password
                           /\ agent_env'[a].s3 = agent_env[a].s3
  BY <1>1 DEF EnvFile
<1>3. script' = "none" /\ pc' = "none" /\ UNCHANGED <<misread, was, lost, failures, deletes>>
  BY <1>1, RunbookGoesOn DEF TypeInv
<1>4. /\ core /\ plugin # "none" /\ role = "uploads" /\ user = "impaginatore"
      /\ issued \in app_passwords /\ (misread \/ app_passwords = {issued})
  BY <1>1 DEF RepairInv, Under
<1>5. Window = {} /\ Window' = {}
  BY <1>1, <1>3 DEF Window
<1>6. Excused'
  BY <1>1, <1>2, <1>3, <1>5, ProvisioningAssumption DEF RepairInv, Excused, Excuses
<1>7. Agreed'
  BY <1>1, <1>2, <1>3 DEF RepairInv, Agreed
<1>8. Under'
  BY <1>3 DEF Under
<1>9. Reached'
  <2>1. /\ progress' >= 2 => progress >= 2
        /\ progress' >= 3 => progress >= 3
        /\ progress' >= 4 => progress >= 4
        /\ progress' >= 5 => progress >= 5
    BY <1>1, Passed DEF TypeInv
  <2>2. agent_env'[Impaginatore].file = "full" =>
            MayPublish' /\ (misread' \/ PublishingReady')
    <3>1. PICK password : password = agent_env'[Impaginatore].wp
      OBVIOUS
    <3>2. agent_env'[Impaginatore].file = "full" => password = issued
      BY <1>2, <3>1
    <3>3. UNCHANGED <<app_passwords, misread>>
      BY <1>1, <1>3
    <3>4. /\ issued \in app_passwords /\ (misread \/ app_passwords = {issued})
          /\ MayPublish' <=> password \in app_passwords
          /\ PublishingReady' <=> app_passwords = {password}
      BY <1>4, <3>1, <3>3 DEF MayPublish, PublishingReady
    <3>. QED  BY <3>2, <3>3, <3>4
  <2>. QED  BY <1>1, <1>2, <1>3, <1>4, <2>1, <2>2 DEF RepairInv, Reached
<1>. QED  BY <1>6, <1>7, <1>8, <1>9 DEF RepairInv

LEMMA SetupWordPressRepairs ==
    ASSUME TypeInv, TypeInv', RepairInv, SetupWordPress
    PROVE  RepairInv'
BY SiteRepairs, RenewRepairs, WritePasswordRepairs DEF SetupWordPress

\* A script starts.
LEMMA RunRepairs ==
    ASSUME TypeInv, TypeInv', RepairInv, NEW s \in Scripts, Run(s)
    PROVE  RepairInv'
<1>. USE DEF disk, files, tls, garage, wp, history
<1>1. /\ script = "none" /\ pc = "none" /\ script' = s /\ pc' = "start"
      /\ env = "none" => s \in {"env", "tls"}
      /\ UNCHANGED <<disk, agent, todo, issued, progress, lost, failures, deletes>>
  BY DEF Run, TypeInv, Places
<1>2. Window = {} /\ Window' = {}
  BY <1>1 DEF Window
<1>3. Excused'
  BY <1>1, <1>2 DEF RepairInv, Excused, Excuses
<1>4. Agreed'
  BY <1>1 DEF RepairInv, Agreed
<1>5. Under'
  BY <1>1 DEF Under
<1>6. Reached'
  <2>1. script' # "none" /\ pc' # "agent password" /\ progress' = progress
    BY <1>1 DEF Scripts
  <2>. QED  BY <1>1, <2>1 DEF RepairInv, Reached
<1>. QED  BY <1>3, <1>4, <1>5, <1>6 DEF RepairInv

\* A list fails unseen.
LEMMA MisreadRepairs ==
    ASSUME TypeInv, TypeInv', RepairInv, Misread
    PROVE  RepairInv'
<1>. USE DEF disk, files, tls, garage, wp, process
<1>1. /\ pc \in {"list keys", "list passwords"} /\ script # "none"
      /\ UNCHANGED <<disk, process, issued, progress, was, lost, deletes>>
  BY DEF Misread, At
<1>2. Window = {} /\ Window' = {}
  BY <1>1 DEF Window
<1>3. Excused'
  BY <1>1, <1>2 DEF RepairInv, Excused, Excuses
<1>4. Agreed'
  BY <1>1 DEF RepairInv, Agreed
<1>5. Under'
  BY <1>1 DEF RepairInv, Under, Left
<1>6. Reached'
  BY <1>1 DEF RepairInv, Reached
<1>. QED  BY <1>3, <1>4, <1>5, <1>6 DEF RepairInv

\* A script that ends early leaves its window in lost.
LEMMA DieRepairs ==
    ASSUME TypeInv, TypeInv', RepairInv, Die
    PROVE  RepairInv'
<1>. USE DEF disk, files, tls, garage, wp, history
<1>1. /\ script' = "none" /\ pc' = "none" /\ progress' = 0 /\ lost' = lost \cup Window
      /\ UNCHANGED <<disk, issued>>
  BY DEF Die, Ends
<1>2. Window' = {}
  BY <1>1 DEF Window
<1>3. Excuses' = Excuses
  BY <1>1, <1>2 DEF Excuses
<1>4. Excused'
  BY <1>1, <1>3 DEF RepairInv, Excused
<1>5. Agreed'
  BY <1>1 DEF RepairInv, Agreed
<1>6. Under'
  BY <1>1 DEF Under
<1>7. Reached'
  BY <1>1, EarlyReached
<1>. QED  BY <1>4, <1>5, <1>6, <1>7 DEF RepairInv

\* The director throws a file or a key away.
LEMMA DeleteAgentEnvRepairs ==
    ASSUME TypeInv, TypeInv', RepairInv, NEW a \in Agents, DeleteAgentEnv(a)
    PROVE  RepairInv'
<1>. USE DEF files, tls, garage, wp, process
<1>1. /\ script = "none" /\ pc = "none" /\ progress' = 0
      /\ UNCHANGED <<env, himalaya, tls, mailbox, garage, wp, process, issued>>
      /\ agent_env' = [agent_env EXCEPT ![a] = NoFile] /\ agent_env \in [Agents -> EnvFile]
      /\ lost' = (lost \ {<<"agent env", a>>})
                 \cup (IF a \in Keyed /\ keys[a] # 0 THEN {<<"secret", a>>} ELSE {})
  BY TypeParts DEF DeleteAgentEnv, MayDelete, TypeInv, Places, FileTypes
<1>2. /\ agent_env'[a].file = "absent" /\ agent_env'[a].password = "none"
      /\ \A b \in Agents : b # a => agent_env'[b] = agent_env[b]
  BY <1>1 DEF NoFile
<1>3. Window = {} /\ Window' = {}
  BY <1>1 DEF Window
<1>4. /\ \A x \in lost : x # <<"agent env", a>> => x \in lost'
      /\ a \in Keyed /\ keys[a] # 0 => <<"secret", a>> \in lost'
  BY <1>1
<1>5. Excused'
  BY <1>1, <1>2, <1>3, <1>4, ProvisioningAssumption DEF RepairInv, Excused, Excuses
<1>6. Agreed'
  BY <1>1, <1>2 DEF RepairInv, Agreed
<1>7. Under'
  BY <1>1 DEF Under
<1>8. Reached'
  <2>1. progress' = 0
    BY <1>1
  <2>. QED  BY <2>1, EarlyReached
<1>. QED  BY <1>5, <1>6, <1>7, <1>8 DEF RepairInv

LEMMA DeleteKeyRepairs ==
    ASSUME TypeInv, TypeInv', RepairInv, NEW a \in Keyed, DeleteKey(a)
    PROVE  RepairInv'
<1>. USE DEF files, tls, garage, wp, process
<1>1. /\ script = "none" /\ pc = "none" /\ progress' = 0
      /\ UNCHANGED <<files, tls, mailbox, layout, buckets, wp, process, issued>>
      /\ keys' = [keys EXCEPT ![a] = 0] /\ keys \in [Keyed -> Secrets]
      /\ lost' = lost \ {<<"secret", a>>}
  BY TypeParts DEF DeleteKey, MayDelete, TypeInv, Places, GarageTypes
<1>2. keys'[a] = 0 /\ \A b \in Keyed : b # a => keys'[b] = keys[b]
  BY <1>1
<1>3. Window = {} /\ Window' = {}
  BY <1>1 DEF Window
<1>4. \A x \in lost : x # <<"secret", a>> => x \in lost'
  BY <1>1
<1>5. Excused'
  BY <1>1, <1>2, <1>3, <1>4 DEF RepairInv, Excused, Excuses
<1>6. Agreed'
  BY <1>1 DEF RepairInv, Agreed
<1>7. Under'
  BY <1>1 DEF Under
<1>8. Reached'
  BY <1>1, EarlyReached
<1>. QED  BY <1>5, <1>6, <1>7, <1>8 DEF RepairInv

LEMMA RepairsKept ==
    ASSUME TypeInv, TypeInv', RepairInv, [Next]_vars
    PROVE  RepairInv'
<1>1. CASE UNCHANGED vars
  <2>. USE <1>1 DEF vars, disk, files, tls, garage, wp, process, history
  <2>1. Excused'
    BY DEF RepairInv, Excused, Excuses, Window
  <2>2. Agreed'
    BY DEF RepairInv, Agreed
  <2>3. Under'
    BY DEF RepairInv, Under, Left
  <2>4. Reached'
    BY DEF RepairInv, Reached, MayPublish, PublishingReady
  <2>. QED  BY <2>1, <2>2, <2>3, <2>4 DEF RepairInv
<1>2. CASE Next
  BY <1>2, SetupEnvRepairs, SetupTlsRepairs, SetupMailboxesRepairs, SetupStorageRepairs,
     SetupWordPressRepairs, RunRepairs, DieRepairs, MisreadRepairs, DeleteAgentEnvRepairs, DeleteKeyRepairs DEF Next
<1>. QED  BY <1>1, <1>2

\* Whatever scripts were run before and wherever they ended, a runbook that is
\* followed once, no command failing but a masked list, leaves a complete
\* newsroom, unless a script once ended in a window or a secret was thrown away
\* with its file; but for old passwords, if their list failed in the last script.
THEOREM RunbookRepairsAlways == Spec => []RunbookRepairs
<1>1. Init => RepairInv
  BY InitRepair
<1>2. TypeInv /\ TypeInv' /\ RepairInv /\ [Next]_vars => RepairInv'
  BY RepairsKept
<1>3. TypeInv /\ RepairInv => RunbookRepairs
  BY RepairComplete DEF TypeInv
<1>4. Spec => []RepairInv
  BY <1>1, <1>2, TypesInvariant, PTL DEF Spec
<1>. QED  BY <1>3, <1>4, TypesInvariant, PTL
=============================================================================
