----------------------------- MODULE Provisioning -----------------------------
(***************************************************************************)
(* The provisioning scripts (scripts/setup-env.sh, setup-tls.sh,           *)
(* setup-mailboxes.sh, setup-storage.sh, setup-wordpress.sh), which the    *)
(* runbook calls idempotent and repeatable.  Each is a sequence of         *)
(* commands, any of which may be the last: set -e ends a script at the     *)
(* first command that fails, and a script may be killed.  Not so the lists *)
(* of what exists, whose failures are masked and read as nothing exists.   *)
(* The director runs any script at any time, one at a time.  What does     *)
(* running them again repair, and what harm does it do?                    *)
(***************************************************************************)
EXTENDS Integers, FiniteSets, Sequences

CONSTANTS
    Agents,        \* the agents
    Keyed,         \* those with an S3 key and a himalaya-password
    Impaginatore,  \* the one with a WordPress password
    Director,
    NoAgent,
    Buckets,
    Grants,        \* KEY_SPECS: which key may use which bucket
    MaxFailures,   \* commands that fail, or after which a script is killed
    MaxDeletes,    \* files and keys the director deletes
    MaxSecrets     \* S3 keys and WordPress passwords ever created

ASSUME ProvisioningAssumption ==
    /\ IsFiniteSet(Agents) /\ Keyed \subseteq Agents /\ Impaginatore \in Keyed
    /\ {Director, NoAgent} \cap Agents = {} /\ Director # NoAgent
    /\ Grants \subseteq Keyed \X Buckets /\ \A a \in Keyed : \E b \in Buckets : <<a, b>> \in Grants
    /\ {MaxFailures, MaxDeletes, MaxSecrets} \subseteq Nat

Users     == Agents \cup {Director}
Scripts   == {"env", "tls", "mailboxes", "storage", "wordpress"}
Passwords == {"none", "template", "random"}
Secrets   == 0 .. MaxSecrets

VARIABLES
    env,       \* the passwords of spark-a/.env; "none" without the file
    agent_env, \* per agent, its .env: absent, empty or full, and its secrets
    himalaya,  \* per agent, its himalaya-password
    ca, mail_crt, agents_ca, \* whether there are ca.crt, mail.crt, agents/ca.crt
    mailbox,   \* per user, the password of its account
    layout, buckets, \* Garage
    keys, allowed, \* per agent, the key last created, and what it may use
    doubled,   \* agents with an older key of the same name
    core, plugin, role, user, app_passwords, \* WordPress
    script, pc, \* the script that runs and its next command
    agent,     \* the agent, user or bucket of the current turn of a loop
    todo,      \* those of later turns
    issued,    \* secrets created so far
    misread,   \* did a list fail unseen in the script that ran last?
    progress,  \* scripts of the runbook completed in a row
    was,       \* was the newsroom intact when the script started?
    lost,      \* what a script was about to do when it ended for good
    failures, deletes

files  == <<env, agent_env, himalaya>>
tls    == <<ca, mail_crt, agents_ca>>
garage == <<layout, buckets, keys, allowed, doubled>>
wp     == <<core, plugin, role, user, app_passwords>>
disk   == <<files, tls, mailbox, garage, wp>>
history == <<misread, progress, was, lost, failures, deletes>>
process == <<script, pc, agent, todo>>
vars == <<disk, process, issued, history>>

NoFile == [file |-> "absent", password |-> "none", s3 |-> 0, wp |-> 0]

Init ==
    /\ env = "none" /\ agent_env = [a \in Agents |-> NoFile]
    /\ himalaya = [a \in Keyed |-> "none"]
    /\ ca = FALSE /\ mail_crt = FALSE /\ agents_ca = FALSE
    /\ mailbox = [u \in Users |-> "none"]
    /\ layout = "none" /\ buckets = {} /\ keys = [a \in Keyed |-> 0] /\ allowed = {}
    /\ doubled = {}
    /\ core = FALSE /\ plugin = "none" /\ role = "none" /\ user = "none"
    /\ app_passwords = {}
    /\ script = "none" /\ pc = "none" /\ agent = NoAgent /\ todo = {}
    /\ issued = 0 /\ misread = FALSE /\ progress = 0 /\ was = FALSE /\ lost = {}
    /\ failures = 0 /\ deletes = 0

\* Each part of the newsroom is there and the secrets of its parts agree.
MailReady ==
    /\ env = "random"
    /\ \A u \in Users : mailbox[u] = env
    /\ \A a \in Agents : agent_env[a].password = env
    /\ \A a \in Keyed : himalaya[a] = env
    /\ ca /\ mail_crt /\ agents_ca
StorageReady ==
    /\ layout = "applied" /\ buckets = Buckets /\ allowed = Grants
    /\ \A a \in Keyed : keys[a] # 0 /\ agent_env[a].s3 = keys[a]
WordPressReady ==
    core /\ plugin = "active" /\ role = "uploads" /\ user = "impaginatore"
MayPublish == agent_env[Impaginatore].wp \in app_passwords
PublishingReady == app_passwords = {agent_env[Impaginatore].wp}
Complete == MailReady /\ StorageReady /\ WordPressReady /\ PublishingReady

\* Complete, but for keys and for what every run of the script writes anew:
\* himalaya-password, the copy of the authority, the WordPress password.
IntactBut(s) ==
    /\ env = "random" /\ (\A u \in Users : mailbox[u] = env)
    /\ \A a \in Agents : agent_env[a].password = env
    /\ ca /\ mail_crt /\ WordPressReady
    /\ s # "env" => \A a \in Keyed : himalaya[a] = env
    /\ s # "tls" => agents_ca
    /\ s # "wordpress" => PublishingReady

-----------------------------------------------------------------------------
(* Scripts in general.                                                     *)

\* The order of the runbook.
Runbook == <<"env", "env", "tls", "mailboxes", "storage", "wordpress">>

Keyless == {a \in Keyed : keys[a] = 0}

\* A bound: no script starts that could not create the secrets it may need.
SecretsLeft(s) ==
    MaxSecrets - issued >=
        CASE s = "storage"   -> Cardinality(Keyless)
          [] s = "wordpress" -> 1
          [] s \in {"env", "tls", "mailboxes"} -> 0

\* A script that needs .env exits at once without it.
Run(s) ==
    /\ script = "none" /\ (env = "none" => s \in {"env", "tls"}) /\ SecretsLeft(s)
    /\ script' = s /\ pc' = "start" /\ misread' = FALSE
    /\ was' = (IntactBut(s) /\ StorageReady)
    /\ UNCHANGED <<disk, agent, todo, issued, progress, lost, failures, deletes>>

At(s, command) == script = s /\ pc = command

Goto(command) == pc' = command /\ UNCHANGED <<script, agent, todo, history>>

\* The next turn of a loop over what is left, or what follows the loop.
NextTurn(left, command, after) ==
    /\ UNCHANGED <<script, history>>
    /\ IF left = {} THEN pc' = after /\ agent' = NoAgent /\ todo' = {}
       ELSE \E a \in {CHOOSE x \in left : TRUE} :
                pc' = command /\ agent' = a /\ todo' = left \ {a}

Ends == script' = "none" /\ pc' = "none" /\ agent' = NoAgent /\ todo' = {}

Done ==
    /\ Ends
    /\ progress' = IF progress < Len(Runbook) /\ Runbook[progress + 1] = script
                   THEN progress + 1 ELSE IF script = "env" THEN 1 ELSE 0
    /\ UNCHANGED <<misread, was, lost, failures, deletes>>

\* A command refuses what is asked of it, as it always will.
Fails == Ends /\ progress' = 0 /\ UNCHANGED <<misread, was, lost, failures, deletes>>

\* What no later run of a script does, as what is there looks complete to it.
Window ==
    CASE pc = "secrets"       -> {<<"passwords", NoAgent>>}
      [] pc = "agent password" -> {<<"agent env", agent>>}
      [] pc = "certificate"   -> {<<"certificate", NoAgent>>}
      [] pc = "apply"         -> {<<"layout", NoAgent>>}
      [] pc = "write key"     -> {<<"secret", agent>>}
      [] pc = "activate"      -> {<<"plugin", NoAgent>>}
      [] pc \notin {"secrets", "agent password", "certificate", "apply", "write key",
                    "activate"} -> {}

\* A command fails, or the script is killed.
Die ==
    /\ script # "none" /\ failures < MaxFailures
    /\ Ends
    /\ failures' = failures + 1 /\ progress' = 0 /\ lost' = lost \cup Window
    /\ UNCHANGED <<disk, issued, misread, was, deletes>>

\* The list of keys or of passwords fails, which `|| true` hides.  (Other
\* masked lists are those of Die: creating what exists ends the script.)
Misread ==
    /\ At("storage", "list keys") \/ At("wordpress", "list passwords")
    /\ ~misread /\ failures < MaxFailures
    /\ script = "storage" => issued + Cardinality(Keyless) < MaxSecrets  \* a bound
    /\ misread' = TRUE /\ failures' = failures + 1
    /\ UNCHANGED <<disk, process, issued, progress, was, lost, deletes>>

-----------------------------------------------------------------------------
(* setup-env.sh                                                            *)

\* cp .env.example .env; on a later run, on to the agents.
EnvStart ==
    /\ At("env", "start")
    /\ \/ env = "none" /\ env' = "template" /\ Goto("secrets")
       \/ env # "none" /\ UNCHANGED env /\ NextTurn(Agents, "agent env", "none")
    /\ UNCHANGED <<agent_env, himalaya, tls, mailbox, garage, wp, issued>>

\* sed -i, which replaces the file at once; the first run ends here.
EnvSecrets ==
    /\ At("env", "secrets")
    /\ env' = "random" /\ Done
    /\ UNCHANGED <<agent_env, himalaya, tls, mailbox, garage, wp, issued>>

\* A slip: existing files are written again.
AgentEnv_Overwrites ==
    /\ At("env", "agent env")
    /\ agent_env' = [agent_env EXCEPT ![agent] = [NoFile EXCEPT !.file = "empty"]]
    /\ Goto("agent password")
    /\ UNCHANGED <<env, himalaya, tls, mailbox, garage, wp, issued>>

\* The redirection creates the agent's file before sed has written to it.
AgentEnv ==
    /\ At("env", "agent env")
    /\ \/ /\ agent_env[agent].file # "absent"
          /\ UNCHANGED agent_env
          /\ IF todo = {} THEN NextTurn(Keyed, "himalaya", "none")
             ELSE NextTurn(todo, "agent env", "none")
       \/ /\ agent_env[agent].file = "absent"
          /\ agent_env' = [agent_env EXCEPT ![agent].file = "empty"]
          /\ Goto("agent password")
    /\ UNCHANGED <<env, himalaya, tls, mailbox, garage, wp, issued>>

AgentPassword ==
    /\ At("env", "agent password")
    /\ agent_env' = [agent_env EXCEPT ![agent].file = "full", ![agent].password = env]
    /\ IF todo = {} THEN NextTurn(Keyed, "himalaya", "none")
       ELSE NextTurn(todo, "agent env", "none")
    /\ UNCHANGED <<env, himalaya, tls, mailbox, garage, wp, issued>>

\* Written again by every run: the redirection empties the file, printf fills it.
TruncateHimalaya ==
    /\ At("env", "himalaya")
    /\ himalaya' = [himalaya EXCEPT ![agent] = "none"] /\ Goto("himalaya password")
    /\ UNCHANGED <<env, agent_env, tls, mailbox, garage, wp, issued>>

HimalayaPassword ==
    /\ At("env", "himalaya password")
    /\ himalaya' = [himalaya EXCEPT ![agent] = env]
    /\ IF todo = {} THEN Done ELSE NextTurn(todo, "himalaya", "none")
    /\ UNCHANGED <<env, agent_env, tls, mailbox, garage, wp, issued>>

SetupEnv ==
    EnvStart \/ EnvSecrets \/ AgentEnv \/ AgentPassword \/ TruncateHimalaya \/ HimalayaPassword

-----------------------------------------------------------------------------
(* setup-tls.sh                                                            *)

Authority ==
    /\ At("tls", "start")
    /\ ca' = TRUE
    /\ Goto(IF ca THEN "copy" ELSE "certificate")
    /\ UNCHANGED <<files, mail_crt, agents_ca, mailbox, garage, wp, issued>>

Certificate ==
    /\ At("tls", "certificate")
    /\ mail_crt' = TRUE /\ Goto("copy")
    /\ UNCHANGED <<files, ca, agents_ca, mailbox, garage, wp, issued>>

\* cp empties agents/ca.crt before it writes to it.
TruncateCopy ==
    /\ At("tls", "copy")
    /\ agents_ca' = FALSE /\ Goto("write copy")
    /\ UNCHANGED <<files, ca, mail_crt, mailbox, garage, wp, issued>>

CopyAuthority ==
    /\ At("tls", "write copy")
    /\ agents_ca' = TRUE /\ Done
    /\ UNCHANGED <<files, ca, mail_crt, mailbox, garage, wp, issued>>

SetupTls == Authority \/ Certificate \/ TruncateCopy \/ CopyAuthority

-----------------------------------------------------------------------------
(* setup-mailboxes.sh                                                      *)

ListMailboxes ==
    /\ At("mailboxes", "start")
    /\ LET missing == {u \in Users : mailbox[u] = "none"}
       IN  IF missing = {} THEN Done ELSE NextTurn(missing, "add", "none")
    /\ UNCHANGED <<disk, issued>>

AddMailbox ==
    /\ At("mailboxes", "add")
    /\ mailbox' = [mailbox EXCEPT ![agent] = env]
    /\ IF todo = {} THEN Done ELSE NextTurn(todo, "add", "none")
    /\ UNCHANGED <<files, tls, garage, wp, issued>>

SetupMailboxes == ListMailboxes \/ AddMailbox

-----------------------------------------------------------------------------
(* setup-storage.sh                                                        *)

\* A staged layout is shown as well, and passes for an assigned one, unless the
\* look fails; failing to see an applied one, `apply --version 1` fails (Die).
AssignLayout ==
    /\ At("storage", "start")
    /\ \/ layout # "none" /\ UNCHANGED layout /\ Goto("buckets")
       \/ layout # "applied" /\ layout' = "staged" /\ Goto("apply")
    /\ UNCHANGED <<files, tls, mailbox, buckets, keys, allowed, doubled, wp, issued>>

ApplyLayout ==
    /\ At("storage", "apply")
    /\ layout' = "applied" /\ Goto("buckets")
    /\ UNCHANGED <<files, tls, mailbox, buckets, keys, allowed, doubled, wp, issued>>

\* One bucket at a time; Garage stores nothing before a layout is applied.
CreateBucket ==
    /\ At("storage", "buckets")
    /\ \/ /\ layout = "applied" /\ buckets # Buckets
          /\ \E b \in Buckets \ buckets : buckets' = buckets \cup {b}
          /\ UNCHANGED <<process, history>>
       \/ buckets = Buckets /\ UNCHANGED buckets /\ Goto("list keys")
       \/ layout # "applied" /\ UNCHANGED buckets /\ Fails
    /\ UNCHANGED <<files, tls, mailbox, layout, keys, allowed, doubled, wp, issued>>

ListKeys ==
    /\ At("storage", "list keys")
    /\ NextTurn(Keyed, "key", "none")
    /\ UNCHANGED <<disk, issued>>

\* A slip: a key that exists is passed over with its grants.
CreateKey_SkipsGrants ==
    /\ At("storage", "key")
    /\ \/ /\ keys[agent] = 0
          /\ keys' = [keys EXCEPT ![agent] = issued + 1] /\ issued' = issued + 1
          /\ Goto("write key")
       \/ /\ keys[agent] # 0
          /\ IF todo = {} THEN Done ELSE NextTurn(todo, "key", "none")
          /\ UNCHANGED <<keys, issued>>
    /\ UNCHANGED <<files, tls, mailbox, layout, buckets, allowed, doubled, wp>>

\* The keys seen are all that were there, or none; one that exists is created
\* again under its name, and the new one may use nothing yet.
CreateKey ==
    /\ At("storage", "key")
    /\ \/ /\ keys[agent] = 0 \/ misread
          /\ keys' = [keys EXCEPT ![agent] = issued + 1] /\ issued' = issued + 1
          /\ allowed' = {g \in allowed : g[1] # agent}
          /\ doubled' = IF keys[agent] = 0 THEN doubled ELSE doubled \cup {agent}
          /\ Goto("write key")
       \/ /\ keys[agent] # 0 /\ ~misread
          /\ Goto("allow") /\ UNCHANGED <<keys, allowed, doubled, issued>>
    /\ UNCHANGED <<files, tls, mailbox, layout, buckets, wp>>

\* sed finds nothing to replace in an empty file; without a file the secret is
\* shown once, and lost unless the director copies it.
WriteKey ==
    /\ At("storage", "write key")
    /\ agent_env' = [agent_env EXCEPT ![agent].s3 =
                        IF agent_env[agent].file = "full" THEN keys[agent] ELSE @]
    /\ lost' = lost \cup (IF agent_env[agent].file = "absent" THEN {<<"secret", agent>>} ELSE {})
    /\ pc' = "allow"
    /\ UNCHANGED <<script, agent, todo, misread, progress, was, failures, deletes>>
    /\ UNCHANGED <<env, himalaya, tls, mailbox, garage, wp, issued>>

Missing == {g \in Grants : g[1] = agent} \ allowed

\* A slip: the key may use every bucket.
Allow_AllBuckets ==
    /\ At("storage", "allow")
    /\ allowed' = allowed \cup ({agent} \X Buckets)
    /\ IF todo = {} THEN Done ELSE NextTurn(todo, "key", "none")
    /\ UNCHANGED <<files, tls, mailbox, layout, buckets, keys, doubled, wp, issued>>

\* Given again to a key that exists, one bucket at a time; a name that two keys
\* have is refused.
Allow ==
    /\ At("storage", "allow")
    /\ \/ /\ Missing # {} /\ agent \notin doubled
          /\ \E g \in Missing : allowed' = allowed \cup {g}
          /\ UNCHANGED <<process, history>>
       \/ Missing # {} /\ agent \in doubled /\ UNCHANGED allowed /\ Fails
       \/ /\ Missing = {} /\ UNCHANGED allowed
          /\ IF todo = {} THEN Done ELSE NextTurn(todo, "key", "none")
    /\ UNCHANGED <<files, tls, mailbox, layout, buckets, keys, doubled, wp, issued>>

SetupStorage ==
    AssignLayout \/ ApplyLayout \/ CreateBucket \/ ListKeys \/ CreateKey \/ WriteKey \/ Allow

-----------------------------------------------------------------------------
(* setup-wordpress.sh                                                      *)

InstallCore ==
    /\ At("wordpress", "start")
    /\ core' = TRUE
    /\ Goto("plugin")
    /\ UNCHANGED <<files, tls, mailbox, garage, plugin, role, user, app_passwords, issued>>

\* wp plugin install --activate installs, then activates.
InstallPlugin ==
    /\ At("wordpress", "plugin")
    /\ plugin' = IF plugin = "none" THEN "installed" ELSE plugin
    /\ Goto(IF plugin = "none" THEN "activate" ELSE "role")
    /\ UNCHANGED <<files, tls, mailbox, garage, core, role, user, app_passwords, issued>>

ActivatePlugin ==
    /\ At("wordpress", "activate")
    /\ plugin' = "active" /\ Goto("role")
    /\ UNCHANGED <<files, tls, mailbox, garage, core, role, user, app_passwords, issued>>

CreateRole ==
    /\ At("wordpress", "role")
    /\ role' = IF role = "none" THEN "contributor" ELSE role
    /\ Goto("capability")
    /\ UNCHANGED <<files, tls, mailbox, garage, core, plugin, user, app_passwords, issued>>

\* The capability and the user's role are set by every run.
AddCapability ==
    /\ At("wordpress", "capability")
    /\ role' = "uploads" /\ Goto("user")
    /\ UNCHANGED <<files, tls, mailbox, garage, core, plugin, user, app_passwords, issued>>

CreateUser ==
    /\ At("wordpress", "user")
    /\ user' = "impaginatore" /\ Goto("list passwords")
    /\ UNCHANGED <<files, tls, mailbox, garage, core, plugin, role, app_passwords, issued>>

ListPasswords ==
    /\ At("wordpress", "list passwords")
    /\ Goto(IF misread THEN "create" ELSE "revoke")
    /\ UNCHANGED <<disk, issued>>

\* The passwords of earlier runs, one at a time, then a new one.
RevokePassword ==
    /\ At("wordpress", "revoke")
    /\ \/ /\ app_passwords # {}
          /\ \E p \in app_passwords : app_passwords' = app_passwords \ {p}
          /\ UNCHANGED <<process, history>>
       \/ /\ app_passwords = {} /\ UNCHANGED app_passwords /\ Goto("create")
    /\ UNCHANGED <<files, tls, mailbox, garage, core, plugin, role, user, issued>>

CreatePassword ==
    /\ At("wordpress", "create")
    /\ app_passwords' = app_passwords \cup {issued + 1} /\ issued' = issued + 1
    /\ Goto("write password")
    /\ UNCHANGED <<files, tls, mailbox, garage, core, plugin, role, user>>

WritePassword ==
    /\ At("wordpress", "write password")
    /\ agent_env' = [agent_env EXCEPT ![Impaginatore].wp =
                        IF agent_env[Impaginatore].file = "full" THEN issued ELSE @]
    /\ Done
    /\ UNCHANGED <<env, himalaya, tls, mailbox, garage, wp, issued>>

SetupWordPress ==
    \/ InstallCore \/ InstallPlugin \/ ActivatePlugin \/ CreateRole \/ AddCapability
    \/ CreateUser \/ ListPasswords \/ RevokePassword \/ CreatePassword \/ WritePassword

-----------------------------------------------------------------------------
(* The director.                                                           *)

MayDelete == script = "none" /\ deletes < MaxDeletes

\* An agent's .env is deleted to have it generated again; its S3 secret, which
\* Garage never shows again, goes with it.
DeleteAgentEnv(a) ==
    /\ MayDelete /\ agent_env[a].file # "absent"
    /\ agent_env' = [agent_env EXCEPT ![a] = NoFile]
    /\ lost' = (lost \ {<<"agent env", a>>})
               \cup (IF a \in Keyed /\ keys[a] # 0 THEN {<<"secret", a>>} ELSE {})
    /\ deletes' = deletes + 1 /\ progress' = 0
    /\ UNCHANGED <<env, himalaya, tls, mailbox, garage, wp, process, issued, misread, was, failures>>

\* "La chiave va eliminata e ricreata.", and so are two of one name.
DeleteKey(a) ==
    /\ MayDelete /\ keys[a] # 0
    /\ keys' = [keys EXCEPT ![a] = 0] /\ allowed' = {g \in allowed : g[1] # a}
    /\ doubled' = doubled \ {a} /\ lost' = lost \ {<<"secret", a>>}
    /\ deletes' = deletes + 1 /\ progress' = 0
    /\ UNCHANGED <<files, tls, mailbox, layout, buckets, wp, process, issued, misread, was, failures>>

Next ==
    \/ \E s \in Scripts : Run(s)
    \/ SetupEnv \/ SetupTls \/ SetupMailboxes \/ SetupStorage \/ SetupWordPress
    \/ Die \/ Misread
    \/ \E a \in Agents : DeleteAgentEnv(a)
    \/ \E a \in Keyed : DeleteKey(a)

Spec == Init /\ [][Next]_vars

-----------------------------------------------------------------------------
\* Types, and no script at rest is in the middle of something.
TypeOK ==
    /\ env \in Passwords
    /\ agent_env \in [Agents -> [file : {"absent", "empty", "full"}, password : Passwords,
                                 s3 : Secrets, wp : Secrets]]
    /\ himalaya \in [Keyed -> Passwords] /\ mailbox \in [Users -> Passwords]
    /\ {ca, mail_crt, agents_ca, core, misread, was} \subseteq BOOLEAN
    /\ layout \in {"none", "staged", "applied"} /\ buckets \subseteq Buckets
    /\ keys \in [Keyed -> Secrets] /\ allowed \subseteq Grants /\ doubled \subseteq Keyed
    /\ plugin \in {"none", "installed", "active"}
    /\ role \in {"none", "contributor", "uploads"} /\ user \in {"none", "impaginatore"}
    /\ app_passwords \subseteq Secrets \ {0}
    /\ script \in Scripts \cup {"none"} /\ (script = "none" <=> pc = "none")
    /\ agent \in Users \cup {NoAgent} /\ todo \subseteq Users
    /\ issued \in Secrets /\ progress \in 0 .. Len(Runbook)
    /\ failures \in 0 .. MaxFailures /\ deletes \in 0 .. MaxDeletes

\* Whatever scripts were run before, in whatever order, and wherever they
\* ended: following the runbook once, no command failing but a masked list,
\* makes the newsroom complete and its secrets agree, unless a script once
\* ended in one of six places, or a secret was thrown away with its file.  Only
\* old WordPress passwords may stay, when their list failed in the last script.
RunbookRepairs ==
    progress = Len(Runbook) /\ script = "none" /\ lost = {} =>
        /\ MailReady /\ StorageReady /\ WordPressReady /\ MayPublish
        /\ ~misread => PublishingReady

\* What a script started on a complete newsroom can break: what that script
\* writes anew, if it ends early; if its list fails unseen, the keys, or a
\* WordPress password that stays valid.  What it does not write is untouched, and
\* running it again to its end repairs the rest, except for the keys.
RerunDoesNoHarm ==
    [][was /\ script # "none" /\ script' = "none" =>
        /\ \A s \in Scripts : script = s => IntactBut(s)'
        /\ script # "storage" \/ ~misread => StorageReady'
        /\ failures' = failures /\ script # "storage" => (MailReady /\ MayPublish)'
        /\ failures' = failures /\ ~misread => Complete']_vars
=============================================================================
