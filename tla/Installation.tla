---------------------------- MODULE Installation ----------------------------
(* The installation wizard of a client server (setup/views.py,              *)
(* setup/env_manager.py, setup/client_install.py): it writes the .env file,  *)
(* migrates the database the request names, creates the administrator with   *)
(* the one tenant of the installation, activates the licence and leaves a    *)
(* lock file behind.                                                         *)
(*                                                                           *)
(* The requests run in several worker processes, one at a time in each (as   *)
(* under Passenger, which install() is written for), with database settings  *)
(* of its own; a page that is reloaded starts over while the handler of its  *)
(* last request may still run. All handlers write to the one .env.tmp, and   *)
(* one that has it open follows it when it is renamed. The file is small, so *)
(* that it is written when it is closed. All requests name one               *)
(* administrator. Before it changes anything a request tries the database    *)
(* and the purchase code; one that fails there leaves no trace here. Seeding *)
(* is idempotent and goes with the migrations. The .env that is shipped says *)
(* DEPLOYMENT_MODE=client.                                                   *)
EXTENDS Integers, FiniteSets

CONSTANTS
    Databases,
    Default,       \* the database that .env names before the installation
    Workers,
    None,
    MaxFaults      \* bound: workers killed, and writes, queries, activations and
                   \* locks that fail

ASSUME InstallationAssumption ==
    /\ Default \in Databases
    /\ None \notin Databases \cup Workers
    /\ {"no", "finalize"} \cap Databases = {}
    /\ MaxFaults \in Nat

VARIABLES
    env, tmp,   \* what .env holds, and .env.tmp if there is one
    lock,       \* installed.lock: "no", "finalize", or the database that install()
                \* has installed when it left it
    settings,   \* settings[w]: the database that worker w connects to
    base,       \* base[d]: what is in database d
    job,        \* job[w]: the request that worker w handles and how far it is
    faults,
    overlapped, \* two requests were handled at one time
    clash,      \* two handlers were writing at one time
    spoiled     \* a handler had the file open when it was killed or its disk was full

vars == <<env, tmp, lock, settings, base, job, faults, overlapped, clash, spoiled>>

\* own: the variables that were in .env before the installation.
Contents == [db : Databases \cup {None}, own : BOOLEAN]
Empty == [db |-> None, own |-> FALSE]
\* A tenant is known by the worker that has made it: one that is made and not
\* configured is in nobody's way.
Tenants == Workers \cup {None}
Bases == [migrated : BOOLEAN, admin : BOOLEAN, config : Tenants, adminTenant : Tenants,
          licensed : BOOLEAN]
NewBase == [migrated |-> FALSE, admin |-> FALSE, config |-> None, adminTenant |-> None,
            licensed |-> FALSE]

Kinds == {"install", "admin", "finalize"}
Pcs == {"idle", "read", "open", "flush", "replace", "clean", "migrate",
        "admin", "create", "tenant", "config", "user", "licence", "lock"}
\* file: the file that the handler has open, under its name of now ("gone":
\* it has none any more).
Jobs == [pc : Pcs \ {"idle"}, kind : Kinds, db : Databases,
         file : {"none", "tmp", "env", "gone"}, own : BOOLEAN, tenant : Tenants]
Idle == [pc |-> "idle"]

TypeOK ==
    /\ env \in Contents /\ tmp \in Contents \cup {None}
    /\ lock \in Databases \cup {"no", "finalize"}
    /\ settings \in [Workers -> Databases]
    /\ base \in [Databases -> Bases]
    /\ job \in [Workers -> Jobs \cup {Idle}]
    /\ faults \in 0 .. MaxFaults
    /\ overlapped \in BOOLEAN /\ clash \in BOOLEAN /\ spoiled \in BOOLEAN

\* The entry point has migrated the database that .env names.
Init ==
    /\ env = [db |-> Default, own |-> TRUE] /\ tmp = None
    /\ lock = "no"
    /\ settings = [w \in Workers |-> Default]
    /\ base = [d \in Databases |-> [NewBase EXCEPT !.migrated = (d = Default)]]
    /\ job = [w \in Workers |-> Idle]
    /\ faults = 0
    /\ overlapped = FALSE /\ clash = FALSE /\ spoiled = FALSE

-----------------------------------------------------------------------------
(* Requests. check_setup_allowed() looks at the lock once, at their start.   *)

Start(w, kind, pc, d) ==
    /\ job[w] = Idle
    /\ lock = "no"
    /\ job' = [job EXCEPT ![w] =
         [pc |-> pc, kind |-> kind, db |-> d, file |-> "none", own |-> FALSE, tenant |-> None]]
    /\ overlapped' = (overlapped \/ \E q \in Workers : job[q] # Idle)
    /\ UNCHANGED <<env, tmp, lock, settings, base, faults, clash, spoiled>>

Install(w, d) == Start(w, "install", "read", d)

\* The third page of the wizard; it fails before the migrations.
CreateAdmin(w) ==
    /\ base[settings[w]].migrated
    /\ Start(w, "admin", "admin", settings[w])

\* No page calls it. What it checks is the connection of its worker, and what
\* it writes the database of the request.
Finalize(w, d) ==
    /\ base[settings[w]].migrated
    /\ base[settings[w]].admin
    /\ Start(w, "finalize", "read", d)

\* POST run-migrations/, which no page calls either.
RunMigrations(w) ==
    /\ lock = "no"
    /\ job[w] = Idle
    /\ base' = [base EXCEPT ![settings[w]].migrated = TRUE]
    /\ UNCHANGED <<env, tmp, lock, settings, job, faults, overlapped, clash, spoiled>>

Goto(w, pc) == job' = [job EXCEPT ![w].pc = pc]
Done(w) == job' = [job EXCEPT ![w] = Idle]
Fail == /\ faults < MaxFaults
        /\ faults' = faults + 1

-----------------------------------------------------------------------------
(* update_env_file                                                           *)

files == <<env, tmp, clash, spoiled>>
others == <<lock, settings, base, overlapped>>

ReadEnv(w) ==
    /\ job[w].pc = "read"
    /\ job' = [job EXCEPT ![w].own = env.own, ![w].pc = "open"]
    /\ UNCHANGED <<files, faults, others>>

Writing(q) == job[q].pc \in {"flush", "replace"}

\* Without the temporary file.
OpenInPlace(w) ==
    /\ job[w].pc = "open"
    /\ env' = Empty
    /\ job' = [job EXCEPT ![w].file = "env", ![w].pc = "flush"]
    /\ UNCHANGED <<tmp, clash, spoiled, faults, others>>

\* open(tmp, 'w') empties the file that is there, whoever writes it.
OpenTmp(w) ==
    /\ job[w].pc = "open"
    /\ tmp' = Empty
    /\ job' = [job EXCEPT ![w].file = "tmp", ![w].pc = "flush"]
    /\ clash' = (clash \/ \E q \in Workers : Writing(q))
    /\ UNCHANGED <<env, spoiled, faults, others>>

\* Into the file that was opened, which may be .env by now, or have no name.
CloseTmp(w) ==
    LET written == [db |-> job[w].db, own |-> job[w].own] IN
    /\ job[w].pc = "flush"
    /\ tmp' = IF job[w].file = "tmp" THEN written ELSE tmp
    /\ env' = IF job[w].file = "env" THEN written ELSE env
    /\ job' = [job EXCEPT ![w].file = "none", ![w].pc = "replace"]
    /\ UNCHANGED <<clash, spoiled, faults, others>>

WriteFails(w) ==
    /\ job[w].pc = "flush"
    /\ Fail
    /\ spoiled' = TRUE
    /\ job' = [job EXCEPT ![w].file = "none", ![w].pc = "clean"]
    /\ UNCHANGED <<env, tmp, clash, others>>

\* The handlers with a file follow it to its new name.
Renamed(j, f) == IF j = Idle \/ j.file \notin DOMAIN f THEN j ELSE [j EXCEPT !.file = f[@]]

\* With finalize_installation() in place of update_env_file().
ReplaceAndLock(w) ==
    /\ job[w].pc = "replace"
    /\ tmp # None
    /\ env' = tmp /\ tmp' = None
    /\ lock' = job[w].db
    /\ Goto(w, IF job[w].kind = "install" THEN "migrate" ELSE "lock")
    /\ UNCHANGED <<clash, spoiled, faults, settings, base, overlapped>>

\* os.replace; it raises when another handler has already moved the file away.
Replace(w) ==
    /\ job[w].pc = "replace"
    /\ IF tmp = None
       THEN Goto(w, "clean") /\ UNCHANGED <<env, tmp>>
       ELSE /\ env' = tmp /\ tmp' = None
            /\ job' = [[q \in Workers |-> Renamed(job[q], [tmp |-> "env", env |-> "gone"])]
                 EXCEPT ![w].own = FALSE,
                        ![w].pc = IF job[w].kind = "install" THEN "migrate" ELSE "lock"]
    /\ UNCHANGED <<clash, spoiled, faults, others>>

\* The unlink() of whatever file has the name.
CleanUp(w) ==
    /\ job[w].pc = "clean"
    /\ tmp' = None
    /\ job' = [[q \in Workers |-> Renamed(job[q], [tmp |-> "gone"])] EXCEPT ![w] = Idle]
    /\ UNCHANGED <<env, clash, spoiled, faults, others>>

-----------------------------------------------------------------------------
(* install() after the file                                                  *)

\* The settings of this worker are switched; those of the others are not.
Migrate(w) ==
    LET d == job[w].db IN
    /\ job[w].pc = "migrate"
    /\ settings' = [settings EXCEPT ![w] = d]
    /\ \/ /\ base' = [base EXCEPT ![d].migrated = TRUE]
          /\ Goto(w, "admin")
          /\ UNCHANGED faults
       \/ Fail /\ Done(w) /\ UNCHANGED base
    /\ UNCHANGED <<files, lock, overlapped>>

\* A create() without the look-up.
AlwaysCreateUser(w) ==
    /\ job[w].pc = "admin"
    /\ Goto(w, "create")
    /\ UNCHANGED <<files, lock, settings, base, faults, overlapped>>

\* _upsert_admin_user: the user is looked for, and saved before the tenant is
\* looked for or created ...
LookUpUser(w) ==
    /\ job[w].pc = "admin"
    /\ Goto(w, IF base[settings[w]].admin THEN "tenant" ELSE "create")
    /\ UNCHANGED <<files, lock, settings, base, faults, overlapped>>

\* The name of a user is unique: the second create() raises.
CreateUser(w) ==
    /\ job[w].pc = "create"
    /\ IF base[settings[w]].admin
       THEN Done(w) /\ UNCHANGED base
       ELSE base' = [base EXCEPT ![settings[w]].admin = TRUE] /\ Goto(w, "tenant")
    /\ UNCHANGED <<files, lock, settings, faults, overlapped>>

\* ... create_or_get_client_tenant() ...
FindTenant(w) ==
    LET b == base[settings[w]] IN
    /\ job[w].pc = "tenant"
    /\ job' = [job EXCEPT ![w].tenant = IF b.config # None THEN b.config ELSE w,
                          ![w].pc = IF b.config # None THEN "user" ELSE "config"]
    /\ UNCHANGED <<files, lock, settings, base, faults, overlapped>>

SaveConfig(w) ==
    /\ job[w].pc = "config"
    /\ base' = [base EXCEPT ![settings[w]].config = job[w].tenant]
    /\ Goto(w, "user")
    /\ UNCHANGED <<files, lock, settings, faults, overlapped>>

\* ... and saved again with it.
SaveUser(w) ==
    /\ job[w].pc = "user"
    /\ base' = [base EXCEPT ![settings[w]].adminTenant = job[w].tenant]
    /\ job' = [job EXCEPT ![w] = IF @.kind = "install"
                                THEN [@ EXCEPT !.tenant = None, !.pc = "licence"] ELSE Idle]
    /\ UNCHANGED <<files, lock, settings, faults, overlapped>>

\* The database refuses one of these.
DatabaseFails(w) ==
    /\ job[w].pc \in {"admin", "create", "tenant", "config", "user"}
    /\ Fail
    /\ Done(w)
    /\ UNCHANGED <<files, lock, settings, base, overlapped>>

\* With the decision ignored.
ActivateLicenceAnyway(w) ==
    /\ job[w].pc = "licence"
    /\ \/ /\ base' = [base EXCEPT ![settings[w]].licensed = TRUE]
          /\ UNCHANGED faults
       \/ /\ base' = [base EXCEPT ![settings[w]].licensed = FALSE]
          /\ Fail
    /\ Goto(w, "lock")
    /\ UNCHANGED <<files, lock, settings, overlapped>>

\* activate_license(); an activation that fails wipes the token.
ActivateLicence(w) ==
    /\ job[w].pc = "licence"
    /\ \/ /\ base' = [base EXCEPT ![settings[w]].licensed = TRUE]
          /\ Goto(w, "lock")
          /\ UNCHANGED faults
       \/ /\ base' = [base EXCEPT ![settings[w]].licensed = FALSE]
          /\ Fail
          /\ Done(w)
    /\ UNCHANGED <<files, lock, settings, overlapped>>

MarkInstalled(w) ==
    /\ job[w].pc = "lock"
    /\ \/ /\ lock' = IF lock # "no" THEN lock
                    ELSE IF job[w].kind = "install" THEN settings[w] ELSE "finalize"
          /\ UNCHANGED faults
       \/ Fail /\ UNCHANGED lock
    /\ Done(w)
    /\ UNCHANGED <<files, settings, base, overlapped>>

\* A worker is killed with its handlers. Its successor has read .env again
\* (Passenger) or has the settings of the preloaded master (gunicorn --preload).
Kill(w) ==
    /\ faults < MaxFaults
    /\ faults' = faults + 1
    /\ job' = [job EXCEPT ![w] = Idle]
    /\ spoiled' = (spoiled \/ job[w].pc = "flush")
    /\ \E d \in {Default, env.db} \ {None} :
          settings' = [settings EXCEPT ![w] = d]
    /\ UNCHANGED <<env, tmp, lock, base, overlapped, clash>>

WriteEnv(w) ==
    \/ ReadEnv(w) \/ OpenTmp(w) \/ CloseTmp(w) \/ WriteFails(w) \/ Replace(w) \/ CleanUp(w)
Provision(w) ==
    \/ Migrate(w) \/ LookUpUser(w) \/ CreateUser(w) \/ FindTenant(w) \/ SaveConfig(w)
    \/ SaveUser(w) \/ DatabaseFails(w) \/ ActivateLicence(w) \/ MarkInstalled(w)
Handler(w) == WriteEnv(w) \/ Provision(w)

Installs == \E w \in Workers, d \in Databases : Install(w, d)

Next ==
    \/ Installs
    \/ \E w \in Workers, d \in Databases : Finalize(w, d)
    \/ \E w \in Workers : CreateAdmin(w) \/ RunMigrations(w) \/ Kill(w) \/ Handler(w)

Spec == Init /\ [][Next]_vars

\* Handlers go on, and somebody installs as long as nothing is installed.
FairSpec == Spec /\ (\A w \in Workers : WF_vars(Handler(w))) /\ SF_vars(Installs)

-----------------------------------------------------------------------------
(* Properties                                                                *)

(* Whatever dies or fails, .env is complete and keeps the variables that others
   have put there, as long as no two handlers write at one time; after two have,
   it is complete once nobody has it open, unless one of them never got to its
   end. (update_env_file: a temporary file and os.replace)                   *)
EnvIsWhole ==
    /\ ~clash => env.db # None /\ env.own
    /\ ~spoiled /\ (\A w \in Workers : job[w].pc # "flush") => env.db # None

(* When install() has left the lock, and no two requests were handled at one
   time, the database that .env names is migrated and licensed, and has the
   administrator in the tenant of the installation, whatever attempts, with
   other databases too, died before. (install, create_or_get_client_tenant)  *)
InstalledIsUsable ==
    lock \in Databases /\ ~overlapped =>
        LET b == base[env.db] IN
        /\ env.db # None
        /\ b.migrated /\ b.licensed /\ b.admin
        /\ b.config # None /\ b.adminTenant = b.config

(* Whatever requests overlap, install() does not leave the lock for a database
   that is not migrated or has no administrator and no tenant: another request
   may replace .env and wipe the licence, but not take these away.           *)
InstalledIsProvisioned ==
    lock \in Databases => base[lock].migrated /\ base[lock].admin /\ base[lock].config # None

(* Someone who keeps on installing gets there, wherever earlier attempts were
   left: every step can be taken again. Not so when requests go on overlapping:
   two that fail may unlink each other's temporary file again and again.
   (install, _upsert_admin_user, update_env_file)                            *)
OneAtATime == Cardinality({w \in Workers : job[w] # Idle}) <= 1
InstallationCompletes == <>[]OneAtATime => <>(lock # "no")
=============================================================================
