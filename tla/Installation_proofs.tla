------------------------- MODULE Installation_proofs -------------------------
(* The safety properties of Installation, for any workers, databases and      *)
(* number of faults. IInv says how far the database of a handler is, what a    *)
(* writer may find in .env.tmp, and what a handler that was never overlapped   *)
(* has left for its next step.                                                *)
EXTENDS Installation, TLAPS

AfterMigrate == {"admin", "create", "tenant", "config", "user", "licence", "lock"}
AfterUser == {"tenant", "config", "user", "licence", "lock"}
AfterConfig == {"user", "licence", "lock"}

\* What a handler relies on in its database.
JobGood(j, b) ==
    /\ j.kind = "finalize" => j.pc \in {"read", "open", "flush", "replace", "clean", "lock"}
    /\ j.kind = "admin" => j.pc \in {"admin", "create", "tenant", "config", "user"}
    /\ j.kind # "finalize" /\ j.pc \in AfterMigrate => b.migrated
    /\ j.kind # "finalize" /\ j.pc \in AfterUser => b.admin
    /\ j.kind # "finalize" /\ j.pc \in AfterConfig => b.config # None
    /\ j.pc \in {"config", "user"} => j.tenant # None
JobsGood == \A w \in Workers : job[w] # Idle => JobGood(job[w], base[settings[w]])

\* What is in a database stays there.
Grows(b, c) ==
    /\ b.migrated => c.migrated
    /\ b.admin => c.admin
    /\ b.config # None => c.config # None
SameButFile(j, k) ==
    \/ j = Idle /\ k = Idle
    \/ /\ j \in Jobs /\ k \in Jobs
       /\ j.pc = k.pc /\ j.kind = k.kind /\ j.db = k.db /\ j.own = k.own /\ j.tenant = k.tenant

-----------------------------------------------------------------------------
(* Records                                                                   *)

LEMMA BusyIsJob ==
    ASSUME TypeOK, NEW w \in Workers, job[w].pc # "idle"
    PROVE  job[w] \in Jobs /\ job[w] # Idle
BY DEF TypeOK, Idle

LEMMA JobFields ==
    ASSUME NEW j \in Jobs
    PROVE  /\ j # Idle
           /\ j.pc \in Pcs \ {"idle"} /\ j.kind \in Kinds /\ j.db \in Databases
           /\ j.file \in {"none", "tmp", "env", "gone"} /\ j.own \in BOOLEAN
           /\ j.tenant \in Tenants
BY DEF Jobs, Idle

LEMMA JobPc ==
    ASSUME NEW j \in Jobs, NEW x \in Pcs \ {"idle"}
    PROVE  [j EXCEPT !.pc = x] \in Jobs
BY DEF Jobs

LEMMA JobFilePc ==
    ASSUME NEW j \in Jobs, NEW f \in {"none", "tmp", "env", "gone"}, NEW x \in Pcs \ {"idle"}
    PROVE  [j EXCEPT !.file = f, !.pc = x] \in Jobs
BY DEF Jobs

LEMMA JobOwnPc ==
    ASSUME NEW j \in Jobs, NEW o \in BOOLEAN, NEW x \in Pcs \ {"idle"}
    PROVE  [j EXCEPT !.own = o, !.pc = x] \in Jobs
BY DEF Jobs

LEMMA JobTenantPc ==
    ASSUME NEW j \in Jobs, NEW t \in Tenants, NEW x \in Pcs \ {"idle"}
    PROVE  [j EXCEPT !.tenant = t, !.pc = x] \in Jobs
BY DEF Jobs

LEMMA NewJob ==
    ASSUME NEW k \in Kinds, NEW x \in Pcs \ {"idle"}, NEW d \in Databases
    PROVE  [pc |-> x, kind |-> k, db |-> d, file |-> "none", own |-> FALSE,
            tenant |-> None] \in Jobs
BY DEF Jobs, Tenants

LEMMA RenamedJob ==
    ASSUME NEW j \in Jobs \cup {Idle},
           NEW f, f \in {[tmp |-> "env", env |-> "gone"], [tmp |-> "gone"]}
    PROVE  /\ Renamed(j, f) \in Jobs \cup {Idle}
           /\ SameButFile(Renamed(j, f), j)
<1>1. CASE j = Idle
  BY <1>1 DEF Renamed, SameButFile
<1>2. CASE j # Idle
  <2>1. j \in Jobs
    BY <1>2
  <2>2. CASE j.file \notin DOMAIN f
    BY <1>2, <2>1, <2>2 DEF Renamed, SameButFile
  <2>3. CASE j.file \in DOMAIN f
    <3>1. Renamed(j, f) = [j EXCEPT !.file = f[j.file]]
      BY <1>2, <2>3 DEF Renamed
    <3>2. f[j.file] \in {"none", "tmp", "env", "gone"}
      BY <2>3
    <3>3. [j EXCEPT !.file = f[j.file]] \in Jobs
      BY <2>1, <3>2 DEF Jobs
    <3> QED
      BY <2>1, <3>1, <3>3 DEF SameButFile, Jobs
  <2> QED
    BY <2>2, <2>3
<1> QED
  BY <1>1, <1>2

LEMMA WrittenIsContents ==
    ASSUME NEW j \in Jobs
    PROVE  [db |-> j.db, own |-> j.own] \in Contents
BY JobFields DEF Contents

LEMMA EmptyIsContents == Empty \in Contents
BY DEF Contents, Empty

LEMMA BaseUpdate ==
    ASSUME NEW b \in Bases, NEW t \in Tenants, NEW x \in BOOLEAN
    PROVE  /\ [b EXCEPT !.migrated = TRUE] \in Bases
           /\ [b EXCEPT !.admin = TRUE] \in Bases
           /\ [b EXCEPT !.config = t] \in Bases
           /\ [b EXCEPT !.adminTenant = t] \in Bases
           /\ [b EXCEPT !.licensed = x] \in Bases
BY DEF Bases

LEMMA BaseGrows ==
    ASSUME NEW b \in Bases, NEW t \in Tenants \ {None}, NEW u, NEW x
    PROVE  /\ Grows(b, b)
           /\ Grows(b, [b EXCEPT !.migrated = TRUE])
           /\ Grows(b, [b EXCEPT !.admin = TRUE])
           /\ Grows(b, [b EXCEPT !.config = t])
           /\ Grows(b, [b EXCEPT !.adminTenant = u])
           /\ Grows(b, [b EXCEPT !.licensed = x])
BY DEF Bases, Grows

-----------------------------------------------------------------------------
(* Types                                                                     *)

LEMMA TypeInit == Init => TypeOK
<1> SUFFICES ASSUME Init PROVE TypeOK
  OBVIOUS
<1>1. env \in Contents
  BY InstallationAssumption DEF Init, Contents
<1>2. \A d \in Databases : [NewBase EXCEPT !.migrated = (d = Default)] \in Bases
  BY DEF NewBase, Bases, Tenants
<1>3. job \in [Workers -> Jobs \cup {Idle}] /\ settings \in [Workers -> Databases]
  BY InstallationAssumption DEF Init
<1>4. base \in [Databases -> Bases]
  BY <1>2 DEF Init
<1>5. faults \in 0 .. MaxFaults
  BY InstallationAssumption DEF Init
<1> QED
  BY <1>1, <1>3, <1>4, <1>5 DEF Init, TypeOK

\* The worker's job becomes j and the others keep theirs.
Becomes(w, j) ==
    /\ job'[w] = j
    /\ \A q \in Workers \ {w} : job'[q] = job[q]
    /\ job' \in [Workers -> Jobs \cup {Idle}]

LEMMA JobUpdate ==
    ASSUME TypeOK, NEW w \in Workers, NEW j \in Jobs \cup {Idle}, job' = [job EXCEPT ![w] = j]
    PROVE  Becomes(w, j)
BY DEF TypeOK, Becomes

LEMMA GotoShape ==
    ASSUME TypeOK, NEW w \in Workers, job[w].pc # "idle", NEW x \in Pcs \ {"idle"}, Goto(w, x)
    PROVE  Becomes(w, [job[w] EXCEPT !.pc = x])
<1>1. job[w] \in Jobs
  BY BusyIsJob
<1>2. [job[w] EXCEPT !.pc = x] \in Jobs
  BY <1>1, JobPc
<1>3. job' = [job EXCEPT ![w] = [job[w] EXCEPT !.pc = x]]
  BY DEF Goto
<1> QED
  BY <1>2, <1>3, JobUpdate

LEMMA DoneShape ==
    ASSUME TypeOK, NEW w \in Workers, Done(w)
    PROVE  Becomes(w, Idle)
BY JobUpdate DEF Done

LEMMA FailShape ==
    ASSUME TypeOK, Fail
    PROVE  faults' \in 0 .. MaxFaults
BY InstallationAssumption DEF TypeOK, Fail

\* The databases: that of d becomes b.
Stores(d, b) ==
    /\ base'[d] = b
    /\ \A e \in Databases \ {d} : base'[e] = base[e]
    /\ base' \in [Databases -> Bases]

LEMMA StoreUpdate ==
    ASSUME TypeOK, NEW d \in Databases, NEW b \in Bases, base' = [base EXCEPT ![d] = b]
    PROVE  Stores(d, b)
BY DEF TypeOK, Stores

-----------------------------------------------------------------------------
(* What each action does to the jobs and the databases.                      *)

\* The base of one database may grow, the job of one worker moves on, and the
\* others at most see a file renamed.
Shape(w) ==
    /\ job' \in [Workers -> Jobs \cup {Idle}]
    /\ base' \in [Databases -> Bases]
    /\ \A q \in Workers \ {w} : SameButFile(job'[q], job[q]) /\ settings'[q] = settings[q]
    /\ \A d \in Databases : Grows(base[d], base'[d])

LEMMA SameIsSame == \A j \in Jobs \cup {Idle} : SameButFile(j, j)
BY DEF SameButFile

LEMMA GrowsSelf == TypeOK => \A d \in Databases : Grows(base[d], base[d])
BY DEF TypeOK, Grows

LEMMA ShapeOf ==
    ASSUME TypeOK, NEW w \in Workers, NEW j, Becomes(w, j),
           \A q \in Workers \ {w} : settings'[q] = settings[q], UNCHANGED base
    PROVE  Shape(w)
BY SameIsSame, GrowsSelf DEF Shape, Becomes, TypeOK

LEMMA ShapeOfStore ==
    ASSUME TypeOK, NEW w \in Workers, NEW j, Becomes(w, j),
           \A q \in Workers \ {w} : settings'[q] = settings[q],
           NEW d \in Databases, NEW b \in Bases, Stores(d, b), Grows(base[d], b)
    PROVE  Shape(w)
BY SameIsSame, GrowsSelf DEF Shape, Becomes, Stores, TypeOK

Good(w) == TypeOK' /\ JobsGood' /\ Shape(w)

LEMMA GoodStep ==
    ASSUME TypeOK, JobsGood, NEW w \in Workers, Shape(w), TypeOK',
           job'[w] # Idle => JobGood(job'[w], base'[settings'[w]])
    PROVE  Good(w)
<1> SUFFICES ASSUME NEW q \in Workers, q # w, job'[q] # Idle
             PROVE  JobGood(job'[q], base'[settings'[q]])
  BY DEF Good, JobsGood
<1>1. job[q] # Idle /\ SameButFile(job'[q], job[q]) /\ settings'[q] = settings[q]
  BY JobFields DEF Shape, SameButFile
<1>2. JobGood(job[q], base[settings[q]])
  BY <1>1 DEF JobsGood
<1>3. settings[q] \in Databases
  BY DEF TypeOK
<1>4. Grows(base[settings[q]], base'[settings[q]])
  BY <1>3 DEF Shape
<1>5. job'[q].pc = job[q].pc /\ job'[q].kind = job[q].kind /\ job'[q].tenant = job[q].tenant
  BY <1>1 DEF SameButFile
<1>6. ASSUME NEW j, NEW k, NEW b, NEW c, JobGood(k, b), Grows(b, c),
             j.pc = k.pc, j.kind = k.kind, j.tenant = k.tenant
      PROVE  JobGood(j, c)
  BY <1>6 DEF JobGood, Grows
<1> QED
  BY <1>1, <1>2, <1>4, <1>5, <1>6

LEMMA StartGood ==
    ASSUME TypeOK, JobsGood, NEW w \in Workers, NEW k \in Kinds, NEW x \in {"read", "admin"},
           NEW d \in Databases, Start(w, k, x, d),
           x = "read" => k # "admin",
           x = "admin" => k = "admin" /\ base[settings[w]].migrated
    PROVE  Good(w)
<1> DEFINE j == [pc |-> x, kind |-> k, db |-> d, file |-> "none", own |-> FALSE, tenant |-> None]
<1>1. j \in Jobs /\ j.pc = x /\ j.kind = k
  BY NewJob DEF Pcs
<1>2. job' = [job EXCEPT ![w] = j]
  BY DEF Start
<1> HIDE DEF j
<1>3. Becomes(w, j)
  BY <1>1, <1>2, JobUpdate
<1>4. Shape(w)
  BY <1>3, ShapeOf DEF Start
<1>5. TypeOK'
  BY <1>4 DEF Start, TypeOK, Shape
<1>6. JobGood(job'[w], base'[settings'[w]])
  BY <1>1, <1>3 DEF JobGood, Becomes, Start, AfterMigrate, AfterUser, AfterConfig
<1> QED
  BY <1>4, <1>5, <1>6, GoodStep

LEMMA RunMigrationsGood ==
    ASSUME TypeOK, JobsGood, NEW w \in Workers, RunMigrations(w)
    PROVE  Good(w)
<1> DEFINE b == [base[settings[w]] EXCEPT !.migrated = TRUE]
<1>1. settings[w] \in Databases /\ base[settings[w]] \in Bases
  BY DEF TypeOK
<1>2. b \in Bases /\ Grows(base[settings[w]], b)
  BY <1>1, BaseUpdate DEF Grows, Bases
<1>3. base' = [base EXCEPT ![settings[w]] = b]
  BY DEF RunMigrations
<1> HIDE DEF b
<1>4. Stores(settings[w], b)
  BY <1>1, <1>2, <1>3, StoreUpdate
<1>5. Becomes(w, job[w])
  BY DEF Becomes, RunMigrations, TypeOK
<1>6. Shape(w)
  BY <1>1, <1>2, <1>4, <1>5, ShapeOfStore DEF RunMigrations
<1>7. TypeOK'
  BY <1>6 DEF RunMigrations, TypeOK, Shape
<1>8. job'[w] = Idle
  BY DEF RunMigrations
<1> QED
  BY <1>6, <1>7, <1>8, GoodStep

LEMMA KillGood ==
    ASSUME TypeOK, JobsGood, NEW w \in Workers, Kill(w)
    PROVE  Good(w)
<1>1. Becomes(w, Idle)
  BY JobUpdate DEF Kill
<1>2. PICK d \in {Default, env.db} \ {None} : settings' = [settings EXCEPT ![w] = d]
  BY DEF Kill
<1>3. d \in Databases
  BY InstallationAssumption DEF TypeOK, Contents
<1>4. settings' \in [Workers -> Databases] /\ \A q \in Workers \ {w} : settings'[q] = settings[q]
  BY <1>2, <1>3 DEF TypeOK
<1>5. Shape(w)
  BY <1>1, <1>4, ShapeOf DEF Kill
<1>6. faults' \in 0 .. MaxFaults
  BY InstallationAssumption DEF TypeOK, Kill
<1>7. spoiled' \in BOOLEAN
  BY DEF TypeOK, Kill
<1>8. TypeOK'
  BY <1>4, <1>5, <1>6, <1>7 DEF Kill, TypeOK, Shape
<1> QED
  BY <1>1, <1>5, <1>8, GoodStep DEF Becomes

-----------------------------------------------------------------------------
(* update_env_file                                                           *)

LEMMA ReadEnvGood ==
    ASSUME TypeOK, JobsGood, NEW w \in Workers, ReadEnv(w)
    PROVE  Good(w)
<1> DEFINE j == [job[w] EXCEPT !.own = env.own, !.pc = "open"]
<1>1. job[w] \in Jobs /\ job[w].pc = "read" /\ JobGood(job[w], base[settings[w]])
  BY BusyIsJob DEF ReadEnv, JobsGood
<1>2. j \in Jobs
  BY <1>1, JobOwnPc DEF TypeOK, Contents, Pcs
<1>3. j.pc = "open" /\ j.kind = job[w].kind
  BY <1>1 DEF Jobs
<1>4. job' = [job EXCEPT ![w] = j]
  BY DEF ReadEnv
<1> HIDE DEF j
<1>5. Becomes(w, j)
  BY <1>2, <1>4, JobUpdate
<1>6. Shape(w)
  BY <1>5, ShapeOf DEF ReadEnv, others
<1>7. TypeOK'
  BY <1>6 DEF ReadEnv, others, files, TypeOK, Shape
<1>8. JobGood(job'[w], base'[settings'[w]])
  BY <1>1, <1>3, <1>5 DEF JobGood, Becomes, AfterMigrate, AfterUser, AfterConfig
<1> QED
  BY <1>6, <1>7, <1>8, GoodStep

LEMMA OpenTmpGood ==
    ASSUME TypeOK, JobsGood, NEW w \in Workers, OpenTmp(w)
    PROVE  Good(w)
<1> DEFINE j == [job[w] EXCEPT !.file = "tmp", !.pc = "flush"]
<1>1. job[w] \in Jobs /\ job[w].pc = "open" /\ JobGood(job[w], base[settings[w]])
  BY BusyIsJob DEF OpenTmp, JobsGood
<1>2. j \in Jobs
  BY <1>1, JobFilePc DEF Pcs
<1>3. j.pc = "flush" /\ j.kind = job[w].kind
  BY <1>1 DEF Jobs
<1>4. job' = [job EXCEPT ![w] = j]
  BY DEF OpenTmp
<1> HIDE DEF j
<1>5. Becomes(w, j)
  BY <1>2, <1>4, JobUpdate
<1>6. Shape(w)
  BY <1>5, ShapeOf DEF OpenTmp, others
<1>7. TypeOK'
  BY <1>6, EmptyIsContents DEF OpenTmp, others, TypeOK, Shape
<1>8. JobGood(job'[w], base'[settings'[w]])
  BY <1>1, <1>3, <1>5 DEF JobGood, Becomes, AfterMigrate, AfterUser, AfterConfig
<1> QED
  BY <1>6, <1>7, <1>8, GoodStep

LEMMA CloseTmpGood ==
    ASSUME TypeOK, JobsGood, NEW w \in Workers, CloseTmp(w)
    PROVE  Good(w)
<1> DEFINE j == [job[w] EXCEPT !.file = "none", !.pc = "replace"]
<1>1. job[w] \in Jobs /\ job[w].pc = "flush" /\ JobGood(job[w], base[settings[w]])
  BY BusyIsJob DEF CloseTmp, JobsGood
<1>2. j \in Jobs
  BY <1>1, JobFilePc DEF Pcs
<1>3. j.pc = "replace" /\ j.kind = job[w].kind
  BY <1>1 DEF Jobs
<1>4. job' = [job EXCEPT ![w] = j]
  BY DEF CloseTmp
<1> HIDE DEF j
<1>5. Becomes(w, j)
  BY <1>2, <1>4, JobUpdate
<1>6. Shape(w)
  BY <1>5, ShapeOf DEF CloseTmp, others
<1>7. tmp' \in Contents \cup {None} /\ env' \in Contents
  BY <1>1, WrittenIsContents DEF CloseTmp, TypeOK
<1>8. TypeOK'
  BY <1>6, <1>7 DEF CloseTmp, others, TypeOK, Shape
<1>9. JobGood(job'[w], base'[settings'[w]])
  BY <1>1, <1>3, <1>5 DEF JobGood, Becomes, AfterMigrate, AfterUser, AfterConfig
<1> QED
  BY <1>6, <1>8, <1>9, GoodStep

LEMMA WriteFailsGood ==
    ASSUME TypeOK, JobsGood, NEW w \in Workers, WriteFails(w)
    PROVE  Good(w)
<1> DEFINE j == [job[w] EXCEPT !.file = "none", !.pc = "clean"]
<1>1. job[w] \in Jobs /\ job[w].pc = "flush" /\ JobGood(job[w], base[settings[w]])
  BY BusyIsJob DEF WriteFails, JobsGood
<1>2. j \in Jobs
  BY <1>1, JobFilePc DEF Pcs
<1>3. j.pc = "clean" /\ j.kind = job[w].kind
  BY <1>1 DEF Jobs
<1>4. job' = [job EXCEPT ![w] = j]
  BY DEF WriteFails
<1> HIDE DEF j
<1>5. Becomes(w, j)
  BY <1>2, <1>4, JobUpdate
<1>6. Shape(w)
  BY <1>5, ShapeOf DEF WriteFails, others
<1>7. faults' \in 0 .. MaxFaults
  BY FailShape DEF WriteFails
<1>8. TypeOK'
  BY <1>6, <1>7 DEF WriteFails, others, TypeOK, Shape
<1>9. JobGood(job'[w], base'[settings'[w]])
  BY <1>1, <1>3, <1>5 DEF JobGood, Becomes, AfterMigrate, AfterUser, AfterConfig
<1> QED
  BY <1>6, <1>8, <1>9, GoodStep

Followers == {[tmp |-> "env", env |-> "gone"], [tmp |-> "gone"]}

\* A rename: the worker's job becomes j and the others follow their files.
LEMMA ShapeOfRename ==
    ASSUME TypeOK, NEW w \in Workers, NEW j \in Jobs \cup {Idle}, NEW f \in Followers,
           job' = [[q \in Workers |-> Renamed(job[q], f)] EXCEPT ![w] = j],
           UNCHANGED <<settings, base>>
    PROVE  Shape(w) /\ job'[w] = j
<1>1. \A q \in Workers : Renamed(job[q], f) \in Jobs \cup {Idle} /\ SameButFile(Renamed(job[q], f), job[q])
  BY RenamedJob DEF TypeOK, Followers
<1> HIDE DEF Followers
<1>2. job' \in [Workers -> Jobs \cup {Idle}] /\ job'[w] = j
  BY <1>1
<1>3. \A q \in Workers \ {w} : job'[q] = Renamed(job[q], f)
  BY <1>1
<1> QED
  BY <1>1, <1>2, <1>3, GrowsSelf DEF Shape, TypeOK

LEMMA CleanUpGood ==
    ASSUME TypeOK, JobsGood, NEW w \in Workers, CleanUp(w)
    PROVE  Good(w)
<1>1. Shape(w) /\ job'[w] = Idle
  BY ShapeOfRename DEF CleanUp, others, Followers
<1>2. TypeOK'
  BY <1>1 DEF CleanUp, others, TypeOK, Shape
<1> QED
  BY <1>1, <1>2, GoodStep

LEMMA ReplaceGood ==
    ASSUME TypeOK, JobsGood, NEW w \in Workers, Replace(w)
    PROVE  Good(w)
<1>1. job[w] \in Jobs /\ job[w].pc = "replace" /\ JobGood(job[w], base[settings[w]])
  BY BusyIsJob DEF Replace, JobsGood
<1>2. CASE tmp = None
  <2> DEFINE j == [job[w] EXCEPT !.pc = "clean"]
  <2>1. Becomes(w, j)
    BY <1>1, <1>2, GotoShape DEF Replace, Pcs
  <2>2. j.pc = "clean" /\ j.kind = job[w].kind
    BY <1>1 DEF Jobs
  <2> HIDE DEF j
  <2>3. Shape(w)
    BY <2>1, ShapeOf DEF Replace, others
  <2>4. TypeOK'
    BY <1>2, <2>3 DEF Replace, others, TypeOK, Shape
  <2>5. JobGood(job'[w], base'[settings'[w]])
    BY <1>1, <2>1, <2>2 DEF JobGood, Becomes, AfterMigrate, AfterUser, AfterConfig
  <2> QED
    BY <2>3, <2>4, <2>5, GoodStep
<1>3. CASE tmp # None
  <2> DEFINE f == [tmp |-> "env", env |-> "gone"]
             x == IF job[w].kind = "install" THEN "migrate" ELSE "lock"
             k == Renamed(job[w], f)
             j == [k EXCEPT !.own = FALSE, !.pc = x]
  <2>1. f \in Followers
    BY DEF Followers
  <2>2. k \in Jobs /\ k.kind = job[w].kind
    BY <1>1, JobFields, RenamedJob DEF SameButFile
  <2>3. j \in Jobs /\ j.pc = x /\ j.kind = job[w].kind
    <3> HIDE DEF k
    <3>1. j \in Jobs
      BY <2>2, JobOwnPc DEF Pcs
    <3> QED BY <2>2, <3>1 DEF Jobs
  <2>4. job' = [[q \in Workers |-> Renamed(job[q], f)] EXCEPT ![w] = j]
    BY <1>3 DEF Replace
  <2>5. Shape(w) /\ job'[w] = j
    <3> HIDE DEF j, f
    <3> QED
      BY <2>1, <2>3, <2>4, ShapeOfRename DEF Replace, others
  <2> HIDE DEF j, f, k
  <2>6. TypeOK'
    BY <1>3, <2>5 DEF Replace, others, TypeOK, Shape
  <2>7. JobGood(job'[w], base'[settings'[w]])
    BY <1>1, <2>3, <2>5, JobFields DEF JobGood, AfterMigrate, AfterUser, AfterConfig, Kinds
  <2> QED
    BY <2>5, <2>6, <2>7, GoodStep
<1> QED
  BY <1>2, <1>3

-----------------------------------------------------------------------------
(* install() after the file                                                  *)

LEMMA MigrateGood ==
    ASSUME TypeOK, JobsGood, NEW w \in Workers, Migrate(w)
    PROVE  Good(w)
<1> DEFINE d == job[w].db
           b == [base[d] EXCEPT !.migrated = TRUE]
<1>1. job[w] \in Jobs /\ job[w].pc = "migrate" /\ JobGood(job[w], base[settings[w]])
  BY BusyIsJob DEF Migrate, JobsGood
<1>2. d \in Databases /\ base[d] \in Bases
  BY <1>1, JobFields DEF TypeOK
<1>3. b \in Bases /\ b.migrated
  BY <1>2, BaseUpdate DEF Bases
<1>4. Grows(base[d], b)
  BY <1>2 DEF Grows, Bases
<1>5. /\ settings' \in [Workers -> Databases] /\ settings'[w] = d
      /\ \A q \in Workers \ {w} : settings'[q] = settings[q]
  BY <1>2 DEF Migrate, TypeOK
<1>6. CASE base' = [base EXCEPT ![d] = b] /\ Goto(w, "admin") /\ UNCHANGED faults
  <2>1. Becomes(w, [job[w] EXCEPT !.pc = "admin"])
    BY <1>1, <1>6, GotoShape DEF Pcs
  <2>2. [job[w] EXCEPT !.pc = "admin"].pc = "admin" /\ [job[w] EXCEPT !.pc = "admin"].kind = job[w].kind
    BY <1>1 DEF Jobs
  <2> HIDE DEF b, d
  <2>3. Stores(d, b)
    BY <1>2, <1>3, <1>6, StoreUpdate
  <2>4. Shape(w)
    BY <1>2, <1>3, <1>4, <1>5, <2>1, <2>3, ShapeOfStore
  <2>5. TypeOK'
    BY <1>5, <1>6, <2>4 DEF Migrate, files, TypeOK, Shape
  <2>6. JobGood(job'[w], base'[settings'[w]])
    BY <1>1, <1>3, <1>5, <2>1, <2>2, <2>3
    DEF JobGood, Becomes, Stores, AfterMigrate, AfterUser, AfterConfig
  <2> QED
    BY <2>4, <2>5, <2>6, GoodStep
<1>7. CASE Fail /\ Done(w) /\ UNCHANGED base
  <2>1. Becomes(w, Idle)
    BY <1>7, DoneShape
  <2>2. Shape(w)
    BY <1>5, <1>7, <2>1, ShapeOf
  <2>3. faults' \in 0 .. MaxFaults
    BY <1>7, FailShape
  <2>4. TypeOK'
    BY <1>5, <2>2, <2>3 DEF Migrate, files, TypeOK, Shape
  <2> QED
    BY <2>1, <2>2, <2>4, GoodStep DEF Becomes
<1> QED
  BY <1>6, <1>7 DEF Migrate

LEMMA DatabaseFailsGood ==
    ASSUME TypeOK, JobsGood, NEW w \in Workers, DatabaseFails(w)
    PROVE  Good(w)
<1>1. Becomes(w, Idle)
  BY DoneShape DEF DatabaseFails
<1>2. Shape(w)
  BY <1>1, ShapeOf DEF DatabaseFails
<1>3. faults' \in 0 .. MaxFaults
  BY FailShape DEF DatabaseFails
<1>4. TypeOK'
  BY <1>2, <1>3 DEF DatabaseFails, files, TypeOK, Shape
<1> QED
  BY <1>1, <1>2, <1>4, GoodStep DEF Becomes

LEMMA LookUpUserGood ==
    ASSUME TypeOK, JobsGood, NEW w \in Workers, LookUpUser(w)
    PROVE  Good(w)
<1> DEFINE b == base[settings[w]]
           x == IF b.admin THEN "tenant" ELSE "create"
           j == [job[w] EXCEPT !.pc = x]
<1>1. job[w] \in Jobs /\ job[w].pc = "admin" /\ JobGood(job[w], b)
  BY BusyIsJob DEF LookUpUser, JobsGood
<1>2. Becomes(w, j)
  BY <1>1, GotoShape DEF LookUpUser, Pcs
<1>3. j.pc = x /\ j.kind = job[w].kind
  BY <1>1 DEF Jobs
<1> HIDE DEF j
<1>4. Shape(w)
  BY <1>2, ShapeOf DEF LookUpUser
<1>5. TypeOK'
  BY <1>4 DEF LookUpUser, files, TypeOK, Shape
<1>6. job'[w] = j /\ base'[settings'[w]] = b
  BY <1>2 DEF Becomes, LookUpUser
<1>7. JobGood(j, b)
  BY <1>1, <1>3, JobFields DEF JobGood, AfterMigrate, AfterUser, AfterConfig, Kinds
<1> QED
  BY <1>4, <1>5, <1>6, <1>7, GoodStep

LEMMA CreateUserGood ==
    ASSUME TypeOK, JobsGood, NEW w \in Workers, CreateUser(w)
    PROVE  Good(w)
<1> DEFINE d == settings[w]
           b == [base[d] EXCEPT !.admin = TRUE]
           j == [job[w] EXCEPT !.pc = "tenant"]
<1>1. job[w] \in Jobs /\ job[w].pc = "create" /\ JobGood(job[w], base[d])
  BY BusyIsJob DEF CreateUser, JobsGood
<1>2. d \in Databases /\ base[d] \in Bases
  BY DEF TypeOK
<1>3. CASE base[d].admin
  <2>1. Becomes(w, Idle)
    BY <1>3, DoneShape DEF CreateUser
  <2>2. Shape(w)
    BY <1>3, <2>1, ShapeOf DEF CreateUser
  <2>3. TypeOK'
    BY <2>2 DEF CreateUser, files, TypeOK, Shape
  <2> QED
    BY <2>1, <2>2, <2>3, GoodStep DEF Becomes
<1>4. CASE ~base[d].admin
  <2>1. b \in Bases /\ b.admin /\ b.migrated = base[d].migrated /\ Grows(base[d], b)
    BY <1>2, BaseUpdate DEF Bases, Grows
  <2>2. j.pc = "tenant" /\ j.kind = job[w].kind
    BY <1>1 DEF Jobs
  <2>3. Becomes(w, j)
    BY <1>1, <1>4, GotoShape DEF CreateUser, Pcs
  <2>4. base' = [base EXCEPT ![d] = b]
    BY <1>4 DEF CreateUser
  <2> HIDE DEF b, j
  <2>5. Stores(d, b)
    BY <1>2, <2>1, <2>4, StoreUpdate
  <2>6. Shape(w)
    BY <1>2, <2>1, <2>3, <2>5, ShapeOfStore DEF CreateUser
  <2>7. TypeOK'
    BY <2>6 DEF CreateUser, files, TypeOK, Shape
  <2>8. job'[w] = j /\ base'[settings'[w]] = b
    BY <2>3, <2>5 DEF Becomes, Stores, CreateUser
  <2>9. JobGood(j, b)
    BY <1>1, <2>1, <2>2, JobFields DEF JobGood, AfterMigrate, AfterUser, AfterConfig, Kinds
  <2> QED
    BY <2>6, <2>7, <2>8, <2>9, GoodStep
<1> QED
  BY <1>3, <1>4

LEMMA FindTenantGood ==
    ASSUME TypeOK, JobsGood, NEW w \in Workers, FindTenant(w)
    PROVE  Good(w)
<1> DEFINE b == base[settings[w]]
           t == IF b.config # None THEN b.config ELSE w
           x == IF b.config # None THEN "user" ELSE "config"
           j == [job[w] EXCEPT !.tenant = t, !.pc = x]
<1>1. job[w] \in Jobs /\ job[w].pc = "tenant" /\ JobGood(job[w], b)
  BY BusyIsJob DEF FindTenant, JobsGood
<1>2. b \in Bases
  BY DEF TypeOK
<1>3. t \in Tenants /\ t # None
  BY <1>2, InstallationAssumption DEF Bases, Tenants
<1>4. j \in Jobs /\ j.pc = x /\ j.tenant = t /\ j.kind = job[w].kind
  BY <1>1, <1>3, JobTenantPc DEF Pcs, Jobs
<1>5. job' = [job EXCEPT ![w] = j]
  BY DEF FindTenant
<1> HIDE DEF j, t
<1>6. Becomes(w, j)
  BY <1>4, <1>5, JobUpdate
<1>7. Shape(w)
  BY <1>6, ShapeOf DEF FindTenant
<1>8. TypeOK'
  BY <1>7 DEF FindTenant, files, TypeOK, Shape
<1>9. job'[w] = j /\ base'[settings'[w]] = b
  BY <1>6 DEF Becomes, FindTenant
<1>10. JobGood(j, b)
  BY <1>1, <1>3, <1>4, JobFields DEF JobGood, AfterMigrate, AfterUser, AfterConfig, Kinds
<1> QED
  BY <1>7, <1>8, <1>9, <1>10, GoodStep

LEMMA SaveConfigGood ==
    ASSUME TypeOK, JobsGood, NEW w \in Workers, SaveConfig(w)
    PROVE  Good(w)
<1> DEFINE d == settings[w]
           b == [base[d] EXCEPT !.config = job[w].tenant]
           j == [job[w] EXCEPT !.pc = "user"]
<1>1. job[w] \in Jobs /\ job[w].pc = "config" /\ JobGood(job[w], base[d])
  BY BusyIsJob DEF SaveConfig, JobsGood
<1>2. d \in Databases /\ base[d] \in Bases
  BY DEF TypeOK
<1>3. job[w].tenant \in Tenants /\ job[w].tenant # None
  BY <1>1, JobFields DEF JobGood
<1>4. b \in Bases
  BY <1>2, <1>3, BaseUpdate
<1>5. /\ b.config # None /\ b.migrated = base[d].migrated /\ b.admin = base[d].admin
      /\ Grows(base[d], b)
  BY <1>2, <1>3 DEF Bases, Grows
<1>6. j.pc = "user" /\ j.kind = job[w].kind /\ j.tenant = job[w].tenant
  BY <1>1 DEF Jobs
<1>7. Becomes(w, j)
  BY <1>1, GotoShape DEF SaveConfig, Pcs
<1>8. base' = [base EXCEPT ![d] = b]
  BY DEF SaveConfig
<1> HIDE DEF b, j
<1>9. Stores(d, b)
  BY <1>2, <1>4, <1>8, StoreUpdate
<1>10. Shape(w)
  BY <1>2, <1>4, <1>5, <1>7, <1>9, ShapeOfStore DEF SaveConfig
<1>11. TypeOK'
  BY <1>10 DEF SaveConfig, files, TypeOK, Shape
<1>12. job'[w] = j /\ base'[settings'[w]] = b
  BY <1>7, <1>9 DEF Becomes, Stores, SaveConfig
<1>13. JobGood(j, b)
  BY <1>1, <1>3, <1>5, <1>6, JobFields DEF JobGood, AfterMigrate, AfterUser, AfterConfig, Kinds
<1> QED
  BY <1>10, <1>11, <1>12, <1>13, GoodStep

LEMMA SaveUserGood ==
    ASSUME TypeOK, JobsGood, NEW w \in Workers, SaveUser(w)
    PROVE  Good(w)
<1> DEFINE d == settings[w]
           b == [base[d] EXCEPT !.adminTenant = job[w].tenant]
           k == [job[w] EXCEPT !.tenant = None, !.pc = "licence"]
           j == IF job[w].kind = "install" THEN k ELSE Idle
<1>1. job[w] \in Jobs /\ job[w].pc = "user" /\ JobGood(job[w], base[d])
  BY BusyIsJob DEF SaveUser, JobsGood
<1>2. d \in Databases /\ base[d] \in Bases /\ job[w].tenant \in Tenants
  BY <1>1, JobFields DEF TypeOK
<1>3. b \in Bases
  BY <1>2, BaseUpdate
<1>4. /\ b.config = base[d].config /\ b.migrated = base[d].migrated
      /\ b.admin = base[d].admin /\ Grows(base[d], b)
  BY <1>2 DEF Bases, Grows
<1>5. k \in Jobs /\ k.pc = "licence" /\ k.kind = job[w].kind
  BY <1>1, JobTenantPc DEF Jobs, Pcs, Tenants
<1>6. job' = [job EXCEPT ![w] = j]
  BY DEF SaveUser
<1>7. base' = [base EXCEPT ![d] = b]
  BY DEF SaveUser
<1> HIDE DEF b, k
<1>8. Becomes(w, j)
  BY <1>5, <1>6, JobUpdate
<1>9. Stores(d, b)
  BY <1>2, <1>3, <1>7, StoreUpdate
<1>10. Shape(w)
  BY <1>2, <1>3, <1>4, <1>8, <1>9, ShapeOfStore DEF SaveUser
<1>11. TypeOK'
  BY <1>10 DEF SaveUser, files, TypeOK, Shape
<1>12. job'[w] = j /\ base'[settings'[w]] = b
  BY <1>8, <1>9 DEF Becomes, Stores, SaveUser
<1>13. job[w].kind = "install" => JobGood(k, b)
  BY <1>1, <1>4, <1>5 DEF JobGood, AfterMigrate, AfterUser, AfterConfig
<1> QED
  BY <1>10, <1>11, <1>12, <1>13, GoodStep

LEMMA ActivateLicenceGood ==
    ASSUME TypeOK, JobsGood, NEW w \in Workers, ActivateLicence(w)
    PROVE  Good(w)
<1> DEFINE d == settings[w]
           b(x) == [base[d] EXCEPT !.licensed = x]
           j == [job[w] EXCEPT !.pc = "lock"]
<1>1. job[w] \in Jobs /\ job[w].pc = "licence" /\ JobGood(job[w], base[d])
  BY BusyIsJob DEF ActivateLicence, JobsGood
<1>2. d \in Databases /\ base[d] \in Bases
  BY DEF TypeOK
<1>3. \A x \in BOOLEAN : /\ b(x) \in Bases /\ Grows(base[d], b(x))
                         /\ b(x).config = base[d].config /\ b(x).migrated = base[d].migrated
                         /\ b(x).admin = base[d].admin
  BY <1>2, BaseUpdate DEF Bases, Grows
<1>4. CASE base' = [base EXCEPT ![d] = b(TRUE)] /\ Goto(w, "lock") /\ UNCHANGED faults
  <2>1. j.pc = "lock" /\ j.kind = job[w].kind
    BY <1>1 DEF Jobs
  <2>2. Becomes(w, j)
    BY <1>1, <1>4, GotoShape DEF Pcs
  <2> DEFINE c == b(TRUE)
  <2>3. c \in Bases /\ Grows(base[d], c) /\ c.config = base[d].config
        /\ c.migrated = base[d].migrated /\ c.admin = base[d].admin
    BY <1>3
  <2>4. base' = [base EXCEPT ![d] = c]
    BY <1>4
  <2> HIDE DEF c, j, b
  <2>5. Stores(d, c)
    BY <1>2, <2>3, <2>4, StoreUpdate
  <2>6. Shape(w)
    BY <1>2, <2>2, <2>3, <2>5, ShapeOfStore DEF ActivateLicence
  <2>7. TypeOK'
    BY <1>4, <2>6 DEF ActivateLicence, files, TypeOK, Shape
  <2>8. job'[w] = j /\ base'[settings'[w]] = c
    BY <2>2, <2>5 DEF Becomes, Stores, ActivateLicence
  <2>9. JobGood(j, c)
    BY <1>1, <2>1, <2>3 DEF JobGood, AfterMigrate, AfterUser, AfterConfig
  <2> QED
    BY <2>6, <2>7, <2>8, <2>9, GoodStep
<1>5. CASE base' = [base EXCEPT ![d] = b(FALSE)] /\ Fail /\ Done(w)
  <2>1. Becomes(w, Idle)
    BY <1>5, DoneShape
  <2> DEFINE c == b(FALSE)
  <2>2. c \in Bases /\ Grows(base[d], c)
    BY <1>3
  <2>3. base' = [base EXCEPT ![d] = c]
    BY <1>5
  <2> HIDE DEF c, b
  <2>4. Stores(d, c)
    BY <1>2, <2>2, <2>3, StoreUpdate
  <2>5. Shape(w)
    BY <1>2, <2>1, <2>2, <2>4, ShapeOfStore DEF ActivateLicence
  <2>6. faults' \in 0 .. MaxFaults
    BY <1>5, FailShape
  <2>7. TypeOK'
    BY <2>5, <2>6 DEF ActivateLicence, files, TypeOK, Shape
  <2> QED
    BY <2>1, <2>5, <2>7, GoodStep DEF Becomes
<1> QED
  BY <1>4, <1>5 DEF ActivateLicence

LEMMA MarkInstalledGood ==
    ASSUME TypeOK, JobsGood, NEW w \in Workers, MarkInstalled(w)
    PROVE  Good(w)
<1>1. Becomes(w, Idle)
  BY DoneShape DEF MarkInstalled
<1>2. Shape(w)
  BY <1>1, ShapeOf DEF MarkInstalled
<1>3. faults' \in 0 .. MaxFaults
  BY FailShape DEF MarkInstalled, TypeOK
<1>4. lock' \in Databases \cup {"no", "finalize"}
  BY DEF MarkInstalled, TypeOK
<1>5. TypeOK'
  BY <1>2, <1>3, <1>4 DEF MarkInstalled, files, TypeOK, Shape
<1> QED
  BY <1>1, <1>2, <1>5, GoodStep DEF Becomes

-----------------------------------------------------------------------------
(* Every step is one of a worker.                                            *)

Step(w) ==
    \/ \E d \in Databases : Install(w, d) \/ Finalize(w, d)
    \/ CreateAdmin(w) \/ RunMigrations(w) \/ Kill(w) \/ Handler(w)

LEMMA NextIsStep == Next <=> \E w \in Workers : Step(w)
BY DEF Next, Installs, Step

LEMMA StepGood ==
    ASSUME TypeOK, JobsGood, NEW w \in Workers, Step(w)
    PROVE  Good(w)
<1>1. ASSUME NEW d \in Databases, Install(w, d) PROVE Good(w)
  BY <1>1, StartGood DEF Install, Kinds
<1>2. ASSUME NEW d \in Databases, Finalize(w, d) PROVE Good(w)
  BY <1>2, StartGood DEF Finalize, Kinds
<1>3. CASE CreateAdmin(w)
  <2>1. settings[w] \in Databases
    BY DEF TypeOK
  <2> QED
    BY <1>3, <2>1, StartGood DEF CreateAdmin, Kinds
<1>4. CASE RunMigrations(w) \/ Kill(w)
  BY <1>4, RunMigrationsGood, KillGood
<1>5. CASE WriteEnv(w)
  BY <1>5, ReadEnvGood, OpenTmpGood, CloseTmpGood, WriteFailsGood, ReplaceGood, CleanUpGood
  DEF WriteEnv
<1>6. CASE Provision(w)
  BY <1>6, MigrateGood, LookUpUserGood, CreateUserGood, FindTenantGood, SaveConfigGood,
     SaveUserGood, DatabaseFailsGood, ActivateLicenceGood, MarkInstalledGood DEF Provision
<1> QED
  BY <1>1, <1>2, <1>3, <1>4, <1>5, <1>6 DEF Step, Handler

-----------------------------------------------------------------------------
(* The lock                                                                  *)

LEMMA LockKept ==
    ASSUME NEW w \in Workers, Step(w), ~MarkInstalled(w)
    PROVE  lock' = lock
BY DEF Step, Install, Finalize, CreateAdmin, Start, RunMigrations, Kill, Handler, WriteEnv,
       Provision, ReadEnv, OpenTmp, CloseTmp, WriteFails, Replace, CleanUp, Migrate, LookUpUser,
       CreateUser, FindTenant, SaveConfig, SaveUser, DatabaseFails, ActivateLicence, others

LEMMA ProvisionedStep ==
    ASSUME TypeOK, JobsGood, InstalledIsProvisioned, NEW w \in Workers, Step(w)
    PROVE  InstalledIsProvisioned'
<1>1. Shape(w)
  BY StepGood DEF Good
<1>2. ASSUME lock' = lock
      PROVE  InstalledIsProvisioned'
  BY <1>1, <1>2 DEF InstalledIsProvisioned, Shape, Grows
<1>3. CASE MarkInstalled(w) /\ lock' # lock
  <2>1. job[w] \in Jobs /\ job[w].pc = "lock" /\ JobGood(job[w], base[settings[w]])
    BY <1>3, BusyIsJob DEF MarkInstalled, JobsGood
  <2>2. CASE job[w].kind = "install"
    <3>1. lock' = settings[w] /\ base' = base
      BY <1>3, <2>2 DEF MarkInstalled
    <3> QED
      BY <2>1, <2>2, <3>1 DEF JobGood, InstalledIsProvisioned, AfterMigrate, AfterUser, AfterConfig
  <2>3. CASE job[w].kind # "install"
    <3>1. lock' = "finalize"
      BY <1>3, <2>3 DEF MarkInstalled
    <3> QED
      BY <3>1, InstallationAssumption DEF InstalledIsProvisioned
  <2> QED
    BY <2>2, <2>3
<1> QED
  BY <1>2, <1>3, LockKept

-----------------------------------------------------------------------------
(* The files                                                                 *)

\* A file that is not complete is still being written.
FilesGood ==
    /\ ~spoiled /\ env.db = None => \E w \in Workers : job[w].pc = "flush" /\ job[w].file = "env"
    /\ ~spoiled /\ tmp # None /\ tmp.db = None =>
          \E w \in Workers : job[w].pc = "flush" /\ job[w].file = "tmp"

\* Before two handlers write at one time, the one that does finds its own file.
Writer(j) ==
    /\ j.pc \in {"open", "flush", "replace"} => j.own
    /\ j.pc = "flush" => j.file = "tmp" \/ (j.file = "gone" /\ tmp = None)
    /\ j.pc = "replace" => tmp = None \/ tmp = [db |-> j.db, own |-> j.own]
WritersGood ==
    ~clash => /\ env.db # None /\ env.own
              /\ \A v, w \in Workers : Writing(v) /\ Writing(w) => v = w
              /\ \A w \in Workers : Writer(job[w])

OthersKept(w) == \A q \in Workers \ {w} : job'[q] = job[q]

LEMMA FilesKept ==
    ASSUME FilesGood, WritersGood, NEW w \in Workers, OthersKept(w),
           UNCHANGED <<env, tmp, clash>>, spoiled' = (spoiled \/ job[w].pc = "flush"),
           job'[w].pc \notin {"open", "flush", "replace"}
    PROVE  FilesGood' /\ WritersGood'
<1>1. FilesGood'
  <2>1. CASE spoiled'
    BY <2>1 DEF FilesGood
  <2>2. CASE ~spoiled'
    <3>1. ~spoiled /\ job[w].pc # "flush"
      BY <2>2
    <3> QED
      BY <3>1 DEF FilesGood, OthersKept
  <2> QED
    BY <2>1, <2>2
<1>2. WritersGood'
  <2> SUFFICES ASSUME ~clash' PROVE /\ env'.db # None /\ env'.own
                                    /\ \A v, q \in Workers : Writing(v)' /\ Writing(q)' => v = q
                                    /\ \A q \in Workers : Writer(job[q])'
    BY DEF WritersGood
  <2>1. \A q \in Workers : Writing(q)' => q # w /\ Writing(q)
    BY DEF Writing, OthersKept
  <2>2. \A q \in Workers : Writer(job[q])'
    BY DEF WritersGood, Writer, OthersKept
  <2> QED
    BY <2>1, <2>2 DEF WritersGood
<1> QED
  BY <1>1, <1>2

LEMMA StartFiles ==
    ASSUME TypeOK, FilesGood, WritersGood, NEW w \in Workers, NEW k \in Kinds,
           NEW x \in {"read", "admin"}, NEW d \in Databases, Start(w, k, x, d)
    PROVE  FilesGood' /\ WritersGood'
<1> DEFINE j == [pc |-> x, kind |-> k, db |-> d, file |-> "none", own |-> FALSE, tenant |-> None]
<1>1. j \in Jobs /\ j.pc = x
  BY NewJob DEF Pcs
<1>2. job' = [job EXCEPT ![w] = j]
  BY DEF Start
<1> HIDE DEF j
<1>3. Becomes(w, j)
  BY <1>1, <1>2, JobUpdate
<1>4. job[w].pc # "flush" /\ spoiled \in BOOLEAN
  BY DEF Start, Idle, TypeOK
<1> QED
  BY <1>1, <1>3, <1>4, FilesKept DEF Start, Becomes, OthersKept

LEMMA KillFiles ==
    ASSUME TypeOK, FilesGood, WritersGood, NEW w \in Workers, Kill(w)
    PROVE  FilesGood' /\ WritersGood'
<1>1. Becomes(w, Idle)
  BY JobUpdate DEF Kill
<1>2. job'[w].pc \notin {"open", "flush", "replace"}
  BY <1>1 DEF Becomes, Idle
<1> QED
  BY <1>1, <1>2, FilesKept DEF Kill, Becomes, OthersKept

LEMMA RunMigrationsFiles ==
    ASSUME TypeOK, FilesGood, WritersGood, NEW w \in Workers, RunMigrations(w)
    PROVE  FilesGood' /\ WritersGood'
BY FilesKept DEF RunMigrations, OthersKept, Idle, TypeOK

\* The steps of Provision end in steps of Provision, or none.
LEMMA ProvisionMoves ==
    ASSUME TypeOK, NEW w \in Workers, Provision(w)
    PROVE  /\ OthersKept(w) /\ UNCHANGED files
           /\ job[w].pc # "flush" /\ job[w] \in Jobs /\ job[w] # Idle
           /\ job'[w] = Idle \/ (job'[w] \in Jobs /\ job'[w].pc \in AfterMigrate)
<1>1. job[w] \in Jobs /\ job[w] # Idle /\ job[w].pc # "flush" /\ UNCHANGED files
  BY BusyIsJob DEF Provision, Migrate, LookUpUser, CreateUser, FindTenant, SaveConfig, SaveUser,
                   DatabaseFails, ActivateLicence, MarkInstalled
<1>2. ASSUME NEW x \in AfterMigrate, Goto(w, x)
      PROVE  OthersKept(w) /\ job'[w] \in Jobs /\ job'[w].pc \in AfterMigrate
  <2>1. x \in Pcs \ {"idle"}
    BY DEF AfterMigrate, Pcs
  <2>2. Becomes(w, [job[w] EXCEPT !.pc = x])
    BY <1>1, <1>2, <2>1, GotoShape DEF Jobs
  <2>3. [job[w] EXCEPT !.pc = x].pc = x /\ [job[w] EXCEPT !.pc = x] \in Jobs
    BY <1>1, <2>1, JobPc DEF Jobs
  <2> QED
    BY <2>2, <2>3 DEF Becomes, OthersKept
<1>3. ASSUME Done(w)
      PROVE  OthersKept(w) /\ job'[w] = Idle
  BY <1>3, DoneShape DEF Becomes, OthersKept
<1>4. CASE Migrate(w)
  BY <1>1, <1>2, <1>3, <1>4 DEF Migrate, AfterMigrate
<1>5. CASE LookUpUser(w)
  BY <1>1, <1>2, <1>5 DEF LookUpUser, AfterMigrate
<1>6. CASE CreateUser(w)
  BY <1>1, <1>2, <1>3, <1>6 DEF CreateUser, AfterMigrate
<1>7. CASE FindTenant(w)
  <2> DEFINE b == base[settings[w]]
             t == IF b.config # None THEN b.config ELSE w
             x == IF b.config # None THEN "user" ELSE "config"
             j == [job[w] EXCEPT !.tenant = t, !.pc = x]
  <2>1. t \in Tenants
    BY DEF TypeOK, Bases, Tenants
  <2>2. j \in Jobs /\ j.pc \in AfterMigrate
    BY <1>1, <2>1, JobTenantPc DEF Pcs, Jobs, AfterMigrate
  <2>3. job' = [job EXCEPT ![w] = j]
    BY <1>7 DEF FindTenant
  <2> HIDE DEF j
  <2> QED
    BY <1>1, <2>2, <2>3, JobUpdate DEF Becomes, OthersKept
<1>8. CASE SaveConfig(w)
  BY <1>1, <1>2, <1>8 DEF SaveConfig, AfterMigrate
<1>9. CASE SaveUser(w)
  <2> DEFINE k == [job[w] EXCEPT !.tenant = None, !.pc = "licence"]
             j == IF job[w].kind = "install" THEN k ELSE Idle
  <2>1. k \in Jobs /\ k.pc \in AfterMigrate
    BY <1>1, JobTenantPc DEF Jobs, Pcs, Tenants, AfterMigrate
  <2>2. job' = [job EXCEPT ![w] = j]
    BY <1>9 DEF SaveUser
  <2> HIDE DEF k
  <2> QED
    BY <1>1, <2>1, <2>2, JobUpdate DEF Becomes, OthersKept
<1>10. CASE DatabaseFails(w) \/ MarkInstalled(w)
  BY <1>1, <1>3, <1>10 DEF DatabaseFails, MarkInstalled
<1>11. CASE ActivateLicence(w)
  BY <1>1, <1>2, <1>3, <1>11 DEF ActivateLicence, AfterMigrate
<1> QED
  BY <1>4, <1>5, <1>6, <1>7, <1>8, <1>9, <1>10, <1>11 DEF Provision

LEMMA ProvisionFiles ==
    ASSUME TypeOK, FilesGood, WritersGood, NEW w \in Workers, Provision(w)
    PROVE  FilesGood' /\ WritersGood'
<1>1. job'[w].pc \notin {"open", "flush", "replace"}
  BY ProvisionMoves DEF AfterMigrate, Idle
<1> QED
  BY <1>1, ProvisionMoves, FilesKept DEF files, TypeOK

LEMMA ReadEnvFiles ==
    ASSUME TypeOK, FilesGood, WritersGood, NEW w \in Workers, ReadEnv(w)
    PROVE  FilesGood' /\ WritersGood'
<1> DEFINE j == [job[w] EXCEPT !.own = env.own, !.pc = "open"]
<1>1. job[w] \in Jobs /\ job[w].pc = "read"
  BY BusyIsJob DEF ReadEnv
<1>2. j \in Jobs /\ j.pc = "open" /\ j.own = env.own
  BY <1>1, JobOwnPc DEF TypeOK, Contents, Pcs, Jobs
<1>3. job' = [job EXCEPT ![w] = j]
  BY DEF ReadEnv
<1> HIDE DEF j
<1>4. Becomes(w, j)
  BY <1>2, <1>3, JobUpdate
<1>5. FilesGood'
  BY <1>1, <1>2, <1>4 DEF FilesGood, Becomes, ReadEnv, files
<1>6. WritersGood'
  <2> SUFFICES ASSUME ~clash' PROVE /\ env'.db # None /\ env'.own
                                    /\ \A v, q \in Workers : Writing(v)' /\ Writing(q)' => v = q
                                    /\ \A q \in Workers : Writer(job[q])'
    BY DEF WritersGood
  <2>1. \A q \in Workers : Writing(q)' => Writing(q)
    BY <1>2, <1>4 DEF Writing, Becomes
  <2>2. \A q \in Workers : Writer(job[q])'
    BY <1>2, <1>4 DEF WritersGood, Writer, Becomes, ReadEnv, files
  <2> QED
    BY <2>1, <2>2 DEF WritersGood, ReadEnv, files
<1> QED
  BY <1>5, <1>6

LEMMA OpenTmpFiles ==
    ASSUME TypeOK, FilesGood, WritersGood, NEW w \in Workers, OpenTmp(w)
    PROVE  FilesGood' /\ WritersGood'
<1> DEFINE j == [job[w] EXCEPT !.file = "tmp", !.pc = "flush"]
<1>1. job[w] \in Jobs /\ job[w].pc = "open"
  BY BusyIsJob DEF OpenTmp
<1>2. j \in Jobs /\ j.pc = "flush" /\ j.file = "tmp" /\ j.own = job[w].own
  <2>1. j \in Jobs
    BY <1>1, JobFilePc DEF Pcs
  <2> QED BY <1>1, <2>1 DEF Jobs
<1>3. job' = [job EXCEPT ![w] = j]
  BY DEF OpenTmp
<1> HIDE DEF j
<1>4. Becomes(w, j)
  BY <1>2, <1>3, JobUpdate
<1>5. FilesGood'
  BY <1>1, <1>2, <1>4 DEF FilesGood, Becomes, OpenTmp
<1>6. WritersGood'
  <2> SUFFICES ASSUME ~clash' PROVE /\ env'.db # None /\ env'.own
                                    /\ \A v, q \in Workers : Writing(v)' /\ Writing(q)' => v = q
                                    /\ \A q \in Workers : Writer(job[q])'
    BY DEF WritersGood
  <2>1. ~clash /\ \A q \in Workers : ~Writing(q)
    BY DEF OpenTmp, TypeOK
  <2>2. \A q \in Workers \ {w} : ~Writing(q)' /\ job'[q] = job[q]
    BY <1>4, <2>1 DEF Writing, Becomes
  <2>3. Writer(job[w])'
    BY <1>1, <1>2, <1>4, <2>1 DEF WritersGood, Writer, Becomes
  <2>4. \A q \in Workers \ {w} : Writer(job[q])'
    BY <2>1, <2>2 DEF WritersGood, Writer, Writing
  <2> QED
    BY <2>1, <2>2, <2>3, <2>4 DEF WritersGood, OpenTmp
<1> QED
  BY <1>5, <1>6

LEMMA CloseTmpFiles ==
    ASSUME TypeOK, FilesGood, WritersGood, NEW w \in Workers, CloseTmp(w)
    PROVE  FilesGood' /\ WritersGood'
<1> DEFINE j == [job[w] EXCEPT !.file = "none", !.pc = "replace"]
           written == [db |-> job[w].db, own |-> job[w].own]
<1>1. job[w] \in Jobs /\ job[w].pc = "flush"
  BY BusyIsJob DEF CloseTmp
<1>2. j \in Jobs /\ j.pc = "replace" /\ j.db = job[w].db /\ j.own = job[w].own
  <2>1. j \in Jobs
    BY <1>1, JobFilePc DEF Pcs
  <2> QED BY <1>1, <2>1 DEF Jobs
<1>3. job' = [job EXCEPT ![w] = j]
  BY DEF CloseTmp
<1>4. written.db # None
  BY <1>1, JobFields, InstallationAssumption
<1>5. /\ tmp' = IF job[w].file = "tmp" THEN written ELSE tmp
      /\ env' = IF job[w].file = "env" THEN written ELSE env
      /\ UNCHANGED <<clash, spoiled>>
  BY DEF CloseTmp
<1> HIDE DEF j
<1>6. Becomes(w, j)
  BY <1>2, <1>3, JobUpdate
<1>7. FilesGood'
  BY <1>1, <1>2, <1>4, <1>5, <1>6 DEF FilesGood, Becomes
<1>8. WritersGood'
  <2> SUFFICES ASSUME ~clash' PROVE /\ env'.db # None /\ env'.own
                                    /\ \A v, q \in Workers : Writing(v)' /\ Writing(q)' => v = q
                                    /\ \A q \in Workers : Writer(job[q])'
    BY DEF WritersGood
  <2>1. ~clash /\ Writing(w) /\ Writer(job[w])
    BY <1>1, <1>5 DEF Writing, WritersGood
  <2>2. \A q \in Workers \ {w} : ~Writing(q) /\ ~Writing(q)' /\ job'[q] = job[q]
    BY <1>6, <2>1 DEF WritersGood, Writing, Becomes
  <2>3. env' = env
    BY <1>1, <1>5, <2>1 DEF Writer
  <2>4. Writer(job[w])'
    BY <1>1, <1>2, <1>5, <1>6, <2>1 DEF Writer, Becomes
  <2>5. \A q \in Workers \ {w} : Writer(job[q])'
    BY <2>1, <2>2 DEF WritersGood, Writer, Writing
  <2> QED
    BY <2>1, <2>2, <2>3, <2>4, <2>5 DEF WritersGood
<1> QED
  BY <1>7, <1>8

LEMMA WriteFailsFiles ==
    ASSUME TypeOK, FilesGood, WritersGood, NEW w \in Workers, WriteFails(w)
    PROVE  FilesGood' /\ WritersGood'
<1> DEFINE j == [job[w] EXCEPT !.file = "none", !.pc = "clean"]
<1>1. job[w] \in Jobs /\ job[w].pc = "flush"
  BY BusyIsJob DEF WriteFails
<1>2. j \in Jobs /\ j.pc = "clean"
  <2>1. j \in Jobs
    BY <1>1, JobFilePc DEF Pcs
  <2> QED BY <1>1, <2>1 DEF Jobs
<1>3. job' = [job EXCEPT ![w] = j]
  BY DEF WriteFails
<1> HIDE DEF j
<1>4. Becomes(w, j)
  BY <1>2, <1>3, JobUpdate
<1>5. spoiled' = (spoiled \/ job[w].pc = "flush")
  BY <1>1 DEF WriteFails
<1> QED
  BY <1>2, <1>4, <1>5, FilesKept DEF WriteFails, Becomes, OthersKept

\* What a rename does to another handler.
Followed(j, k, f) ==
    /\ SameButFile(k, j)
    /\ k # Idle => k.file = IF j.file \in DOMAIN f THEN f[j.file] ELSE j.file

LEMMA RenameShape ==
    ASSUME TypeOK, NEW w \in Workers, NEW j, NEW f \in Followers,
           job' = [[q \in Workers |-> Renamed(job[q], f)] EXCEPT ![w] = j]
    PROVE  job'[w] = j /\ \A q \in Workers \ {w} : Followed(job[q], job'[q], f)
<1>1. job'[w] = j /\ \A q \in Workers \ {w} : job'[q] = Renamed(job[q], f)
  OBVIOUS
<1>2. ASSUME NEW k \in Jobs \cup {Idle}
      PROVE  Followed(k, Renamed(k, f), f)
  <2>1. SameButFile(Renamed(k, f), k)
    BY <1>2, RenamedJob DEF Followers
  <2>2. CASE k = Idle
    BY <2>1, <2>2 DEF Followed, Renamed
  <2>3. CASE k \in Jobs
    <3>1. k # Idle
      BY <2>3, JobFields
    <3>2. CASE k.file \notin DOMAIN f
      BY <2>1, <3>1, <3>2 DEF Followed, Renamed
    <3>3. CASE k.file \in DOMAIN f
      <4>1. Renamed(k, f) = [k EXCEPT !.file = f[k.file]]
        BY <3>1, <3>3 DEF Renamed
      <4>2. [k EXCEPT !.file = f[k.file]].file = f[k.file]
        BY <2>3 DEF Jobs
      <4> QED
        BY <2>1, <3>3, <4>1, <4>2 DEF Followed
    <3> QED
      BY <3>2, <3>3
  <2> QED
    BY <2>2, <2>3
<1> QED
  BY <1>1, <1>2 DEF TypeOK

LEMMA CleanUpFiles ==
    ASSUME TypeOK, FilesGood, WritersGood, NEW w \in Workers, CleanUp(w)
    PROVE  FilesGood' /\ WritersGood'
<1> DEFINE f == [tmp |-> "gone"]
<1>0. job[w].pc = "clean" /\ tmp' = None /\ UNCHANGED <<env, clash, spoiled>>
  BY DEF CleanUp
<1>1. job'[w] = Idle /\ \A q \in Workers \ {w} : Followed(job[q], job'[q], f)
  BY RenameShape DEF CleanUp, Followers
<1>a. \A x : (x \in DOMAIN f) <=> x = "tmp"
  OBVIOUS
<1>b. f["tmp"] = "gone"
  OBVIOUS
<1> HIDE DEF f
<1>2. \A q \in Workers \ {w} :
          /\ job'[q].pc = job[q].pc /\ job'[q].own = job[q].own
          /\ job'[q] # Idle /\ job[q].file = "tmp" => job'[q].file = "gone"
          /\ job'[q] # Idle /\ job[q].file # "tmp" => job'[q].file = job[q].file
  <2> TAKE q \in Workers \ {w}
  <2>1. Followed(job[q], job'[q], f)
    BY <1>1
  <2>2. job'[q].pc = job[q].pc /\ job'[q].own = job[q].own
    BY <2>1 DEF Followed, SameButFile
  <2>3. job'[q] # Idle =>
            job'[q].file = IF job[q].file \in DOMAIN f THEN f[job[q].file] ELSE job[q].file
    BY <2>1 DEF Followed
  <2> QED
    BY <2>2, <2>3, <1>a, <1>b
<1>3. \A q \in Workers \ {w} : job'[q].pc = job[q].pc
  BY <1>2
<1>4. FilesGood'
  <2>1. ASSUME ~spoiled', env'.db = None
        PROVE  \E q \in Workers : job'[q].pc = "flush" /\ job'[q].file = "env"
    <3>1. PICK q \in Workers : job[q].pc = "flush" /\ job[q].file = "env"
      BY <1>0, <2>1 DEF FilesGood
    <3>2. q # w /\ job'[q].pc = "flush" /\ job'[q] # Idle
      BY <1>0, <1>3, <3>1 DEF Idle
    <3> QED
      BY <1>2, <3>1, <3>2
  <2> QED
    BY <1>0, <2>1 DEF FilesGood
<1>5. WritersGood'
  <2> SUFFICES ASSUME ~clash' PROVE /\ env'.db # None /\ env'.own
                                    /\ \A v, q \in Workers : Writing(v)' /\ Writing(q)' => v = q
                                    /\ \A q \in Workers : Writer(job[q])'
    BY DEF WritersGood
  <2>1. \A q \in Workers : Writing(q)' => Writing(q)
    BY <1>1, <1>3 DEF Writing, Idle
  <2>2. ASSUME NEW q \in Workers PROVE Writer(job[q])'
    <3>1. CASE job'[q].pc \notin {"open", "flush", "replace"}
      BY <3>1 DEF Writer
    <3>2. CASE job'[q].pc \in {"open", "flush", "replace"}
      <4>1. q # w /\ job'[q] # Idle /\ job'[q].pc = job[q].pc
        BY <1>1, <1>3, <3>2 DEF Idle
      <4>2. Writer(job[q])
        BY <1>0 DEF WritersGood
      <4>3. job'[q].own = job[q].own
        BY <1>2, <4>1
      <4>4. job[q].pc = "flush" => job'[q].file = "gone"
        BY <1>2, <4>1, <4>2 DEF Writer
      <4> QED
        BY <1>0, <4>1, <4>2, <4>3, <4>4 DEF Writer
    <3> QED
      BY <3>1, <3>2
  <2> QED
    BY <1>0, <2>1, <2>2 DEF WritersGood
<1> QED
  BY <1>4, <1>5

LEMMA ReplaceFiles ==
    ASSUME TypeOK, FilesGood, WritersGood, NEW w \in Workers, Replace(w)
    PROVE  FilesGood' /\ WritersGood'
<1>0. job[w] \in Jobs /\ job[w].pc = "replace" /\ UNCHANGED <<clash, spoiled>> /\ spoiled \in BOOLEAN
  BY BusyIsJob DEF Replace, TypeOK
<1>1. CASE tmp = None
  <2>1. Becomes(w, [job[w] EXCEPT !.pc = "clean"])
    BY <1>0, <1>1, GotoShape DEF Replace, Pcs
  <2>2. [job[w] EXCEPT !.pc = "clean"].pc = "clean"
    BY <1>0 DEF Jobs
  <2> QED
    BY <1>0, <1>1, <2>1, <2>2, FilesKept DEF Replace, Becomes, OthersKept
<1>2. CASE tmp # None
  <2> DEFINE f == [tmp |-> "env", env |-> "gone"]
             x == IF job[w].kind = "install" THEN "migrate" ELSE "lock"
             k == Renamed(job[w], f)
             j == [k EXCEPT !.own = FALSE, !.pc = x]
  <2>1. f \in Followers
    BY DEF Followers
  <2>2. k \in Jobs
    BY <1>0, JobFields, RenamedJob DEF SameButFile
  <2>3. j.pc = x
    <3> HIDE DEF k
    <3> QED
      BY <2>2 DEF Jobs
  <2>4. job' = [[q \in Workers |-> Renamed(job[q], f)] EXCEPT ![w] = j]
    BY <1>2 DEF Replace
  <2>5. job'[w] = j /\ \A q \in Workers \ {w} : Followed(job[q], job'[q], f)
    <3> HIDE DEF j, f
    <3> QED
      BY <2>1, <2>4, RenameShape
  <2> HIDE DEF j, k
  <2>6. \A q \in Workers \ {w} :
            /\ \/ job'[q].pc = job[q].pc /\ job'[q].own = job[q].own
               \/ job'[q] = Idle /\ job[q] = Idle
            /\ job'[q] # Idle /\ job[q].file = "tmp" => job'[q].file = "env"
    BY <2>5 DEF Followed, SameButFile
  <2> HIDE DEF f
  <2>7. \A q \in Workers \ {w} : job'[q].pc = job[q].pc
    BY <2>6
  <2>8. env' = tmp /\ tmp' = None
    BY <1>2 DEF Replace
  <2>9. FilesGood'
    <3>1. ASSUME ~spoiled', env'.db = None
          PROVE  \E q \in Workers : job'[q].pc = "flush" /\ job'[q].file = "env"
      <4>1. PICK q \in Workers : job[q].pc = "flush" /\ job[q].file = "tmp"
        BY <1>0, <1>2, <2>8, <3>1 DEF FilesGood
      <4>2. q # w /\ job'[q].pc = "flush" /\ job'[q] # Idle
        BY <1>0, <2>7, <4>1 DEF Idle
      <4> QED
        BY <2>6, <4>1, <4>2
    <3> QED
      BY <2>8, <3>1 DEF FilesGood
  <2>10. WritersGood'
    <3> SUFFICES ASSUME ~clash' PROVE /\ env'.db # None /\ env'.own
                                      /\ \A v, q \in Workers : Writing(v)' /\ Writing(q)' => v = q
                                      /\ \A q \in Workers : Writer(job[q])'
      BY DEF WritersGood
    <3>1. Writing(w) /\ Writer(job[w]) /\ \A q \in Workers : Writing(q) => q = w
      BY <1>0 DEF WritersGood, Writing
    <3>2. tmp = [db |-> job[w].db, own |-> job[w].own] /\ job[w].own
      BY <1>0, <1>2, <3>1 DEF Writer
    <3>3. env'.db # None /\ env'.own
      BY <1>0, <2>8, <3>2, JobFields, InstallationAssumption
    <3>4. \A q \in Workers : ~Writing(q)'
      BY <2>3, <2>5, <2>7, <3>1 DEF Writing
    <3>5. ASSUME NEW q \in Workers, job'[q].pc = "open" PROVE job'[q].own
      <4>1. q # w
        BY <2>3, <2>5, <3>5
      <4>2. job[q].pc = "open" /\ job'[q].own = job[q].own
        BY <2>6, <3>5, <4>1 DEF Idle
      <4> QED
        BY <1>0, <4>2 DEF WritersGood, Writer
    <3>6. \A q \in Workers : Writer(job[q])'
      BY <3>4, <3>5 DEF Writer, Writing
    <3> QED
      BY <3>3, <3>4, <3>6
  <2> QED
    BY <2>9, <2>10
<1> QED
  BY <1>1, <1>2

LEMMA StepFiles ==
    ASSUME TypeOK, FilesGood, WritersGood, NEW w \in Workers, Step(w)
    PROVE  FilesGood' /\ WritersGood'
<1>1. ASSUME NEW d \in Databases, Install(w, d) \/ Finalize(w, d) PROVE FilesGood' /\ WritersGood'
  BY <1>1, StartFiles DEF Install, Finalize, Kinds
<1>2. CASE CreateAdmin(w)
  <2>1. settings[w] \in Databases
    BY DEF TypeOK
  <2> QED
    BY <1>2, <2>1, StartFiles DEF CreateAdmin, Kinds
<1>3. CASE RunMigrations(w) \/ Kill(w)
  BY <1>3, RunMigrationsFiles, KillFiles
<1>4. CASE WriteEnv(w)
  BY <1>4, ReadEnvFiles, OpenTmpFiles, CloseTmpFiles, WriteFailsFiles, ReplaceFiles, CleanUpFiles
  DEF WriteEnv
<1>5. CASE Provision(w)
  BY <1>5, ProvisionFiles
<1> QED
  BY <1>1, <1>2, <1>3, <1>4, <1>5 DEF Step, Handler

LEMMA WholeImplied == FilesGood /\ WritersGood => EnvIsWhole
BY DEF FilesGood, WritersGood, EnvIsWhole

-----------------------------------------------------------------------------
(* One request at a time                                                     *)

\* What a handler that was never overlapped has left for its next steps.
Undisturbed(j, d, b) ==
    /\ j.pc = "flush" => j.file = "tmp"
    /\ j.pc = "replace" => tmp = None \/ tmp.db = j.db
    /\ j.kind = "install" /\ j.pc \in AfterMigrate \cup {"migrate"} => env.db = j.db
    /\ j.kind = "install" /\ j.pc \in AfterMigrate => d = j.db
    /\ j.pc = "user" => j.tenant = b.config
    /\ j.kind = "install" /\ j.pc \in {"licence", "lock"} => b.adminTenant = b.config
    /\ j.kind = "install" /\ j.pc = "lock" => b.licensed
AloneGood ==
    ~overlapped =>
        /\ \A v, w \in Workers : job[v] # Idle /\ job[w] # Idle => v = w
        /\ lock # "no" => \A w \in Workers : job[w] = Idle
        /\ \A w \in Workers : job[w] # Idle =>
              Undisturbed(job[w], settings[w], base[settings[w]])

Keeps(w) == Undisturbed(job[w], settings[w], base[settings[w]])

\* A handler that works alone and ends, or leaves what is needed.
LEMMA AloneStep ==
    ASSUME TypeOK, AloneGood, NEW w \in Workers, job[w] # Idle, Shape(w),
           UNCHANGED <<overlapped, lock>>,
           ~overlapped /\ Keeps(w) /\ job'[w] # Idle => Keeps(w)'
    PROVE  AloneGood' /\ InstalledIsUsable'
<1> SUFFICES ASSUME ~overlapped'
             PROVE  AloneGood' /\ InstalledIsUsable'
  BY DEF AloneGood, InstalledIsUsable
<1>1. ~overlapped /\ lock = "no" /\ Keeps(w)
  BY DEF AloneGood, Keeps
<1>2. \A q \in Workers \ {w} : job'[q] = Idle
  BY <1>1, JobFields DEF AloneGood, Shape, SameButFile
<1>3. InstalledIsUsable'
  BY <1>1, InstallationAssumption DEF InstalledIsUsable
<1>4. AloneGood'
  BY <1>1, <1>2 DEF AloneGood, Keeps
<1> QED
  BY <1>3, <1>4

LEMMA StartAlone ==
    ASSUME TypeOK, AloneGood, NEW w \in Workers, NEW k \in Kinds,
           NEW x \in {"read", "admin"}, NEW d \in Databases, Start(w, k, x, d),
           x = "admin" => k = "admin"
    PROVE  AloneGood' /\ InstalledIsUsable'
<1> DEFINE j == [pc |-> x, kind |-> k, db |-> d, file |-> "none", own |-> FALSE, tenant |-> None]
<1>1. j \in Jobs /\ j.pc = x /\ j.kind = k
  BY NewJob DEF Pcs
<1>2. job' = [job EXCEPT ![w] = j]
  BY DEF Start
<1> HIDE DEF j
<1>3. Becomes(w, j)
  BY <1>1, <1>2, JobUpdate
<1>4. lock' = "no"
  BY DEF Start
<1>5. InstalledIsUsable'
  BY <1>4, InstallationAssumption DEF InstalledIsUsable
<1>6. ASSUME ~overlapped' PROVE \A q \in Workers \ {w} : job'[q] = Idle
  BY <1>3, <1>6 DEF Start, Becomes, TypeOK
<1>7. Undisturbed(job[w], settings[w], base[settings[w]])'
  BY <1>1, <1>3 DEF Undisturbed, Becomes, AfterMigrate
<1>8. AloneGood'
  BY <1>4, <1>6, <1>7 DEF AloneGood
<1> QED
  BY <1>5, <1>8

LEMMA RunMigrationsAlone ==
    ASSUME TypeOK, AloneGood, NEW w \in Workers, RunMigrations(w)
    PROVE  AloneGood' /\ InstalledIsUsable'
<1>1. lock' = "no" /\ UNCHANGED <<env, tmp, lock, settings, job, overlapped>>
  BY DEF RunMigrations
<1>2. InstalledIsUsable'
  BY <1>1, InstallationAssumption DEF InstalledIsUsable
<1>3. settings[w] \in Databases /\ base \in [Databases -> Bases]
  BY DEF TypeOK
<1>4. \A d \in Databases : /\ base'[d].config = base[d].config
                          /\ base'[d].adminTenant = base[d].adminTenant
                          /\ base'[d].licensed = base[d].licensed
  <2>1. base' = [base EXCEPT ![settings[w]] = [base[settings[w]] EXCEPT !.migrated = TRUE]]
    BY DEF RunMigrations
  <2> DEFINE b == [base[settings[w]] EXCEPT !.migrated = TRUE]
  <2>2. /\ b.config = base[settings[w]].config /\ b.adminTenant = base[settings[w]].adminTenant
        /\ b.licensed = base[settings[w]].licensed
    BY <1>3 DEF Bases
  <2>3. base' = [base EXCEPT ![settings[w]] = b]
    BY <2>1
  <2> HIDE DEF b
  <2> QED
    BY <1>3, <2>2, <2>3
<1>5. \A q \in Workers : settings[q] \in Databases
  BY DEF TypeOK
<1>6. \A q \in Workers : Keeps(q) => Keeps(q)'
  BY <1>1, <1>4, <1>5 DEF Keeps, Undisturbed
<1>7. AloneGood'
  BY <1>1, <1>6 DEF AloneGood, Keeps
<1> QED
  BY <1>2, <1>7

LEMMA KillAlone ==
    ASSUME TypeOK, AloneGood, InstalledIsUsable, NEW w \in Workers, Kill(w)
    PROVE  AloneGood' /\ InstalledIsUsable'
<1>1. Becomes(w, Idle) /\ UNCHANGED <<env, tmp, lock, base, overlapped>>
  BY JobUpdate DEF Kill
<1>2. \A q \in Workers \ {w} : settings'[q] = settings[q]
  BY DEF Kill, TypeOK
<1>3. \A q \in Workers \ {w} : Keeps(q) => Keeps(q)'
  BY <1>1, <1>2 DEF Keeps, Undisturbed, Becomes
<1>4. AloneGood'
  BY <1>1, <1>3 DEF AloneGood, Keeps, Becomes
<1>5. InstalledIsUsable'
  BY <1>1 DEF InstalledIsUsable
<1> QED
  BY <1>4, <1>5

LEMMA WriteEnvAlone ==
    ASSUME TypeOK, JobsGood, AloneGood, NEW w \in Workers, WriteEnv(w)
    PROVE  AloneGood' /\ InstalledIsUsable'
<1>0. job[w] \in Jobs /\ job[w] # Idle /\ Shape(w) /\ UNCHANGED <<overlapped, lock>>
  <2>1. job[w].pc # "idle" /\ UNCHANGED <<overlapped, lock>>
    BY DEF WriteEnv, ReadEnv, OpenTmp, CloseTmp, WriteFails, Replace, CleanUp, others
  <2>2. Good(w)
    BY ReadEnvGood, OpenTmpGood, CloseTmpGood, WriteFailsGood, ReplaceGood, CleanUpGood DEF WriteEnv
  <2> QED
    BY <2>1, <2>2, BusyIsJob DEF Good
<1>1. SUFFICES ASSUME ~overlapped, Keeps(w), job'[w] # Idle PROVE Keeps(w)'
  BY <1>0, AloneStep
<1>2. CASE ReadEnv(w)
  <2> DEFINE j == [job[w] EXCEPT !.own = env.own, !.pc = "open"]
  <2>1. j.pc = "open"
    BY <1>0 DEF Jobs
  <2>2. job'[w] = j
    BY <1>2 DEF ReadEnv, TypeOK
  <2> QED
    BY <2>1, <2>2 DEF Keeps, Undisturbed, AfterMigrate
<1>3. CASE OpenTmp(w)
  <2> DEFINE j == [job[w] EXCEPT !.file = "tmp", !.pc = "flush"]
  <2>1. j.pc = "flush" /\ j.file = "tmp"
    BY <1>0 DEF Jobs
  <2>2. job'[w] = j
    BY <1>3 DEF OpenTmp, TypeOK
  <2> QED
    BY <2>1, <2>2 DEF Keeps, Undisturbed, AfterMigrate
<1>4. CASE CloseTmp(w)
  <2> DEFINE j == [job[w] EXCEPT !.file = "none", !.pc = "replace"]
  <2>1. j.pc = "replace" /\ j.db = job[w].db
    BY <1>0 DEF Jobs
  <2>2. job'[w] = j
    BY <1>4 DEF CloseTmp, TypeOK
  <2>3. job[w].file = "tmp"
    BY <1>1, <1>4 DEF Keeps, Undisturbed, CloseTmp
  <2>4. tmp'.db = job[w].db
    BY <1>4, <2>3 DEF CloseTmp
  <2> QED
    BY <2>1, <2>2, <2>4 DEF Keeps, Undisturbed, AfterMigrate
<1>5. CASE WriteFails(w)
  <2> DEFINE j == [job[w] EXCEPT !.file = "none", !.pc = "clean"]
  <2>1. j.pc = "clean"
    BY <1>0 DEF Jobs
  <2>2. job'[w] = j
    BY <1>5 DEF WriteFails, TypeOK
  <2> QED
    BY <2>1, <2>2 DEF Keeps, Undisturbed, AfterMigrate
<1>6. CASE Replace(w) /\ tmp = None
  <2>1. job'[w] = [job[w] EXCEPT !.pc = "clean"]
    BY <1>6 DEF Replace, Goto, TypeOK
  <2>2. [job[w] EXCEPT !.pc = "clean"].pc = "clean"
    BY <1>0 DEF Jobs
  <2> QED
    BY <2>1, <2>2 DEF Keeps, Undisturbed, AfterMigrate
<1>7. CASE Replace(w) /\ tmp # None
  <2> DEFINE f == [tmp |-> "env", env |-> "gone"]
             x == IF job[w].kind = "install" THEN "migrate" ELSE "lock"
             k == Renamed(job[w], f)
             j == [k EXCEPT !.own = FALSE, !.pc = x]
  <2>1. k \in Jobs /\ k.kind = job[w].kind /\ k.db = job[w].db
    BY <1>0, RenamedJob DEF SameButFile
  <2>2. j.pc = x /\ j.kind = job[w].kind /\ j.db = job[w].db
    <3> HIDE DEF k
    <3> QED
      BY <2>1 DEF Jobs
  <2>3. job' = [[q \in Workers |-> Renamed(job[q], f)] EXCEPT ![w] = j]
    BY <1>7 DEF Replace
  <2>4. job'[w] = j
    <3> HIDE DEF j, f
    <3> QED
      BY <2>3
  <2>5. env'.db = job[w].db
    BY <1>1, <1>7 DEF Replace, Keeps, Undisturbed
  <2> HIDE DEF j
  <2> QED
    BY <2>2, <2>4, <2>5 DEF Keeps, Undisturbed, AfterMigrate
<1>8. CASE CleanUp(w)
  BY <1>1, <1>8 DEF CleanUp, TypeOK
<1> QED
  BY <1>2, <1>3, <1>4, <1>5, <1>6, <1>7, <1>8 DEF WriteEnv

LEMMA ProvisionAlone ==
    ASSUME TypeOK, JobsGood, AloneGood, NEW w \in Workers, Provision(w), ~MarkInstalled(w)
    PROVE  AloneGood' /\ InstalledIsUsable'
<1>0. job[w] \in Jobs /\ job[w] # Idle /\ Shape(w) /\ UNCHANGED <<overlapped, lock, env, tmp>>
  <2>1. job[w].pc # "idle" /\ UNCHANGED <<overlapped, lock, env, tmp>>
    BY DEF Provision, Migrate, LookUpUser, CreateUser, FindTenant, SaveConfig, SaveUser,
           DatabaseFails, ActivateLicence, files
  <2>2. Good(w)
    BY StepGood DEF Step, Handler
  <2> QED
    BY <2>1, <2>2, BusyIsJob DEF Good
<1>1. SUFFICES ASSUME ~overlapped, Keeps(w), job'[w] # Idle PROVE Keeps(w)'
  BY <1>0, AloneStep
<1>2. settings[w] \in Databases /\ base[settings[w]] \in Bases /\ base \in [Databases -> Bases]
  BY DEF TypeOK
<1>3. ASSUME NEW x \in AfterMigrate, Goto(w, x)
      PROVE  job'[w].pc = x /\ job'[w].kind = job[w].kind /\ job'[w].db = job[w].db
             /\ job'[w].tenant = job[w].tenant
  <2>1. job'[w] = [job[w] EXCEPT !.pc = x]
    BY <1>3 DEF Goto, TypeOK
  <2> QED
    BY <1>0, <2>1 DEF Jobs
<1>4. ASSUME Done(w) PROVE FALSE
  BY <1>1, <1>4 DEF Done, TypeOK
<1>5. CASE Migrate(w)
  <2>1. Goto(w, "admin")
    BY <1>4, <1>5 DEF Migrate
  <2>2. settings'[w] = job[w].db
    BY <1>5 DEF Migrate, TypeOK
  <2>3. job'[w].pc = "admin" /\ job'[w].kind = job[w].kind /\ job'[w].db = job[w].db
    BY <1>3, <2>1 DEF AfterMigrate
  <2> QED
    BY <1>0, <1>1, <1>5, <2>2, <2>3 DEF Keeps, Undisturbed, AfterMigrate, Migrate
<1>6. CASE LookUpUser(w)
  <2>1. PICK x \in {"tenant", "create"} : Goto(w, x)
    BY <1>6 DEF LookUpUser
  <2>2. job'[w].pc = x /\ job'[w].kind = job[w].kind /\ job'[w].db = job[w].db
    BY <1>3, <2>1 DEF AfterMigrate
  <2> QED
    BY <1>0, <1>1, <1>6, <2>2 DEF Keeps, Undisturbed, AfterMigrate, LookUpUser
<1>7. CASE CreateUser(w)
  <2>1. Goto(w, "tenant")
    BY <1>4, <1>7 DEF CreateUser
  <2>2. job'[w].pc = "tenant" /\ job'[w].kind = job[w].kind /\ job'[w].db = job[w].db
    BY <1>3, <2>1 DEF AfterMigrate
  <2> QED
    BY <1>0, <1>1, <1>7, <2>2 DEF Keeps, Undisturbed, AfterMigrate, CreateUser
<1>8. CASE FindTenant(w)
  <2> DEFINE b == base[settings[w]]
             t == IF b.config # None THEN b.config ELSE w
             x == IF b.config # None THEN "user" ELSE "config"
             j == [job[w] EXCEPT !.tenant = t, !.pc = x]
  <2>1. j.pc = x /\ j.kind = job[w].kind /\ j.db = job[w].db /\ j.tenant = t
    BY <1>0 DEF Jobs
  <2>2. job' = [job EXCEPT ![w] = j]
    BY <1>8 DEF FindTenant
  <2> HIDE DEF j
  <2>3. job'[w] = j
    BY <2>2 DEF TypeOK
  <2> QED
    BY <1>0, <1>1, <1>8, <2>1, <2>3 DEF Keeps, Undisturbed, AfterMigrate, FindTenant
<1>9. CASE SaveConfig(w)
  <2>1. job'[w].pc = "user" /\ job'[w].kind = job[w].kind /\ job'[w].db = job[w].db
        /\ job'[w].tenant = job[w].tenant
    BY <1>3, <1>9 DEF SaveConfig, AfterMigrate
  <2> DEFINE b == [base[settings[w]] EXCEPT !.config = job[w].tenant]
  <2>2. b.config = job[w].tenant
    BY <1>2 DEF Bases
  <2>3. base' = [base EXCEPT ![settings[w]] = b]
    BY <1>9 DEF SaveConfig
  <2> HIDE DEF b
  <2>4. base'[settings'[w]].config = job[w].tenant
    BY <1>2, <1>9, <2>2, <2>3 DEF SaveConfig
  <2> QED
    BY <1>0, <1>1, <1>9, <2>1, <2>4 DEF Keeps, Undisturbed, AfterMigrate, SaveConfig
<1>10. CASE SaveUser(w)
  <2> DEFINE k == [job[w] EXCEPT !.tenant = None, !.pc = "licence"]
             b == [base[settings[w]] EXCEPT !.adminTenant = job[w].tenant]
  <2>1. job'[w] = k
    BY <1>1, <1>10 DEF SaveUser, TypeOK
  <2>2. k.pc = "licence" /\ k.kind = job[w].kind /\ k.db = job[w].db
    BY <1>0 DEF Jobs
  <2>3. b.adminTenant = job[w].tenant /\ b.config = base[settings[w]].config
    BY <1>2 DEF Bases
  <2>4. base' = [base EXCEPT ![settings[w]] = b]
    BY <1>10 DEF SaveUser
  <2> HIDE DEF k, b
  <2>5. base'[settings'[w]].adminTenant = base'[settings'[w]].config
    BY <1>1, <1>2, <1>10, <2>3, <2>4 DEF SaveUser, Keeps, Undisturbed
  <2> QED
    BY <1>0, <1>1, <1>10, <2>1, <2>2, <2>5 DEF Keeps, Undisturbed, AfterMigrate, SaveUser
<1>11. CASE DatabaseFails(w)
  BY <1>4, <1>11 DEF DatabaseFails
<1>12. CASE ActivateLicence(w)
  <2>1. Goto(w, "lock") /\ base' = [base EXCEPT ![settings[w]].licensed = TRUE]
    BY <1>4, <1>12 DEF ActivateLicence
  <2>2. job'[w].pc = "lock" /\ job'[w].kind = job[w].kind /\ job'[w].db = job[w].db
    BY <1>3, <2>1 DEF AfterMigrate
  <2> DEFINE b == [base[settings[w]] EXCEPT !.licensed = TRUE]
  <2>3. b.licensed /\ b.adminTenant = base[settings[w]].adminTenant /\ b.config = base[settings[w]].config
    BY <1>2 DEF Bases
  <2>4. base' = [base EXCEPT ![settings[w]] = b]
    BY <2>1
  <2> HIDE DEF b
  <2>5. base'[settings'[w]] = b
    BY <1>2, <1>12, <2>4 DEF ActivateLicence
  <2> QED
    BY <1>0, <1>1, <1>12, <2>2, <2>3, <2>5 DEF Keeps, Undisturbed, AfterMigrate, ActivateLicence
<1> QED
  BY <1>5, <1>6, <1>7, <1>8, <1>9, <1>10, <1>11, <1>12 DEF Provision

LEMMA MarkInstalledAlone ==
    ASSUME TypeOK, JobsGood, AloneGood, NEW w \in Workers, MarkInstalled(w)
    PROVE  AloneGood' /\ InstalledIsUsable'
<1>0. job[w] \in Jobs /\ job[w] # Idle /\ job[w].pc = "lock" /\ JobGood(job[w], base[settings[w]])
  BY BusyIsJob DEF MarkInstalled, JobsGood
<1>1. Becomes(w, Idle) /\ UNCHANGED <<env, tmp, settings, base, overlapped>>
  BY DoneShape DEF MarkInstalled, files
<1> SUFFICES ASSUME ~overlapped' PROVE AloneGood' /\ InstalledIsUsable'
  BY DEF AloneGood, InstalledIsUsable
<1>2. ~overlapped /\ lock = "no" /\ Keeps(w) /\ \A q \in Workers \ {w} : job[q] = Idle
  BY <1>0, <1>1 DEF AloneGood, Keeps
<1>3. \A q \in Workers : job'[q] = Idle
  BY <1>1, <1>2 DEF Becomes
<1>4. AloneGood'
  BY <1>3 DEF AloneGood
<1>5. CASE lock' \notin Databases
  BY <1>4, <1>5 DEF InstalledIsUsable
<1>6. CASE lock' \in Databases
  <2>1. job[w].kind = "install" /\ lock' = settings[w]
    BY <1>2, <1>6, InstallationAssumption DEF MarkInstalled
  <2>2. env.db = job[w].db /\ settings[w] = job[w].db
    BY <1>0, <1>2, <2>1 DEF Keeps, Undisturbed, AfterMigrate
  <2>3. env.db # None
    BY <1>0, <2>2, JobFields, InstallationAssumption
  <2>4. LET b == base[settings[w]] IN
        /\ b.migrated /\ b.licensed /\ b.admin /\ b.config # None /\ b.adminTenant = b.config
    BY <1>0, <1>2, <2>1 DEF Keeps, Undisturbed, JobGood, AfterMigrate, AfterUser, AfterConfig
  <2>5. InstalledIsUsable'
    BY <1>1, <2>2, <2>3, <2>4 DEF InstalledIsUsable
  <2> QED
    BY <1>4, <2>5
<1> QED
  BY <1>5, <1>6

LEMMA StepAlone ==
    ASSUME TypeOK, JobsGood, AloneGood, InstalledIsUsable, NEW w \in Workers, Step(w)
    PROVE  AloneGood' /\ InstalledIsUsable'
<1>1. ASSUME NEW d \in Databases, Install(w, d) \/ Finalize(w, d)
      PROVE  AloneGood' /\ InstalledIsUsable'
  BY <1>1, StartAlone DEF Install, Finalize, Kinds
<1>2. CASE CreateAdmin(w)
  <2>1. settings[w] \in Databases
    BY DEF TypeOK
  <2> QED
    BY <1>2, <2>1, StartAlone DEF CreateAdmin, Kinds
<1>3. CASE RunMigrations(w) \/ Kill(w)
  BY <1>3, RunMigrationsAlone, KillAlone
<1>4. CASE WriteEnv(w)
  BY <1>4, WriteEnvAlone
<1>5. CASE Provision(w)
  BY <1>5, ProvisionAlone, MarkInstalledAlone
<1> QED
  BY <1>1, <1>2, <1>3, <1>4, <1>5 DEF Step, Handler

-----------------------------------------------------------------------------
(* The theorems                                                              *)

IInv == TypeOK /\ JobsGood /\ InstalledIsProvisioned /\ FilesGood /\ WritersGood
        /\ AloneGood /\ InstalledIsUsable

LEMMA IInvInit == Init => IInv
<1> SUFFICES ASSUME Init PROVE IInv
  OBVIOUS
<1>1. TypeOK
  BY TypeInit
<1>2. \A w \in Workers : job[w] = Idle /\ job[w].pc = "idle"
  BY DEF Init, Idle
<1>3. JobsGood /\ AloneGood
  BY <1>2 DEF JobsGood, AloneGood
<1>4. InstalledIsProvisioned /\ InstalledIsUsable
  BY InstallationAssumption DEF Init, InstalledIsProvisioned, InstalledIsUsable
<1>5. env.db # None /\ env.own /\ tmp = None
  BY InstallationAssumption DEF Init
<1>6. FilesGood /\ WritersGood
  BY <1>2, <1>5 DEF FilesGood, WritersGood, Writer, Writing
<1> QED
  BY <1>1, <1>3, <1>4, <1>6 DEF IInv

LEMMA IInvStep == IInv /\ [Next]_vars => IInv'
<1> SUFFICES ASSUME IInv, [Next]_vars PROVE IInv'
  OBVIOUS
<1>1. CASE UNCHANGED vars
  BY <1>1 DEF IInv, vars, TypeOK, JobsGood, InstalledIsProvisioned, FilesGood, WritersGood, Writer,
              Writing, AloneGood, Undisturbed, InstalledIsUsable
<1>2. CASE Next
  <2>1. PICK w \in Workers : Step(w)
    BY <1>2, NextIsStep
  <2>2. TypeOK' /\ JobsGood'
    BY <2>1, StepGood DEF IInv, Good
  <2>3. InstalledIsProvisioned'
    BY <2>1, ProvisionedStep DEF IInv
  <2>4. FilesGood' /\ WritersGood'
    BY <2>1, StepFiles DEF IInv
  <2>5. AloneGood' /\ InstalledIsUsable'
    BY <2>1, StepAlone DEF IInv
  <2> QED
    BY <2>2, <2>3, <2>4, <2>5 DEF IInv
<1> QED
  BY <1>1, <1>2

LEMMA Inductive == Spec => []IInv
BY IInvInit, IInvStep, PTL DEF Spec

(* Every variable keeps its type, whatever workers and databases there are.
   (setup/views.py, env_manager.py)                                          *)
THEOREM TypeCorrect == Spec => []TypeOK
<1>1. IInv => TypeOK
  BY DEF IInv
<1> QED
  BY <1>1, Inductive, PTL

(* .env is complete and keeps what others have put there until two handlers
   write at one time, whatever is killed or fails. (update_env_file)          *)
THEOREM EnvStaysWhole == Spec => []EnvIsWhole
<1>1. IInv => EnvIsWhole
  BY WholeImplied DEF IInv
<1> QED
  BY <1>1, Inductive, PTL

(* An installation that was not overlapped leaves the lock only behind a
   database that can be used, whatever attempts died before it. (install)     *)
THEOREM LockMeansUsable == Spec => []InstalledIsUsable
<1>1. IInv => InstalledIsUsable
  BY DEF IInv
<1> QED
  BY <1>1, Inductive, PTL

(* Whatever overlaps, the database of the installation that left the lock is
   migrated and has its administrator and its tenant. (install)               *)
THEOREM LockMeansProvisioned == Spec => []InstalledIsProvisioned
<1>1. IInv => InstalledIsProvisioned
  BY DEF IInv
<1> QED
  BY <1>1, Inductive, PTL
=============================================================================
