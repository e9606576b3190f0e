---------------------------- MODULE Licence_proofs ----------------------------
(* Proofs about Licence, for any number of workers, callers and             *)
(* installations, any grace period and any lifetime of the cache.           *)
EXTENDS Licence, TLAPS

-----------------------------------------------------------------------------
(* The inductive invariant.                                                 *)

\* The handler that holds the row of the purchase is the only one, and what it
\* found still is so.
Locking ==
    \A c \in Callers : handler[c].pc = "holding" =>
        /\ locked = {c}
        /\ IF handler[c].found = NoInstall THEN \A i \in Installs : ~Exists(i)
           ELSE Exists(handler[c].found)

RegistryInv == RegistryTypeOK /\ Locking /\ OneInstallation

\* A decision that lets requests through says why.
Truthful(d) == d.allow => d.status \in {"active", "grace"}

\* With c the age of the registry's last yes: a success that still counts is no
\* younger than that.
RowGood(l, c) ==
    /\ l \in LicenceRows
    /\ l.success <= Grace => c <= l.success

\* Nor is what a job has read, when its age is counted; a job that is about to
\* cache a decision has earned it at most one tick ago.
JobGood(j, c, l) ==
    /\ j \in Jobs
    /\ j.pc = "idle" => j = NoJob
    /\ Truthful(j.decision)
    /\ j.seen.success <= Grace => c <= j.seen.success + j.age
    /\ j.pc = "saving" /\ j.answer = "valid" => c <= j.age
    /\ j.pc = "caching" /\ j.decision.allow => c <= Grace + j.age
    /\ j.pc = "caching" /\ j.decision.status = "active" /\ l.status = "active" /\ l.contact # Never
          => l.contact <= j.age

\* The time a cached decision has left bounds the age of what it rests on.
CacheGood(k, c, l) ==
    /\ k \in Caches
    /\ Truthful(k.decision)
    /\ k.left > 0 /\ k.decision.allow => c + k.left <= Limit + 1
    /\ k.left > 0 /\ k.decision.status = "active" /\ l.status = "active" /\ l.contact # Never
          => l.contact + k.left <= CacheTTL + 1

Counters ==
    /\ orders \in 0..MaxOrders /\ reachable \in BOOLEAN
    /\ confirmed \in 0..(Limit + 1)

ClientInv ==
    /\ Counters
    /\ RowGood(lic, confirmed)
    /\ CacheGood(cache, confirmed, lic)
    /\ job \in [Workers -> Jobs]
    /\ \A w \in Workers : JobGood(job[w], confirmed, lic)

IInv == RegistryInv /\ ClientInv

LEMMA InvImplies == IInv => TypeOK /\ OneInstallation
    BY DEF IInv, RegistryInv, ClientInv, Counters, RowGood, CacheGood, TypeOK

-----------------------------------------------------------------------------
(* The registry.                                                            *)

\* The handlers move, and none of them to or from the lock.
Unheld ==
    /\ handler' \in [Callers -> Handlers]
    /\ \A c \in Callers : handler'[c].pc = "holding" => handler'[c] = handler[c]
    /\ calls' \in 0..MaxActivations
    /\ UNCHANGED <<row, locked, issued>>

LEMMA RegistryUnheld == RegistryInv /\ Unheld => RegistryInv'
<1> SUFFICES ASSUME RegistryInv, Unheld PROVE RegistryInv'
    OBVIOUS
<1>1. RegistryTypeOK'
    BY DEF RegistryInv, RegistryTypeOK, Unheld
<1>2. Locking' /\ OneInstallation'
    BY DEF RegistryInv, Locking, OneInstallation, Exists, Unheld
<1> QED BY <1>1, <1>2 DEF RegistryInv

HandlerPcs == {"idle", "called", "holding", "answered"}

LEMMA HandlerType ==
    ASSUME NEW h \in Handlers
    PROVE  h.pc \in HandlerPcs /\ h.token \in Tokens /\ h.found \in Installs \cup {NoInstall}
    BY DEF Handlers, HandlerPcs

LEMMA HandlerMoved ==
    ASSUME NEW h \in Handlers, NEW x \in HandlerPcs
    PROVE  [h EXCEPT !.pc = x] \in Handlers /\ [h EXCEPT !.pc = x].pc = x
    BY DEF Handlers, HandlerPcs

LEMMA HandlerFound ==
    ASSUME NEW h \in Handlers, NEW i \in Installs \cup {NoInstall}
    PROVE  /\ [h EXCEPT !.pc = "holding", !.found = i] \in Handlers
           /\ [h EXCEPT !.pc = "holding", !.found = i].found = i
    BY DEF Handlers

LEMMA HandlerAnswered ==
    ASSUME NEW h \in Handlers, NEW t \in Tokens
    PROVE  /\ [h EXCEPT !.pc = "answered", !.found = NoInstall, !.token = t] \in Handlers
           /\ [h EXCEPT !.pc = "answered", !.found = NoInstall, !.token = t].pc = "answered"
    BY DEF Handlers

LEMMA IdleHandler == Idle \in Handlers /\ Idle.pc = "idle"
    BY LicenceRegistryAssumption DEF Handlers, Idle, Tokens, LicenceRegistryAssumption

LEMMA LockStep ==
    ASSUME RegistryInv, NEW c \in Callers, ActivateLock(c)
    PROVE  RegistryInv'
<1>1. PICK i \in Installs \cup {NoInstall} :
          /\ IF i = NoInstall THEN \A j \in Installs : ~Exists(j) ELSE Exists(i)
          /\ handler' = [handler EXCEPT ![c].pc = "holding", ![c].found = i]
    BY DEF ActivateLock
<1> DEFINE h == [handler[c] EXCEPT !.pc = "holding", !.found = i]
<1>2. handler \in [Callers -> Handlers] /\ handler[c] \in Handlers
    BY DEF RegistryInv, RegistryTypeOK
<1>3. handler' = [handler EXCEPT ![c] = h]
    BY <1>1, <1>2 DEF Handlers
<1>4. h \in Handlers /\ h.found = i
    BY <1>2, HandlerFound
<1> HIDE DEF h
<1>5. handler'[c] = h /\ \A d \in Callers \ {c} : handler'[d] = handler[d]
    BY <1>2, <1>3
<1>6. RegistryTypeOK'
    BY <1>2, <1>3, <1>4 DEF RegistryInv, RegistryTypeOK, ActivateLock
<1>7. \A d \in Callers : handler'[d].pc = "holding" => d = c
    BY <1>5 DEF RegistryInv, Locking, ActivateLock
<1>8. Locking'
    BY <1>1, <1>4, <1>5, <1>7, LicenceRegistryAssumption
    DEF Locking, ActivateLock, Exists, LicenceRegistryAssumption
<1> QED BY <1>6, <1>8 DEF RegistryInv, OneInstallation, Exists, ActivateLock

LEMMA CommitStep ==
    ASSUME RegistryInv, NEW c \in Callers, ActivateCommit(c)
    PROVE  RegistryInv'
<1>0. /\ handler[c].pc = "holding" /\ issued < MaxActivations
      /\ issued \in Tokens /\ issued + 1 \in Tokens /\ issued + 1 # 0
      /\ row \in [Installs -> Rows]
      /\ handler \in [Callers -> Handlers] /\ handler[c] \in Handlers
      /\ issued' = issued + 1 /\ calls' = calls /\ locked' \subseteq Callers
    BY LicenceRegistryAssumption
    DEF ActivateCommit, RegistryInv, RegistryTypeOK, Tokens, LicenceRegistryAssumption
<1> DEFINE new == [token |-> issued + 1, suspended |-> FALSE]
           h == [handler[c] EXCEPT !.pc = "answered", !.found = NoInstall, !.token = issued + 1]
<1>1. PICK i \in Installs :
          /\ IF handler[c].found = NoInstall THEN ~Exists(i) ELSE i = handler[c].found
          /\ row' = [row EXCEPT ![i] = new]
    BY Zenon DEF ActivateCommit
<1>2. handler' = [handler EXCEPT ![c] = h]
    BY <1>0 DEF ActivateCommit, Handlers
<1>3. h \in Handlers /\ h.pc = "answered"
    BY <1>0, HandlerAnswered
<1>4. new \in Rows /\ new.token # 0
    BY <1>0 DEF Rows
<1> HIDE DEF new, h
<1>5. RegistryTypeOK'
    BY <1>0, <1>1, <1>2, <1>3, <1>4 DEF RegistryInv, RegistryTypeOK
<1>6. \A d \in Callers : handler'[d].pc # "holding"
    BY <1>0, <1>2, <1>3 DEF RegistryInv, Locking
<1>7. Locking'
    BY <1>6 DEF Locking
<1>8. \A j \in Installs : row'[j].token # 0 => j = i
    BY <1>0, <1>1, <1>4 DEF RegistryInv, Locking, OneInstallation, Exists
<1>9. OneInstallation'
    BY <1>8 DEF OneInstallation, Exists
<1> QED BY <1>5, <1>7, <1>9 DEF RegistryInv

LEMMA SuspendStep ==
    ASSUME RegistryInv, NEW i \in Installs, NEW b \in BOOLEAN, Suspend(i, b)
    PROVE  RegistryInv'
<1>1. row \in [Installs -> Rows] /\ row[i] \in Rows
    BY DEF RegistryInv, RegistryTypeOK
<1>2. row' = [row EXCEPT ![i] = [row[i] EXCEPT !.suspended = b]]
    BY DEF Suspend
<1>3. [row[i] EXCEPT !.suspended = b] \in Rows /\ [row[i] EXCEPT !.suspended = b].token = row[i].token
    BY <1>1 DEF Rows
<1>4. row' \in [Installs -> Rows] /\ \A j \in Installs : row'[j].token = row[j].token
    BY <1>1, <1>2, <1>3
<1>5. \A j \in Installs : Exists(j)' <=> Exists(j)
    BY <1>4 DEF Exists
<1>6. RegistryTypeOK'
    BY <1>4 DEF RegistryInv, RegistryTypeOK, Suspend
<1>7. OneInstallation'
    BY <1>4 DEF RegistryInv, OneInstallation, Exists
<1>8. Locking'
  <2> SUFFICES ASSUME NEW c \in Callers, handler[c].pc = "holding"
               PROVE  /\ locked = {c}
                      /\ IF handler[c].found = NoInstall THEN \A j \in Installs : row'[j].token = 0
                         ELSE row'[handler[c].found].token # 0
      BY DEF Locking, Exists, Suspend
  <2>1. handler[c].found \in Installs \cup {NoInstall}
    <3>1. handler[c] \in Handlers
        BY DEF RegistryInv, RegistryTypeOK
    <3> QED BY <3>1, HandlerType
  <2> QED BY <1>4, <2>1 DEF RegistryInv, Locking, Exists
<1> QED BY <1>6, <1>7, <1>8 DEF RegistryInv

LEMMA RefusedStep ==
    ASSUME RegistryInv, NEW c \in Callers, ActivateRefused(c)
    PROVE  RegistryInv'
<1>1. handler \in [Callers -> Handlers] /\ handler[c] \in Handlers
    BY DEF RegistryInv, RegistryTypeOK
<1>2. handler' = [handler EXCEPT ![c] = [handler[c] EXCEPT !.pc = "answered"]]
    BY DEF ActivateRefused
<1>3. [handler[c] EXCEPT !.pc = "answered"] \in Handlers /\ [handler[c] EXCEPT !.pc = "answered"].pc = "answered"
    BY <1>1, HandlerMoved DEF HandlerPcs
<1>4. Unheld
    BY <1>1, <1>2, <1>3 DEF Unheld, ActivateRefused, RegistryInv, RegistryTypeOK
<1> QED BY <1>4, RegistryUnheld

LEMMA RegistryStep == RegistryInv /\ RegistryNext => RegistryInv'
    BY LockStep, CommitStep, RefusedStep, SuspendStep DEF RegistryNext

-----------------------------------------------------------------------------
(* Ages, rows and jobs.                                                     *)

Constants ==
    /\ CacheTTL \in Nat /\ CacheTTL >= 1
    /\ Grace \in Nat /\ Warn \in Nat /\ ReadOnly \in Nat
    /\ CacheTTL <= Warn /\ Warn < ReadOnly
    /\ LongAgo = Grace + 1 /\ Silent = ReadOnly + 1 /\ Never = ReadOnly + 2
    /\ Limit = Grace + CacheTTL
    /\ Workers \subseteq Callers /\ MaxOrders \in Nat /\ MaxActivations \in Nat \ {0}

LEMMA ConstantsOK == Constants
    BY LicenceAssumption, LicenceRegistryAssumption
    DEF Constants, LicenceAssumption, LicenceRegistryAssumption, LongAgo, Silent, Never, Limit

LEMMA RowType ==
    ASSUME NEW r \in LicenceRows
    PROVE  /\ r.success \in 0..LongAgo /\ r.contact \in 0..Never
           /\ r.token \in 0..MaxActivations /\ r.status \in Statuses
    BY DEF LicenceRows

LEMMA JobType ==
    ASSUME NEW j \in Jobs
    PROVE  /\ j.pc \in Steps /\ j.seen \in LicenceRows /\ j.age \in 0..1
           /\ j.answer \in Answers /\ j.token \in 0..MaxActivations /\ j.decision \in Decisions
    BY DEF Jobs

\* What the passing of n ticks does to a row.
LEMMA OlderRow ==
    ASSUME NEW r \in LicenceRows, NEW n \in 0..1
    PROVE  /\ Older(r, n) \in LicenceRows
           /\ Older(r, n).status = r.status
           /\ Older(r, n).success <= Grace => Older(r, n).success = r.success + n
           /\ Older(r, n).success <= Grace => r.success <= Grace
           /\ Older(r, n).contact # Never => r.contact # Never /\ Older(r, n).contact <= r.contact + n
<1>1. r.success \in 0..LongAgo /\ r.contact \in 0..Never
    BY RowType
<1> DEFINE s == Later(r.success, n, LongAgo)
           k == IF r.contact = Never THEN Never ELSE Later(r.contact, n, Silent)
<1>2. /\ s \in 0..LongAgo
      /\ s <= Grace => s = r.success + n /\ r.success <= Grace
    BY <1>1, ConstantsOK DEF Constants, Later
<1>3. k \in 0..Never /\ (k # Never => r.contact # Never /\ k <= r.contact + n)
    BY <1>1, ConstantsOK DEF Constants, Later
<1>4. Older(r, n) = [r EXCEPT !.success = s, !.contact = k]
    BY DEF Older
<1> HIDE DEF s, k
<1>5. /\ [r EXCEPT !.success = s, !.contact = k] \in LicenceRows
      /\ [r EXCEPT !.success = s, !.contact = k].status = r.status
      /\ [r EXCEPT !.success = s, !.contact = k].success = s
      /\ [r EXCEPT !.success = s, !.contact = k].contact = k
    BY <1>2, <1>3 DEF LicenceRows
<1> QED BY <1>2, <1>3, <1>4, <1>5

\* The instance that a job saves is backed like the row.
LEMMA KeptGood ==
    ASSUME NEW j \in Jobs, NEW c \in Nat, j.seen.success <= Grace => c <= j.seen.success + j.age
    PROVE  RowGood(Older(j.seen, j.age), c)
<1>1. j.seen \in LicenceRows /\ j.age \in 0..1
    BY JobType
<1> QED BY <1>1, OlderRow DEF RowGood

LEMMA NoJobGood ==
    ASSUME NEW c \in Nat, NEW l
    PROVE  /\ NoJob \in Jobs /\ NoJob.pc = "idle" /\ JobGood(NoJob, c, l)
           /\ NoJob.age = 0 /\ NoJob.decision = Denied /\ NoJob.seen = Unlicensed
<1>1. Unlicensed \in LicenceRows /\ Unlicensed.success = Grace + 1 /\ ~(Unlicensed.success <= Grace)
    BY ConstantsOK DEF Constants, Unlicensed, LicenceRows, Statuses
<1>2. Denied \in Decisions /\ ~Denied.allow /\ Denied.status # "active"
    BY DEF Denied, Decisions, Statuses
<1>3. /\ NoJob.pc = "idle" /\ NoJob.seen = Unlicensed /\ NoJob.age = 0
      /\ NoJob.decision = Denied
    BY DEF NoJob
<1>4. NoJob \in Jobs
    BY <1>1, <1>2, ConstantsOK DEF Constants, NoJob, Jobs, Steps, Answers
<1> QED BY <1>1, <1>2, <1>3, <1>4 DEF JobGood, Truthful

\* A younger yes, or a row that has just been in contact or is not active, does
\* a job and a cached decision no harm.
LEMMA JobStays ==
    ASSUME NEW j, NEW c \in Nat, NEW d \in Nat, d <= c, NEW l, NEW m,
           JobGood(j, c, l), m = l \/ m.status # "active" \/ m.contact = 0
    PROVE  JobGood(j, d, m)
<1>1. j \in Jobs /\ j.age \in 0..1 /\ j.seen \in LicenceRows /\ j.seen.success \in 0..LongAgo
    BY JobType, RowType DEF JobGood
<1>2. Grace \in Nat /\ LongAgo \in Nat
    BY ConstantsOK DEF Constants
<1> QED BY <1>1, <1>2 DEF JobGood

LEMMA CacheStays ==
    ASSUME NEW k, NEW c \in Nat, NEW d \in Nat, d <= c, NEW l, NEW m,
           CacheGood(k, c, l), m = l \/ m.status # "active" \/ m.contact = 0
    PROVE  CacheGood(k, d, m)
<1>1. k.left \in 0..CacheTTL
    BY DEF CacheGood, Caches
<1>2. Limit \in Nat /\ CacheTTL \in Nat
    BY ConstantsOK DEF Constants
<1> QED BY <1>1, <1>2 DEF CacheGood

LEMMA ForgottenGood ==
    ASSUME NEW c, NEW l
    PROVE  CacheGood([decision |-> Denied, left |-> 0], c, l)
    BY ConstantsOK DEF Constants, CacheGood, Caches, Denied, Decisions, Statuses, Truthful

\* A step of one worker, which leaves the clock of the registry's yes alone or
\* sets it back.
LEMMA WorkerStep ==
    ASSUME ClientInv, NEW w \in Workers, NEW j,
           job' = [job EXCEPT ![w] = j],
           confirmed' \in Nat, confirmed' <= confirmed,
           orders' \in 0..MaxOrders, reachable' \in BOOLEAN,
           RowGood(lic', confirmed'),
           lic' = lic \/ lic'.status # "active" \/ lic'.contact = 0,
           cache' = cache \/ CacheGood(cache', confirmed', lic'),
           JobGood(j, confirmed', lic')
    PROVE  ClientInv'
<1>1. confirmed \in Nat /\ confirmed \in 0..(Limit + 1) /\ Limit \in Nat
    BY ConstantsOK DEF ClientInv, Counters, Constants
<1>2. Counters'
    BY <1>1 DEF Counters
<1>3. CacheGood(cache, confirmed', lic')
    BY <1>1, CacheStays DEF ClientInv
<1>4. job \in [Workers -> Jobs] /\ j \in Jobs
    BY DEF ClientInv, JobGood
<1>5. \A v \in Workers : JobGood(job'[v], confirmed', lic')
  <2> SUFFICES ASSUME NEW v \in Workers PROVE JobGood(job'[v], confirmed', lic')
      OBVIOUS
  <2>1. CASE v = w
      BY <1>4, <2>1
  <2>2. CASE v # w
    <3>1. job'[v] = job[v] /\ JobGood(job[v], confirmed, lic)
        BY <1>4, <2>2 DEF ClientInv
    <3> QED BY <1>1, <3>1, JobStays
  <2> QED BY <2>1, <2>2
<1> QED BY <1>2, <1>3, <1>4, <1>5 DEF ClientInv

-----------------------------------------------------------------------------
(* What the workers do.                                                     *)

\* A job that has just read the row.
LEMMA ReadGood ==
    ASSUME NEW l \in LicenceRows, NEW c \in Nat, NEW m, RowGood(l, c),
           NEW x \in Steps \ {"idle", "saving", "caching"}
    PROVE  /\ JobGood([NoJob EXCEPT !.pc = x, !.seen = l], c, m)
           /\ \A a \in Answers : JobGood([NoJob EXCEPT !.pc = x, !.seen = l, !.answer = a], c, m)
<1>1. NoJob \in Jobs /\ NoJob.age = 0 /\ Truthful(NoJob.decision)
    BY NoJobGood DEF JobGood
<1>2. l.success \in Nat
    BY ConstantsOK, RowType DEF Constants
<1> DEFINE j == [NoJob EXCEPT !.pc = x, !.seen = l]
<1>3. j \in Jobs /\ j.age = 0 /\ j.decision = NoJob.decision /\ j.seen = l /\ j.pc = x
    BY <1>1 DEF Jobs
<1>4. JobGood(j, c, m)
  <2> HIDE DEF j
  <2> QED BY <1>1, <1>2, <1>3 DEF JobGood, RowGood
<1>5. ASSUME NEW a \in Answers
      PROVE  JobGood([NoJob EXCEPT !.pc = x, !.seen = l, !.answer = a], c, m)
  <2> DEFINE k == [NoJob EXCEPT !.pc = x, !.seen = l, !.answer = a]
  <2>1. k \in Jobs /\ k.age = 0 /\ k.decision = NoJob.decision /\ k.seen = l /\ k.pc = x
      BY <1>1 DEF Jobs
  <2> HIDE DEF k
  <2>2. JobGood(k, c, m)
      BY <1>1, <1>2, <2>1 DEF JobGood, RowGood
  <2> QED BY <2>2 DEF k
<1> QED BY <1>4, <1>5

\* A job that goes on with what it has read.
LEMMA GoesOn ==
    ASSUME NEW j, NEW c \in Nat, NEW l, JobGood(j, c, l),
           NEW d \in Nat, d <= c, NEW m, NEW k \in Jobs,
           k.seen = j.seen, k.age = j.age, k.decision = j.decision,
           k.pc \notin {"idle", "caching"},
           k.pc = "saving" /\ k.answer = "valid" => d <= k.age
    PROVE  JobGood(k, d, m)
<1>1. j.seen.success \in Nat /\ j.age \in Nat
    BY ConstantsOK, RowType, JobType DEF Constants, JobGood
<1>2. Grace \in Nat
    BY ConstantsOK DEF Constants
<1> QED BY <1>1, <1>2 DEF JobGood

LEMMA ClientFacts ==
    ASSUME ClientInv
    PROVE  /\ confirmed \in Nat /\ confirmed <= confirmed
           /\ lic \in LicenceRows /\ RowGood(lic, confirmed) /\ CacheGood(cache, confirmed, lic)
           /\ job \in [Workers -> Jobs]
           /\ orders \in 0..MaxOrders /\ reachable \in BOOLEAN
           /\ \A w \in Workers : job[w] \in Jobs /\ JobGood(job[w], confirmed, lic)
    BY ConstantsOK DEF ClientInv, Counters, RowGood, Constants

LEMMA ValidatingStep ==
    ASSUME ClientInv, NEW w \in Workers, Validating(w), UNCHANGED cache \/ Forget,
           UNCHANGED <<lic, orders, reachable, confirmed>>
    PROVE  ClientInv'
<1> DEFINE j == [NoJob EXCEPT !.pc = "asking", !.seen = lic]
<1>1. "asking" \in Steps \ {"idle", "saving", "caching"}
    BY DEF Steps
<1>2. JobGood(j, confirmed, lic)
    BY <1>1, ClientFacts, ReadGood
<1>3. job' = [job EXCEPT ![w] = j]
    BY DEF Validating
<1> HIDE DEF j
<1>4. cache' = cache \/ CacheGood(cache', confirmed', lic')
    BY ForgottenGood DEF Forget
<1> QED BY <1>2, <1>3, <1>4, ClientFacts, WorkerStep

LEMMA AskStep ==
    ASSUME ClientInv, NEW w \in Workers, Ask(w)
    PROVE  ClientInv'
<1>1. PICK verdict \in Verdicts(job[w].seen) :
          /\ job' = [job EXCEPT ![w].pc = "saving", ![w].answer = verdict]
          /\ confirmed' = IF verdict = "valid" THEN 0 ELSE confirmed
    BY DEF Ask
<1> DEFINE j == [job[w] EXCEPT !.pc = "saving", !.answer = verdict]
<1>2. job[w] \in Jobs /\ job \in [Workers -> Jobs] /\ confirmed \in Nat
    BY ClientFacts
<1>3. verdict \in Answers
    BY DEF Verdicts, Answers
<1>4. /\ job' = [job EXCEPT ![w] = j]
      /\ j \in Jobs /\ j.pc = "saving" /\ j.answer = verdict /\ j.seen = job[w].seen
      /\ j.age = job[w].age /\ j.decision = job[w].decision
    BY <1>1, <1>2, <1>3 DEF Jobs, Steps
<1> HIDE DEF j
<1>5. confirmed' \in Nat /\ confirmed' <= confirmed /\ j.age \in Nat
    BY <1>1, <1>2, <1>4, JobType
<1>6. JobGood(j, confirmed', lic')
    BY <1>1, <1>4, <1>5, ClientFacts, GoesOn
<1>7. RowGood(lic', confirmed')
    BY <1>2, <1>5, ConstantsOK, ClientFacts, RowType DEF RowGood, Ask, Constants
<1> QED BY <1>4, <1>5, <1>6, <1>7, ClientFacts, WorkerStep DEF Ask

\* A job that ends, with the row and the cache as they were or as they may be.
LEMMA DoneStep ==
    ASSUME ClientInv, NEW w \in Workers, job' = Done(w),
           RowGood(lic', confirmed), lic' = lic \/ lic'.status # "active" \/ lic'.contact = 0,
           cache' = cache \/ CacheGood(cache', confirmed, lic'),
           UNCHANGED <<orders, reachable, confirmed>>
    PROVE  ClientInv'
<1>1. JobGood(NoJob, confirmed', lic')
    BY ClientFacts, NoJobGood
<1> QED BY <1>1, ClientFacts, WorkerStep DEF Done

LEMMA CacheStep ==
    ASSUME ClientInv, NEW w \in Workers, Cache(w)
    PROVE  ClientInv'
<1> DEFINE k == [decision |-> job[w].decision, left |-> CacheTTL]
<1>1. /\ job[w] \in Jobs /\ JobGood(job[w], confirmed, lic) /\ job[w].pc = "caching"
      /\ confirmed \in Nat
    BY ClientFacts DEF Cache, At
<1>2. job[w].decision \in Decisions /\ job[w].age \in 0..1
    BY <1>1, JobType
<1>3. k \in Caches /\ k.decision = job[w].decision /\ k.left = CacheTTL
    BY <1>2, ConstantsOK DEF Caches, Constants
<1>4. lic.contact \in Nat
    BY ConstantsOK, ClientFacts, RowType DEF Constants
<1> HIDE DEF k
<1>5. CacheGood(k, confirmed, lic)
    BY <1>1, <1>2, <1>3, <1>4, ConstantsOK DEF CacheGood, JobGood, Constants
<1>6. cache' = k /\ job' = Done(w) /\ UNCHANGED <<lic, reachable, orders, confirmed>>
    BY DEF Cache, k
<1> QED BY <1>5, <1>6, ClientFacts, DoneStep

LEMMA SaveStep ==
    ASSUME ClientInv, NEW w \in Workers, Save(w)
    PROVE  ClientInv'
<1> DEFINE j == [NoJob EXCEPT !.pc = "caching", !.age = job[w].age,
                              !.decision = [allow |-> lic'.status \in {"active", "grace"},
                                            status |-> lic'.status]]
<1>1. /\ job[w] \in Jobs /\ JobGood(job[w], confirmed, lic) /\ job[w].pc = "saving"
      /\ confirmed \in Nat /\ lic \in LicenceRows
    BY ClientFacts DEF Save, At
<1>2. job[w].age \in 0..1 /\ job[w].seen \in LicenceRows
    BY <1>1, JobType
<1>3. /\ Kept(w) \in LicenceRows /\ RowGood(Kept(w), confirmed)
    BY <1>1, KeptGood DEF Kept, RowGood, JobGood
<1>4. /\ RowGood(lic', confirmed)
      /\ lic'.status \in Statuses
      /\ lic'.status # "active" \/ lic'.contact = 0
      /\ lic'.status \in {"active", "grace"} => confirmed <= Grace + job[w].age
  <2>0. Grace \in Nat /\ LongAgo = Grace + 1
      BY ConstantsOK DEF Constants
  <2>1. CASE /\ job[w].answer = "valid"
             /\ lic' = [Kept(w) EXCEPT !.status = "active",
                                       !.success = Later(0, job[w].age, LongAgo), !.contact = 0]
    <3>1. Later(0, job[w].age, LongAgo) \in 0..LongAgo
        BY <1>2, <2>0 DEF Later
    <3>2. Later(0, job[w].age, LongAgo) <= Grace => Later(0, job[w].age, LongAgo) = job[w].age
        BY <1>2, <2>0 DEF Later
    <3>3. confirmed <= job[w].age
        BY <1>1, <2>1 DEF JobGood
    <3>4. ASSUME NEW r \in LicenceRows, NEW n \in 0..LongAgo
          PROVE  LET q == [r EXCEPT !.status = "active", !.success = n, !.contact = 0]
                 IN  q \in LicenceRows /\ q.status = "active" /\ q.contact = 0 /\ q.success = n
      <4>1. 0 \in 0..Never /\ "active" \in Statuses
          BY ConstantsOK DEF Constants, Statuses
      <4> QED BY <4>1 DEF LicenceRows
    <3>5. /\ lic' \in LicenceRows /\ lic'.status = "active" /\ lic'.contact = 0
          /\ lic'.success = Later(0, job[w].age, LongAgo)
        BY <1>3, <2>1, <3>1, <3>4
    <3> QED BY <1>1, <1>2, <2>0, <3>1, <3>2, <3>3, <3>5 DEF RowGood, Statuses
  <2>2. CASE job[w].answer = "invalid" /\ lic' = [Kept(w) EXCEPT !.status = "invalid"]
    <3>1. lic' \in LicenceRows /\ lic'.status = "invalid" /\ lic'.success = Kept(w).success
        BY <1>3, <2>2 DEF LicenceRows, Statuses
    <3> QED BY <1>3, <3>1 DEF RowGood, Statuses
  <2>3. CASE job[w].answer = "missing" /\ lic' = [lic EXCEPT !.status = "inactive"]
    <3>1. lic' \in LicenceRows /\ lic'.status = "inactive" /\ lic'.success = lic.success
        BY <1>1, <2>3 DEF LicenceRows, Statuses
    <3> QED BY <3>1, ClientFacts DEF RowGood, Statuses
  <2>4. CASE /\ job[w].answer = "down"
             /\ lic' = [lic EXCEPT !.status = IF InGrace(w) THEN "grace" ELSE "invalid"]
    <3>1. /\ lic' \in LicenceRows /\ lic'.success = lic.success
          /\ lic'.status = IF InGrace(w) THEN "grace" ELSE "invalid"
        BY <1>1, <2>4 DEF LicenceRows, Statuses
    <3>2. InGrace(w) => confirmed <= Grace + job[w].age
      <4>1. job[w].seen.success \in Nat
          BY <1>2, RowType, ConstantsOK DEF Constants
      <4> QED BY <1>1, <1>2, <2>0, <4>1 DEF InGrace, JobGood
    <3> QED BY <3>1, <3>2, ClientFacts DEF RowGood, Statuses
  <2> QED BY <2>1, <2>2, <2>3, <2>4 DEF Save
<1>5. job' = [job EXCEPT ![w] = j] /\ UNCHANGED <<cache, reachable, orders, confirmed>>
    BY DEF Save
<1>6. /\ j \in Jobs /\ j.pc = "caching" /\ j.age = job[w].age /\ j.seen = NoJob.seen
      /\ j.decision.allow <=> lic'.status \in {"active", "grace"}
      /\ j.decision.status = lic'.status
  <2>1. [allow |-> lic'.status \in {"active", "grace"}, status |-> lic'.status] \in Decisions
      BY <1>4 DEF Decisions
  <2>2. NoJob \in Jobs /\ "caching" \in Steps
      BY <1>1, NoJobGood DEF Steps
  <2> QED BY <1>2, <2>1, <2>2 DEF Jobs
<1> HIDE DEF j
<1>7. ~(j.seen.success <= Grace)
  <2>1. j.seen = Unlicensed /\ Unlicensed.success = Grace + 1
      BY <1>1, <1>6, NoJobGood, ConstantsOK DEF Unlicensed, Constants
  <2> QED BY <2>1, ConstantsOK DEF Constants
<1>8. JobGood(j, confirmed, lic')
    BY <1>2, <1>4, <1>6, <1>7 DEF JobGood, Truthful
<1> QED BY <1>4, <1>5, <1>8, ClientFacts, WorkerStep

\* A job that has read the row ends there, or goes to the registry.
LEMMA ActivateStep ==
    ASSUME ClientInv, NEW w \in Workers, Activate(w)
    PROVE  ClientInv'
<1>1. "activated" \in Steps \ {"idle", "saving", "caching"}
      /\ "activating" \in Steps \ {"idle", "saving", "caching"}
      /\ "malformed" \in Answers /\ "failed" \in Answers
    BY DEF Steps, Answers
<1>2. PICK j : job' = [job EXCEPT ![w] = j] /\ JobGood(j, confirmed, lic)
  <2>1. \/ job' = [job EXCEPT ![w] = [NoJob EXCEPT !.pc = "activated", !.seen = lic,
                                                   !.answer = "malformed"]]
        \/ job' = [job EXCEPT ![w] = [NoJob EXCEPT !.pc = "activating", !.seen = lic]]
        \/ job' = [job EXCEPT ![w] = [NoJob EXCEPT !.pc = "activated", !.seen = lic,
                                                   !.answer = "failed"]]
      BY DEF Activate
  <2>2. /\ JobGood([NoJob EXCEPT !.pc = "activated", !.seen = lic, !.answer = "malformed"], confirmed, lic)
        /\ JobGood([NoJob EXCEPT !.pc = "activated", !.seen = lic, !.answer = "failed"], confirmed, lic)
        /\ JobGood([NoJob EXCEPT !.pc = "activating", !.seen = lic], confirmed, lic)
      BY <1>1, ClientFacts, ReadGood
  <2> QED BY <2>1, <2>2
<1>3. /\ cache' = [decision |-> Denied, left |-> 0]
      /\ orders < MaxOrders /\ orders' = orders + 1
      /\ UNCHANGED <<lic, reachable, confirmed>>
    BY DEF Activate, Order, Forget
<1>4. orders' \in 0..MaxOrders
    BY <1>3, ClientFacts, ConstantsOK DEF Constants
<1>5. CacheGood(cache', confirmed', lic')
    BY <1>3, ForgottenGood
<1> QED BY <1>2, <1>3, <1>4, <1>5, ClientFacts, WorkerStep

\* The steps by which a job only goes on.
LEMMA OnStep ==
    ASSUME ClientInv, NEW w \in Workers, NEW k \in Jobs, job' = [job EXCEPT ![w] = k],
           k.seen = job[w].seen, k.age = job[w].age, k.decision = job[w].decision,
           k.pc \notin {"idle", "saving", "caching"},
           RowGood(lic', confirmed), lic' = lic \/ lic'.status # "active" \/ lic'.contact = 0,
           UNCHANGED <<cache, orders, reachable, confirmed>>
    PROVE  ClientInv'
<1>1. JobGood(k, confirmed', lic')
    BY ClientFacts, GoesOn
<1> QED BY <1>1, ClientFacts, WorkerStep

LEMMA ActivatedStep ==
    ASSUME IInv, NEW w \in Workers, Activated(w)
    PROVE  ClientInv'
<1> DEFINE k == [job[w] EXCEPT !.pc = "activated", !.token = handler[w].token,
                               !.answer = IF handler[w].token = 0 THEN "failed" ELSE "token"]
<1>1. job \in [Workers -> Jobs] /\ job[w] \in Jobs /\ RowGood(lic, confirmed)
    BY ClientFacts DEF IInv
<1>2. handler[w].token \in 0..MaxActivations
  <2>1. handler[w] \in Handlers
      BY ConstantsOK DEF IInv, RegistryInv, RegistryTypeOK, Constants
  <2> QED BY <2>1, HandlerType DEF Tokens
<1>3. /\ job' = [job EXCEPT ![w] = k] /\ k \in Jobs /\ k.pc = "activated"
      /\ k.seen = job[w].seen /\ k.age = job[w].age /\ k.decision = job[w].decision
    BY <1>1, <1>2 DEF Activated, Jobs, Steps, Answers
<1>4. UNCHANGED <<lic, cache, orders, reachable, confirmed>>
    BY DEF Activated
<1> HIDE DEF k
<1> QED BY <1>1, <1>3, <1>4, OnStep DEF IInv

LEMMA GiveUpStep ==
    ASSUME ClientInv, NEW w \in Workers, GiveUp(w)
    PROVE  ClientInv'
<1> DEFINE k == [job[w] EXCEPT !.pc = "activated", !.answer = "failed"]
<1>1. job \in [Workers -> Jobs] /\ job[w] \in Jobs /\ RowGood(lic, confirmed)
    BY ClientFacts
<1>2. /\ job' = [job EXCEPT ![w] = k] /\ k \in Jobs /\ k.pc = "activated"
      /\ k.seen = job[w].seen /\ k.age = job[w].age /\ k.decision = job[w].decision
    BY <1>1 DEF GiveUp, Jobs, Steps, Answers
<1>3. UNCHANGED <<lic, cache, orders, reachable, confirmed>>
    BY DEF GiveUp
<1> HIDE DEF k
<1> QED BY <1>1, <1>2, <1>3, OnStep

LEMMA SaveActivationStep ==
    ASSUME ClientInv, NEW w \in Workers, SaveActivation(w)
    PROVE  ClientInv'
<1> DEFINE k == [job[w] EXCEPT !.pc = "rereading"]
<1>1. job \in [Workers -> Jobs] /\ job[w] \in Jobs /\ JobGood(job[w], confirmed, lic) /\ confirmed \in Nat
    BY ClientFacts
<1>2. Kept(w) \in LicenceRows /\ RowGood(Kept(w), confirmed) /\ job[w].token \in 0..MaxActivations
    BY <1>1, JobType, KeptGood DEF Kept, RowGood, JobGood
<1>3. /\ \/ lic' = [Kept(w) EXCEPT !.status = "inactive"]
         \/ lic' = [Kept(w) EXCEPT !.status = "inactive", !.code = TRUE, !.token = 0]
         \/ lic' = [Kept(w) EXCEPT !.status = "inactive", !.code = FALSE,
                                   !.token = job[w].token, !.contact = 0]
      /\ job' = Done(w) \/ job' = [job EXCEPT ![w].pc = "rereading"]
      /\ UNCHANGED <<cache, orders, reachable, confirmed>>
    BY DEF SaveActivation, Go
<1>4. lic' \in LicenceRows /\ lic'.status = "inactive" /\ lic'.success = Kept(w).success
  <2>1. 0 \in 0..Never /\ 0 \in 0..MaxActivations /\ "inactive" \in Statuses
      BY ConstantsOK DEF Constants, Statuses
  <2>2. ASSUME NEW r \in LicenceRows, NEW t \in 0..MaxActivations
        PROVE  LET q == [r EXCEPT !.status = "inactive", !.code = FALSE, !.token = t, !.contact = 0]
               IN  q \in LicenceRows /\ q.status = "inactive" /\ q.success = r.success
      BY <2>1 DEF LicenceRows
  <2>3. ASSUME NEW r \in LicenceRows
        PROVE  LET q == [r EXCEPT !.status = "inactive", !.code = TRUE, !.token = 0]
               IN  q \in LicenceRows /\ q.status = "inactive" /\ q.success = r.success
      BY <2>1 DEF LicenceRows
  <2>4. ASSUME NEW r \in LicenceRows
        PROVE  LET q == [r EXCEPT !.status = "inactive"]
               IN  q \in LicenceRows /\ q.status = "inactive" /\ q.success = r.success
      BY <2>1 DEF LicenceRows
  <2>5. CASE lic' = [Kept(w) EXCEPT !.status = "inactive"]
      BY <1>2, <2>4, <2>5
  <2>6. CASE lic' = [Kept(w) EXCEPT !.status = "inactive", !.code = TRUE, !.token = 0]
      BY <1>2, <2>3, <2>6
  <2>7. CASE lic' = [Kept(w) EXCEPT !.status = "inactive", !.code = FALSE,
                                    !.token = job[w].token, !.contact = 0]
      BY <1>2, <2>2, <2>7
  <2> QED BY <1>3, <2>5, <2>6, <2>7
<1>5. RowGood(lic', confirmed)
    BY <1>2, <1>4 DEF RowGood
<1>6. CASE job' = Done(w)
    BY <1>3, <1>4, <1>5, <1>6, DoneStep
<1>7. CASE job' = [job EXCEPT ![w].pc = "rereading"]
  <2>1. /\ job' = [job EXCEPT ![w] = k] /\ k \in Jobs /\ k.pc = "rereading"
        /\ k.seen = job[w].seen /\ k.age = job[w].age /\ k.decision = job[w].decision
      BY <1>1, <1>7 DEF Jobs, Steps
  <2> HIDE DEF k
  <2> QED BY <1>3, <1>4, <1>5, <2>1, OnStep
<1> QED BY <1>3, <1>6, <1>7

LEMMA SendBeatStep ==
    ASSUME ClientInv, NEW w \in Workers, SendBeat(w)
    PROVE  ClientInv'
<1> DEFINE k == [NoJob EXCEPT !.pc = "beating", !.token = lic.token]
<1>1. lic.token \in 0..MaxActivations /\ confirmed \in Nat
    BY ClientFacts, RowType
<1>2. NoJob \in Jobs /\ JobGood(NoJob, confirmed, lic)
    BY <1>1, NoJobGood
<1>3. /\ k \in Jobs /\ k.pc = "beating"
      /\ k.seen = NoJob.seen /\ k.age = NoJob.age /\ k.decision = NoJob.decision
    BY <1>1, <1>2 DEF Jobs, Steps
<1>4. /\ job' = [job EXCEPT ![w] = k] /\ orders < MaxOrders /\ orders' = orders + 1
      /\ UNCHANGED <<lic, cache, reachable, confirmed>>
    BY DEF SendBeat, Order
<1> HIDE DEF k
<1>5. JobGood(k, confirmed, lic)
    BY <1>1, <1>2, <1>3, GoesOn
<1>6. orders' \in 0..MaxOrders
    BY <1>4, ClientFacts, ConstantsOK DEF Constants
<1> QED BY <1>4, <1>5, <1>6, ClientFacts, WorkerStep

LEMMA AnswerBeatStep ==
    ASSUME ClientInv, NEW w \in Workers, AnswerBeat(w)
    PROVE  ClientInv'
<1> DEFINE k == [job[w] EXCEPT !.pc = "beaten"]
<1>1. job \in [Workers -> Jobs] /\ job[w] \in Jobs /\ RowGood(lic, confirmed)
    BY ClientFacts
<1>2. /\ job' = Done(w) \/ job' = [job EXCEPT ![w].pc = "beaten"]
      /\ UNCHANGED <<lic, cache, orders, reachable, confirmed>>
    BY DEF AnswerBeat, Go
<1>3. CASE job' = Done(w)
    BY <1>1, <1>2, <1>3, DoneStep
<1>4. CASE job' = [job EXCEPT ![w].pc = "beaten"]
  <2>1. /\ job' = [job EXCEPT ![w] = k] /\ k \in Jobs /\ k.pc = "beaten"
        /\ k.seen = job[w].seen /\ k.age = job[w].age /\ k.decision = job[w].decision
      BY <1>1, <1>4 DEF Jobs, Steps
  <2> HIDE DEF k
  <2> QED BY <1>1, <1>2, <2>1, OnStep
<1> QED BY <1>2, <1>3, <1>4

LEMMA ApplyBeatStep ==
    ASSUME ClientInv, NEW w \in Workers, ApplyBeat(w)
    PROVE  ClientInv'
<1>1. lic \in LicenceRows /\ RowGood(lic, confirmed)
    BY ClientFacts
<1>2. /\ lic' = [lic EXCEPT !.contact = 0]
      /\ cache' = [decision |-> Denied, left |-> 0] /\ job' = Done(w)
      /\ UNCHANGED <<orders, reachable, confirmed>>
    BY DEF ApplyBeat, Forget
<1>3. lic' \in LicenceRows /\ lic'.contact = 0 /\ lic'.success = lic.success
    BY <1>1, <1>2, ConstantsOK DEF LicenceRows, Constants
<1>4. RowGood(lic', confirmed)
    BY <1>1, <1>3 DEF RowGood
<1> QED BY <1>2, <1>3, <1>4, ForgottenGood, DoneStep

-----------------------------------------------------------------------------
(* Time, and the invariant as a whole.                                      *)

LEMMA TickStep ==
    ASSUME ClientInv, Tick
    PROVE  ClientInv'
<1>1. /\ lic \in LicenceRows /\ RowGood(lic, confirmed) /\ CacheGood(cache, confirmed, lic)
      /\ job \in [Workers -> Jobs] /\ confirmed \in Nat
    BY ClientFacts
<1>2. /\ lic' = Older(lic, 1)
      /\ cache' = IF cache.left > 1 THEN [cache EXCEPT !.left = @ - 1]
                  ELSE [decision |-> Denied, left |-> 0]
      /\ job' = [w \in Workers |-> IF At(w, "idle") THEN job[w] ELSE [job[w] EXCEPT !.age = 1]]
      /\ \A w \in Workers : At(w, "idle") \/ job[w].age = 0
      /\ confirmed' = Later(confirmed, 1, Limit + 1)
      /\ UNCHANGED <<orders, reachable>>
    BY DEF Tick
<1>3. /\ Limit \in Nat /\ Grace \in Nat /\ CacheTTL \in Nat /\ Never \in Nat
    BY ConstantsOK DEF Constants
<1>4. /\ confirmed' \in 0..(Limit + 1) /\ confirmed' \in Nat
      /\ confirmed' <= confirmed + 1
    BY <1>1, <1>2, <1>3 DEF Later
<1>5. lic.success \in Nat /\ lic.contact \in Nat
    BY <1>1, <1>3, ConstantsOK, RowType DEF Constants
<1>6. /\ lic' \in LicenceRows /\ lic'.status = lic.status
      /\ lic'.success <= Grace => lic'.success = lic.success + 1 /\ lic.success <= Grace
      /\ lic'.contact # Never => lic.contact # Never /\ lic'.contact <= lic.contact + 1
      /\ lic'.contact \in Nat
    BY <1>1, <1>2, <1>3, OlderRow, RowType
<1>7. RowGood(lic', confirmed')
    BY <1>1, <1>3, <1>4, <1>5, <1>6 DEF RowGood
<1>8. CacheGood(cache', confirmed', lic')
  <2>1. CASE cache.left > 1
    <3>1. cache \in Caches /\ cache.left \in Nat
        BY <1>1, <1>3 DEF CacheGood, Caches
    <3>2. /\ cache' \in Caches /\ cache'.left = cache.left - 1 /\ cache'.decision = cache.decision
        BY <1>2, <1>3, <2>1, <3>1 DEF Caches
    <3> QED BY <1>1, <1>3, <1>4, <1>5, <1>6, <2>1, <3>1, <3>2 DEF CacheGood
  <2>2. CASE ~(cache.left > 1)
      BY <1>2, <2>2, ForgottenGood
  <2> QED BY <2>1, <2>2
<1>9. ASSUME NEW w \in Workers
      PROVE  job'[w] \in Jobs /\ JobGood(job'[w], confirmed', lic')
  <2>1. job[w] \in Jobs /\ JobGood(job[w], confirmed, lic)
      BY ClientFacts
  <2>2. CASE At(w, "idle")
    <3>1. job'[w] = NoJob
        BY <1>2, <2>1, <2>2 DEF At, JobGood
    <3> QED BY <1>4, <3>1, NoJobGood
  <2>3. CASE ~At(w, "idle")
    <3> DEFINE k == [job[w] EXCEPT !.age = 1]
    <3>1. job'[w] = k /\ job[w].age = 0
        BY <1>2, <2>3
    <3>2. /\ k \in Jobs /\ k.pc = job[w].pc /\ k.seen = job[w].seen /\ k.age = 1
          /\ k.answer = job[w].answer /\ k.decision = job[w].decision
        BY <2>1 DEF Jobs
    <3>3. job[w].seen.success \in Nat
        BY <2>1, JobType, RowType, ConstantsOK DEF Constants
    <3> HIDE DEF k
    <3>4. JobGood(k, confirmed', lic')
      <4>1. k.pc # "idle" /\ Truthful(k.decision)
          BY <2>1, <2>3, <3>2 DEF At, JobGood
      <4>2. k.seen.success <= Grace => confirmed' <= k.seen.success + k.age
          BY <1>1, <1>3, <1>4, <2>1, <3>1, <3>2, <3>3 DEF JobGood
      <4>3. k.pc = "saving" /\ k.answer = "valid" => confirmed' <= k.age
          BY <1>1, <1>4, <2>1, <3>1, <3>2 DEF JobGood
      <4>4. k.pc = "caching" /\ k.decision.allow => confirmed' <= Grace + k.age
          BY <1>1, <1>3, <1>4, <2>1, <3>1, <3>2 DEF JobGood
      <4>5. k.pc = "caching" /\ k.decision.status = "active" /\ lic'.status = "active"
              /\ lic'.contact # Never => lic'.contact <= k.age
          BY <1>5, <1>6, <2>1, <3>1, <3>2 DEF JobGood
      <4> QED BY <3>2, <4>1, <4>2, <4>3, <4>4, <4>5 DEF JobGood
    <3> QED BY <3>1, <3>2, <3>4
  <2> QED BY <2>2, <2>3
<1>10. job' \in [Workers -> Jobs]
    BY <1>2, <1>9
<1>11. Counters'
    BY <1>2, <1>4 DEF ClientInv, Counters
<1> QED BY <1>7, <1>8, <1>9, <1>10, <1>11 DEF ClientInv

LEMMA ClientStays == ClientInv /\ UNCHANGED clientVars => ClientInv'
    BY DEF ClientInv, Counters, RowGood, CacheGood, JobGood, clientVars

LEMMA RegistryStays == RegistryInv /\ UNCHANGED registryVars => RegistryInv'
    BY DEF RegistryInv, RegistryTypeOK, Locking, OneInstallation, Exists, registryVars

\* A handler that is called, answered to or forgotten.
LEMMA HandlerStep ==
    ASSUME RegistryInv, NEW c \in Callers, NEW h \in Handlers,
           handler' = [handler EXCEPT ![c] = h], h.pc # "holding",
           calls' \in 0..MaxActivations, UNCHANGED <<row, locked, issued>>
    PROVE  RegistryInv'
<1>1. handler \in [Callers -> Handlers]
    BY DEF RegistryInv, RegistryTypeOK
<1>2. Unheld
    BY <1>1 DEF Unheld
<1> QED BY <1>2, RegistryUnheld

LEMMA CalledStep ==
    ASSUME RegistryInv, NEW c \in Callers, handler' = [handler EXCEPT ![c].pc = "called"],
           calls < MaxActivations, calls' = calls + 1, UNCHANGED <<row, locked, issued>>
    PROVE  RegistryInv'
<1>1. handler \in [Callers -> Handlers] /\ handler[c] \in Handlers /\ calls' \in 0..MaxActivations
    BY ConstantsOK DEF RegistryInv, RegistryTypeOK, Constants
<1> DEFINE h == [handler[c] EXCEPT !.pc = "called"]
<1>2. h \in Handlers /\ h.pc = "called" /\ handler' = [handler EXCEPT ![c] = h]
    BY <1>1, HandlerMoved DEF HandlerPcs
<1> HIDE DEF h
<1> QED BY <1>1, <1>2, HandlerStep

LEMMA IdledStep ==
    ASSUME RegistryInv, NEW c \in Callers, handler' = [handler EXCEPT ![c] = Idle],
           UNCHANGED <<row, locked, issued, calls>>
    PROVE  RegistryInv'
<1>1. calls' \in 0..MaxActivations
    BY DEF RegistryInv, RegistryTypeOK
<1> QED BY <1>1, IdleHandler, HandlerStep

LEMMA InvInit == Init => IInv
<1> SUFFICES ASSUME Init PROVE IInv
    OBVIOUS
<1>1. RegistryTypeOK
  <2>1. NoRow \in Rows /\ \A i \in Installs : [NoRow EXCEPT !.token = 1] \in Rows
    <3>1. 0 \in Tokens /\ 1 \in Tokens
        BY LicenceRegistryAssumption DEF Tokens, LicenceRegistryAssumption
    <3> QED BY <3>1 DEF NoRow, Rows
  <2>2. 0 \in Tokens /\ 1 \in Tokens
      BY LicenceRegistryAssumption DEF Tokens, LicenceRegistryAssumption
  <2> QED BY <2>1, <2>2, IdleHandler DEF Init, RegistryInit, RegistryInitWithOne, RegistryTypeOK, Tokens
<1>2. Locking
    BY IdleHandler DEF Init, RegistryInit, RegistryInitWithOne, Locking
<1>3. OneInstallation
    BY DEF Init, RegistryInit, RegistryInitWithOne, OneInstallation, Exists, NoRow
<1>4. \/ lic = Unlicensed /\ confirmed = Limit + 1
      \/ lic = Licensed /\ confirmed = 0
    BY DEF Init
<1>5. RowGood(lic, confirmed)
  <2>1. Unlicensed \in LicenceRows /\ ~(Unlicensed.success <= Grace)
      BY ConstantsOK DEF Unlicensed, LicenceRows, Statuses, Constants
  <2>2. Licensed \in LicenceRows /\ Licensed.success = 0
      BY ConstantsOK DEF Licensed, LicenceRows, Statuses, Constants
  <2> QED BY <1>4, <2>1, <2>2 DEF RowGood
<1>6. confirmed \in Nat /\ Counters
    BY <1>4, ConstantsOK DEF Counters, Constants, Init
<1>7. \A w \in Workers : JobGood(job[w], confirmed, lic)
    BY <1>6, NoJobGood DEF Init
<1>8. job \in [Workers -> Jobs]
    BY <1>6, NoJobGood DEF Init
<1>9. CacheGood(cache, confirmed, lic)
    BY ForgottenGood DEF Init
<1> QED BY <1>1, <1>2, <1>3, <1>5, <1>6, <1>7, <1>8, <1>9 DEF IInv, RegistryInv, ClientInv

LEMMA InvNext == IInv /\ [Next]_vars => IInv'
<1> SUFFICES ASSUME IInv, [Next]_vars PROVE IInv'
    OBVIOUS
<1>0. RegistryInv /\ ClientInv /\ Workers \subseteq Callers
    BY ConstantsOK DEF IInv, Constants
<1>1. ASSUME NEW w \in Workers, Request(w) PROVE IInv'
    BY <1>0, <1>1, RegistryStays, ValidatingStep DEF Request, IInv
<1>2. ASSUME NEW w \in Workers, Revalidate(w) PROVE IInv'
    BY <1>0, <1>2, RegistryStays, ValidatingStep DEF Revalidate, IInv
<1>3. ASSUME NEW w \in Workers, Activate(w) PROVE IInv'
  <2>1. \/ UNCHANGED registryVars
        \/ /\ handler' = [handler EXCEPT ![w].pc = "called"]
           /\ calls < MaxActivations /\ calls' = calls + 1 /\ UNCHANGED <<row, locked, issued>>
      BY <1>3 DEF Activate
  <2> QED BY <1>0, <1>3, <2>1, RegistryStays, CalledStep, ActivateStep DEF IInv
<1>4. ASSUME NEW w \in Workers, SendBeat(w) PROVE IInv'
    BY <1>0, <1>4, RegistryStays, SendBeatStep DEF SendBeat, IInv
<1>5. ASSUME NEW w \in Workers, Work(w) PROVE IInv'
  <2>1. CASE Ask(w)
      BY <1>0, <2>1, RegistryStays, AskStep DEF Ask, IInv
  <2>2. CASE Save(w)
      BY <1>0, <2>2, RegistryStays, SaveStep DEF Save, IInv
  <2>3. CASE Cache(w)
      BY <1>0, <2>3, RegistryStays, CacheStep DEF Cache, IInv
  <2>4. CASE Activated(w)
    <3>1. handler' = [handler EXCEPT ![w] = Idle] /\ UNCHANGED <<row, locked, issued, calls>>
        BY <2>4 DEF Activated
    <3> QED BY <1>0, <2>4, <3>1, IdledStep, ActivatedStep DEF IInv
  <2>5. CASE GiveUp(w)
      BY <1>0, <2>5, RegistryStays, GiveUpStep DEF GiveUp, IInv
  <2>6. CASE SaveActivation(w)
      BY <1>0, <2>6, RegistryStays, SaveActivationStep DEF SaveActivation, IInv
  <2>7. CASE Reread(w)
      BY <1>0, <2>7, RegistryStays, ValidatingStep DEF Reread, IInv
  <2>8. CASE AnswerBeat(w)
      BY <1>0, <2>8, RegistryStays, AnswerBeatStep DEF AnswerBeat, IInv
  <2>9. CASE ApplyBeat(w)
      BY <1>0, <2>9, RegistryStays, ApplyBeatStep DEF ApplyBeat, IInv
  <2> QED BY <1>5, <2>1, <2>2, <2>3, <2>4, <2>5, <2>6, <2>7, <2>8, <2>9 DEF Work
<1>6. CASE RegistryNext /\ UNCHANGED clientVars
    BY <1>0, <1>6, RegistryStep, ClientStays DEF IInv
<1>7. ASSUME NEW c \in Callers, OtherActivates(c) PROVE IInv'
  <2>1. /\ handler' = [handler EXCEPT ![c].pc = "called"]
        /\ calls < MaxActivations /\ calls' = calls + 1
        /\ UNCHANGED <<row, locked, issued, clientVars>>
      BY <1>7 DEF OtherActivates
  <2> QED BY <1>0, <2>1, CalledStep, ClientStays DEF IInv
<1>8. ASSUME NEW c \in Callers, Abandoned(c) PROVE IInv'
  <2>1. handler' = [handler EXCEPT ![c] = Idle] /\ UNCHANGED <<row, locked, issued, calls, clientVars>>
      BY <1>8 DEF Abandoned
  <2> QED BY <1>0, <2>1, IdledStep, ClientStays DEF IInv
<1>9. CASE Outage \/ Recovery
  <2>1. /\ UNCHANGED registryVars /\ UNCHANGED <<lic, cache, job, orders, confirmed>>
        /\ reachable' \in BOOLEAN
      BY <1>9 DEF Outage, Recovery
  <2>2. ClientInv'
      BY <1>0, <2>1 DEF ClientInv, Counters, RowGood, CacheGood, JobGood
  <2> QED BY <1>0, <2>1, <2>2, RegistryStays DEF IInv
<1>10. CASE Tick
    BY <1>0, <1>10, RegistryStays, TickStep DEF Tick, IInv
<1>11. CASE UNCHANGED vars
    BY <1>0, <1>11, RegistryStays, ClientStays DEF vars, IInv
<1> QED BY <1>1, <1>2, <1>3, <1>4, <1>5, <1>6, <1>7, <1>8, <1>9, <1>10, <1>11 DEF Next

\* The invariant of the registry and of the site holds throughout.
THEOREM Inductive == Spec => []IInv
<1>1. Init => IInv
    BY InvInit
<1>2. IInv /\ [Next]_vars => IInv'
    BY InvNext
<1> QED BY <1>1, <1>2, PTL DEF Spec

-----------------------------------------------------------------------------
(* What follows.                                                            *)

\* Rows, jobs, handlers and the cache keep their types (licensing/models.py).
THEOREM TypeCorrect == Spec => []TypeOK
<1>1. IInv => TypeOK
    BY InvImplies
<1> QED BY <1>1, Inductive, PTL

\* However many activations of one site overlap, one installation comes of them
\* (registry_service.py, activate_installation).
THEOREM OneComesOfMany == Spec => []OneInstallation
<1>1. IInv => OneInstallation
    BY InvImplies
<1> QED BY <1>1, Inductive, PTL

\* What a decision in force rests on.
LEMMA ForceIsBacked ==
    ASSUME IInv, NEW d \in InForce
    PROVE  /\ Truthful(d)
           /\ d.allow => confirmed <= Limit
           /\ d.status = "active" /\ lic.status = "active" /\ lic.contact # Never
                => lic.contact <= CacheTTL
<1>0. ClientInv
    BY DEF IInv
<1>1. /\ confirmed \in Nat /\ lic.contact \in Nat /\ Grace \in Nat /\ CacheTTL \in Nat
      /\ CacheTTL >= 1 /\ Limit = Grace + CacheTTL
    BY <1>0, ClientFacts, RowType, ConstantsOK DEF Constants
<1>2. CASE \E w \in Workers : At(w, "caching") /\ d = job[w].decision
  <2>1. PICK w \in Workers : At(w, "caching") /\ d = job[w].decision
      BY <1>2
  <2>2. JobGood(job[w], confirmed, lic) /\ job[w].age \in 0..1
      BY <1>0, ClientFacts, JobType
  <2> QED BY <1>1, <2>1, <2>2 DEF At, JobGood
<1>3. CASE Cached /\ d = cache.decision
  <2>1. CacheGood(cache, confirmed, lic) /\ cache.left \in Nat
      BY <1>0, <1>1, ClientFacts DEF CacheGood, Caches
  <2> QED BY <1>1, <1>3, <2>1 DEF Cached, CacheGood
<1> QED BY <1>2, <1>3 DEF InForce

\* A request is let through only on a yes of the registry that is no older than
\* the grace period and the lifetime of the cache (licensing/service.py).
THEOREM RecentYes == Spec => []AllowedOnRecentYes
<1>1. IInv => AllowedOnRecentYes
  <2> SUFFICES ASSUME IInv, NEW d \in InForce, Answer(d) # "denied" PROVE confirmed <= Limit
      BY DEF AllowedOnRecentYes
  <2>1. d.allow
      BY DEF Answer
  <2> QED BY <2>1, ForceIsBacked
<1> QED BY <1>1, Inductive, PTL

\* No request is ever answered by the tiers for a silent gateway
\* (licensing/service.py, heartbeat_stale_contact_tier).
THEOREM NeverReadOnly == Spec => []SilenceNeverReadOnly
<1>1. CacheTTL \in Nat /\ Warn \in Nat /\ CacheTTL <= Warn /\ Never \in Nat
    BY ConstantsOK DEF Constants
<1>2. ASSUME IInv, lic.status = "active", lic.contact # Never, ~(lic.contact <= Warn)
      PROVE  ~(lic.contact <= CacheTTL)
  <2>1. lic.contact \in 0..Never
      BY <1>2, ClientFacts, RowType DEF IInv
  <2> QED BY <1>1, <1>2, <2>1
<1>3. IInv => SilenceNeverReadOnly
  <2> SUFFICES ASSUME IInv, NEW d \in InForce, Answer(d) \in {"read only", "admin only"}
               PROVE  FALSE
      BY DEF SilenceNeverReadOnly
  <2>1. d.allow /\ d.status # "grace" /\ Tier \in {"read only", "admin only"}
      BY DEF Answer
  <2>2. lic.status = "active" /\ lic.contact # Never /\ ~(lic.contact <= Warn)
      BY <2>1 DEF Tier
  <2>3. d.status = "active"
      BY <2>1, ForceIsBacked DEF Truthful
  <2> QED BY <1>2, <2>2, <2>3, ForceIsBacked
<1> QED BY <1>3, Inductive, PTL
=============================================================================
