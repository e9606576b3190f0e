------------------------------- MODULE Licence -------------------------------
(* A self-hosted server and its licence (licensing/service.py, middleware.py, *)
(* client.py), with the registry that it asks. Gunicorn workers share the one *)
(* LicenseState row and the decision in the cache; each reads the row, calls  *)
(* the gateway for seconds, and then saves what it has in hand.               *)
(*                                                                            *)
(* A tick is as long as a gateway call can take; timestamps are ages in ticks.*)
EXTENDS LicenceRegistry

CONSTANTS
    Workers,     \* the callers that are workers of the site's server
    CacheTTL,    \* LICENSE_CACHE_TTL_SECONDS
    Grace,       \* LICENSE_OFFLINE_GRACE_HOURS
    Warn,        \* LICENSE_STALE_CONTACT_WARN_DAYS
    ReadOnly,    \* LICENSE_STALE_CONTACT_READONLY_DAYS
    Duties,      \* Duties[w]: what a worker may be asked to do
    MaxOrders    \* activations and heartbeats of the site's workers in all

ASSUME LicenceAssumption ==
    /\ Workers \subseteq Callers
    /\ CacheTTL \in Nat \ {0} /\ Grace \in Nat /\ Warn \in Nat /\ ReadOnly \in Nat
    /\ CacheTTL <= Warn /\ Warn < ReadOnly
    /\ Duties \in [Workers -> SUBSET {"request", "revalidate", "activate", "beat"}]
    /\ MaxOrders \in Nat

VARIABLES
    lic,        \* the LicenseState row
    cache,      \* the cached LicenseDecision
    job,        \* job[w]: what a worker is doing
    orders,     \* activations and heartbeats so far
    reachable,  \* whether the gateway can be reached
    confirmed   \* age of the last time the registry called the licence valid

clientVars == <<lic, cache, job, orders, reachable, confirmed>>
vars == <<registryVars, clientVars>>

\* An age beyond which nothing is told apart counts as that one; a success that
\* has never been is as good as one long ago, a contact is not.
Later(age, n, oldest) == IF age + n < oldest THEN age + n ELSE oldest
LongAgo == Grace + 1
Silent == ReadOnly + 1
Never == Silent + 1
Limit == Grace + CacheTTL
Older(r, n) == [r EXCEPT !.success = Later(@, n, LongAgo),
                         !.contact = IF @ = Never THEN Never ELSE Later(@, n, Silent)]

Statuses == {"inactive", "active", "invalid", "grace"}
LicenceRows == [code : BOOLEAN, token : 0..MaxActivations, status : Statuses,
                success : 0..LongAgo, contact : 0..Never]
Decisions == [allow : BOOLEAN, status : Statuses]
Caches == [decision : Decisions, left : 0..CacheTTL]
Denied == [allow |-> FALSE, status |-> "inactive"]
Steps == {"idle", "asking", "saving", "caching", "activating", "activated",
          "rereading", "beating", "beaten"}
Answers == {"none", "missing", "valid", "invalid", "down", "malformed", "failed", "token"}
Jobs == [pc : Steps, seen : LicenceRows, age : 0..1,
         answer : Answers, token : 0..MaxActivations, decision : Decisions]

Unlicensed == [code |-> FALSE, token |-> 0, status |-> "inactive",
               success |-> LongAgo, contact |-> Never]
Licensed == [code |-> FALSE, token |-> 1, status |-> "active", success |-> 0, contact |-> 0]
NoJob == [pc |-> "idle", seen |-> Unlicensed, age |-> 0,
          answer |-> "none", token |-> 0, decision |-> Denied]

TypeOK ==
    /\ RegistryTypeOK
    /\ lic \in LicenceRows
    /\ cache \in Caches
    /\ job \in [Workers -> Jobs]
    /\ orders \in 0..MaxOrders /\ reachable \in BOOLEAN
    /\ confirmed \in 0..(Limit + 1)

\* A new site, or one that has just been activated.
Init ==
    /\ \/ RegistryInit /\ lic = Unlicensed /\ confirmed = Limit + 1
       \/ RegistryInitWithOne /\ lic = Licensed /\ confirmed = 0
    /\ cache = [decision |-> Denied, left |-> 0]
    /\ job = [w \in Workers |-> NoJob]
    /\ orders = 0 /\ reachable = TRUE

-----------------------------------------------------------------------------
(* Requests and validations                                                  *)

Cached == cache.left > 0
Forget == cache' = [decision |-> Denied, left |-> 0]
At(w, pc) == job[w].pc = pc
Order(w, duty) ==
    /\ At(w, "idle") /\ duty \in Duties[w]
    /\ orders < MaxOrders
    /\ orders' = orders + 1

Go(w, pc) == [job EXCEPT ![w].pc = pc]
Done(w) == [job EXCEPT ![w] = NoJob]
Validating(w) == job' = [job EXCEPT ![w] = [NoJob EXCEPT !.pc = "asking", !.seen = lic]]

\* A request to the protected API is judged by the cached decision, which changes
\* nothing, or by a validation if there is none.
Request(w) ==
    /\ At(w, "idle") /\ "request" \in Duties[w]
    /\ ~Cached
    /\ Validating(w)
    /\ UNCHANGED <<registryVars, lic, cache, orders, reachable, confirmed>>

\* The revalidate endpoint, and the middleware for an expired domain JWT, which
\* empties the cache first.
Revalidate(w) ==
    /\ At(w, "idle") /\ "revalidate" \in Duties[w]
    /\ Validating(w)
    /\ UNCHANGED cache \/ Forget
    /\ UNCHANGED <<registryVars, lic, orders, reachable, confirmed>>

\* What the gateway may say of the secrets a job has read: a token is asked about
\* first; a bare purchase code is looked up at Envato, and no suspension is.
Verdicts(seen) ==
    IF seen.token = 0 /\ ~seen.code THEN {"missing"}
    ELSE IF ~reachable THEN {"down"}
    ELSE IF seen.token = 0 THEN {"valid", "invalid"}
    ELSE IF Accepts(seen.token) THEN {"valid"} ELSE {"invalid"}

Ask(w) ==
    /\ At(w, "asking")
    /\ \E verdict \in Verdicts(job[w].seen) :
          /\ job' = [job EXCEPT ![w].pc = "saving", ![w].answer = verdict]
          /\ confirmed' = IF verdict = "valid" THEN 0 ELSE confirmed
    /\ UNCHANGED <<registryVars, lic, cache, orders, reachable>>

\* The instance the job has read, as old as the job is.
Kept(w) == Older(job[w].seen, job[w].age)

InGraceOfContact(w) == job[w].seen.contact <= Grace

InGrace(w) == job[w].seen.success <= Grace

\* A valid or an invalid answer saves every column of the instance; the other
\* outcomes save the status (and columns this model leaves out).
Save(w) ==
    /\ At(w, "saving")
    /\ \/ /\ job[w].answer = "valid"
          /\ lic' = [Kept(w) EXCEPT !.status = "active", !.success = Later(0, job[w].age, LongAgo), !.contact = 0]
       \/ /\ job[w].answer = "invalid"
          /\ lic' = [Kept(w) EXCEPT !.status = "invalid"]
       \/ /\ job[w].answer = "missing"
          /\ lic' = [lic EXCEPT !.status = "inactive"]
       \/ /\ job[w].answer = "down"
          /\ lic' = [lic EXCEPT !.status = IF InGrace(w) THEN "grace" ELSE "invalid"]
    /\ job' = [job EXCEPT ![w] =
                 [NoJob EXCEPT !.pc = "caching", !.age = job[w].age,
                               !.decision = [allow |-> lic'.status \in {"active", "grace"},
                                             status |-> lic'.status]]]
    /\ UNCHANGED <<registryVars, cache, reachable, orders, confirmed>>

\* Every decision is cached, a refusal like any other.
Cache(w) ==
    /\ At(w, "caching")
    /\ cache' = [decision |-> job[w].decision, left |-> CacheTTL]
    /\ job' = Done(w)
    /\ UNCHANGED <<registryVars, lic, reachable, orders, confirmed>>

TierTooEarly ==
    IF lic.status # "active" \/ lic.contact \in {0, Never} THEN "full"
    ELSE IF lic.contact < Warn THEN "warned"
    ELSE IF lic.contact <= ReadOnly THEN "read only" ELSE "admin only"

\* heartbeat_stale_contact_tier()
Tier ==
    IF lic.status # "active" \/ lic.contact \in {0, Never} THEN "full"
    ELSE IF lic.contact <= Warn THEN "warned"
    ELSE IF lic.contact <= ReadOnly THEN "read only" ELSE "admin only"

\* What the middleware answers a request with a decision.
Answer(decision) ==
    IF ~decision.allow THEN "denied" ELSE IF decision.status = "grace" THEN "full" ELSE Tier

\* The decisions requests are judged by at this moment.
InForce == {job[w].decision : w \in {v \in Workers : At(v, "caching")}}
             \cup (IF Cached THEN {cache.decision} ELSE {})

-----------------------------------------------------------------------------
(* Activation                                                                *)

\* activate_license(): the instance is set inactive in memory only, until the
\* gateway has answered.
Activate(w) ==
    /\ Order(w, "activate")
    /\ handler[w].pc = "idle"
    /\ calls < MaxActivations
    /\ Forget
    /\ \/ /\ job' = [job EXCEPT ![w] = [NoJob EXCEPT !.pc = "activated", !.seen = lic,
                                                     !.answer = "malformed"]]
          /\ UNCHANGED registryVars
       \/ /\ reachable
          /\ job' = [job EXCEPT ![w] = [NoJob EXCEPT !.pc = "activating", !.seen = lic]]
          /\ handler' = [handler EXCEPT ![w].pc = "called"]
          /\ calls' = calls + 1
          /\ UNCHANGED <<row, locked, issued>>
       \/ /\ ~reachable
          /\ job' = [job EXCEPT ![w] = [NoJob EXCEPT !.pc = "activated", !.seen = lic,
                                                     !.answer = "failed"]]
          /\ UNCHANGED registryVars
    /\ UNCHANGED <<lic, reachable, confirmed>>

\* The registry's answer.
Activated(w) ==
    /\ At(w, "activating")
    /\ handler[w].pc = "answered"
    /\ reachable
    /\ job' = [job EXCEPT ![w].pc = "activated", ![w].token = handler[w].token,
                          ![w].answer = IF handler[w].token = 0 THEN "failed" ELSE "token"]
    /\ handler' = [handler EXCEPT ![w] = Idle]
    /\ UNCHANGED <<row, locked, issued, calls,
                   lic, cache, reachable, orders, confirmed>>

\* The call times out; the registry's handler goes on regardless.
GiveUp(w) ==
    /\ At(w, "activating")
    /\ job' = [job EXCEPT ![w].pc = "activated", ![w].answer = "failed"]
    /\ UNCHANGED <<registryVars, lic, cache, orders, reachable, confirmed>>

\* Every column of the instance is saved. After a failure the purchase code is
\* all there is, after a success the token is.
SaveActivation(w) ==
    /\ At(w, "activated")
    /\ \/ /\ job[w].answer = "malformed"
          /\ lic' = [Kept(w) EXCEPT !.status = "inactive"]
          /\ job' = Done(w)
       \/ /\ job[w].answer = "failed"
          /\ lic' = [Kept(w) EXCEPT !.status = "inactive", !.code = TRUE, !.token = 0]
          /\ job' = Done(w)
       \/ /\ job[w].answer = "token"
          /\ lic' = [Kept(w) EXCEPT !.status = "inactive", !.code = FALSE,
                                    !.token = job[w].token, !.contact = 0]
          /\ job' = Go(w, "rereading")
    /\ UNCHANGED <<registryVars, cache, reachable, orders, confirmed>>

\* The cache is emptied and a forced validation begins.
Reread(w) ==
    /\ At(w, "rereading")
    /\ Forget
    /\ Validating(w)
    /\ UNCHANGED <<registryVars, lic, reachable, orders, confirmed>>

-----------------------------------------------------------------------------
(* The heartbeat command                                                     *)

SendBeat(w) ==
    /\ Order(w, "beat")
    /\ lic.token # 0
    /\ job' = [job EXCEPT ![w] = [NoJob EXCEPT !.pc = "beating", !.token = lic.token]]
    /\ UNCHANGED <<registryVars, lic, cache, reachable, confirmed>>

AnswerBeat(w) ==
    /\ At(w, "beating")
    /\ job' = IF reachable /\ Accepts(job[w].token) THEN Go(w, "beaten") ELSE Done(w)
    /\ UNCHANGED <<registryVars, lic, cache, orders, reachable, confirmed>>

\* apply_heartbeat_gateway_response()
ApplyBeat(w) ==
    /\ At(w, "beaten")
    /\ lic' = [lic EXCEPT !.contact = 0]
    /\ Forget
    /\ job' = Done(w)
    /\ UNCHANGED <<registryVars, reachable, orders, confirmed>>

-----------------------------------------------------------------------------
(* The surroundings                                                          *)

\* A second server of the site, or a call whose client has already given up.
OtherActivates(c) ==
    /\ handler[c].pc = "idle"
    /\ calls < MaxActivations
    /\ calls' = calls + 1
    /\ handler' = [handler EXCEPT ![c].pc = "called"]
    /\ UNCHANGED <<row, locked, issued, clientVars>>

\* A handler whose client is no longer there.
Abandoned(c) ==
    /\ c \in Workers => ~At(c, "activating")
    /\ handler[c].pc = "answered"
    /\ handler' = [handler EXCEPT ![c] = Idle]
    /\ UNCHANGED <<row, locked, issued, calls, clientVars>>

Outage ==
    /\ reachable
    /\ reachable' = FALSE
    /\ UNCHANGED <<registryVars, lic, cache, job, orders, confirmed>>

Recovery ==
    /\ ~reachable
    /\ reachable' = TRUE
    /\ UNCHANGED <<registryVars, lic, cache, job, orders, confirmed>>

\* No job lasts for more than one tick: the HTTP calls have timeouts.
Tick ==
    /\ \A w \in Workers : At(w, "idle") \/ job[w].age = 0
    /\ lic' = Older(lic, 1)
    /\ cache' = IF cache.left > 1 THEN [cache EXCEPT !.left = @ - 1]
                ELSE [decision |-> Denied, left |-> 0]
    /\ job' = [w \in Workers |-> IF At(w, "idle") THEN job[w] ELSE [job[w] EXCEPT !.age = 1]]
    /\ confirmed' = Later(confirmed, 1, Limit + 1)
    /\ UNCHANGED <<registryVars, orders, reachable>>

Work(w) ==
    \/ Ask(w) \/ Save(w) \/ Cache(w)
    \/ Activated(w) \/ GiveUp(w) \/ SaveActivation(w) \/ Reread(w)
    \/ AnswerBeat(w) \/ ApplyBeat(w)

Next ==
    \/ \E w \in Workers : Request(w) \/ Revalidate(w) \/ Activate(w) \/ SendBeat(w) \/ Work(w)
    \/ RegistryNext /\ UNCHANGED clientVars
    \/ \E c \in Callers \ Workers : OtherActivates(c)
    \/ \E c \in Callers : Abandoned(c)
    \/ Outage \/ Recovery \/ Tick

Spec == Init /\ [][Next]_vars

-----------------------------------------------------------------------------
(* Whenever a request is let through, the registry has called the licence   *)
(* valid within the grace period and the lifetime of the cache, whatever was *)
(* saved over what in between: no sequence of outages, refusals, stale saves  *)
(* and cached decisions feeds the grace period itself.                       *)
AllowedOnRecentYes ==
    (\E d \in InForce : Answer(d) # "denied") => confirmed <= Limit

(* The tiers for a gateway that has long been silent never apply to a        *)
(* request: the grace period is over, and everything refused, long before.   *)
SilenceNeverReadOnly == \A d \in InForce : Answer(d) \notin {"read only", "admin only"}
=============================================================================
