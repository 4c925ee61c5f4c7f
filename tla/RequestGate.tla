---------------------------- MODULE RequestGate ----------------------------
(***************************************************************************)
(* What a request passes before its handler: the rate limiter, in the      *)
(* memory of a replica or shared through Redis (core/ratelimit.py,          *)
(* RateLimitMiddleware), then the gate: the deployment's settings checked   *)
(* at start, the principal, the permission (api/main.py, api/authn.py,      *)
(* auth/rbac.py).                                                           *)
(*                                                                         *)
(* One key of the limiter; keys do not affect each other.  A call to Redis *)
(* blocks its replica.  Time is in ticks, Window of them: only the age of a *)
(* hit is kept.  The gate does not affect the limiter and is stepped        *)
(* through on its own.                                                      *)
(***************************************************************************)
EXTENDS Sums, FiniteSets

CONSTANTS Replicas, Limit, Window, MaxErrors

ASSUME GateAssumption == Limit \in Nat \ {0} /\ Window \in Nat \ {0} /\ MaxErrors \in Nat

VARIABLES limiter,   \* the backend a replica chose when it started
          bucket,    \* of the memory backend: hits by age
          count,     \* the key in Redis, 0 if there is none; it saturates above Limit
          ttl,       \* ticks it has left, 0 if it has no expiry
          calling,   \* replicas between INCR and PEXPIRE
          past,      \* hits admitted by Redis's count, by age (history)
          missed,    \* hits let through because the count failed, by age (history)
          errors,    \* calls that failed and replicas that died so far
          stranded,  \* the expiry of the present key was never set (history)
          settings,  \* of the deployment
          served     \* the request that reached its handler last

limiterVars == <<limiter, bucket, count, ttl, calling, past, missed, errors, stranded>>
gateVars == <<settings, served>>
requestVars == <<limiterVars, gateVars>>

Ages == 1..Window   \* the tick a hit is in, the present one first
Total(b) == SumTo(b, Window)
Hit(b) == [b EXCEPT ![1] = @ + 1]
Older(b) == [a \in Ages |-> IF a = 1 THEN 0 ELSE b[a - 1]]
NoHits == [a \in Ages |-> 0]

-----------------------------------------------------------------------------
(* The limiter.                                                            *)

LimiterInit ==
  /\ limiter = [r \in Replicas |-> "down"] /\ bucket = [r \in Replicas |-> NoHits]
  /\ count = 0 /\ ttl = 0 /\ calling = {} /\ past = NoHits /\ missed = NoHits
  /\ errors = 0 /\ stranded = FALSE

\* build_rate_limiter: Redis if it answers, else the replica's own memory.
StartReplica(r, backend) ==
  /\ limiter[r] = "down"
  /\ limiter' = [limiter EXCEPT ![r] = backend]
  /\ UNCHANGED <<bucket, count, ttl, calling, past, missed, errors, stranded, gateVars>>

\* Mutant: one more than the limit.
AllowInMemory_OneMore(r) ==
  /\ limiter[r] = "memory" /\ Total(bucket[r]) <= Limit
  /\ bucket' = [bucket EXCEPT ![r] = Hit(@)]
  /\ UNCHANGED <<limiter, count, ttl, calling, past, missed, errors, stranded, gateVars>>

\* Admitted if fewer than Limit are younger than the window.
AllowInMemory(r) ==
  /\ limiter[r] = "memory" /\ Total(bucket[r]) < Limit
  /\ bucket' = [bucket EXCEPT ![r] = Hit(@)]
  /\ UNCHANGED <<limiter, count, ttl, calling, past, missed, errors, stranded, gateVars>>

Counted == IF count > Limit THEN count ELSE count + 1

\* The first hit of a window sets the expiry by a second call.
IncrFirst(r) ==
  /\ limiter[r] = "redis" /\ r \notin calling /\ count = 0
  /\ count' = Counted
  /\ calling' = calling \union {r}
  /\ UNCHANGED <<limiter, bucket, ttl, past, missed, errors, stranded, gateVars>>

IncrAgain(r) ==
  /\ limiter[r] = "redis" /\ r \notin calling /\ count > 0
  /\ count' = Counted
  /\ past' = IF Counted <= Limit THEN Hit(past) ELSE past
  /\ UNCHANGED <<limiter, bucket, ttl, calling, missed, errors, stranded, gateVars>>

\* The INCR raises, and the request is let through all the same: Redis is away, or it counted
\* and its answer was lost, when a key just made is left without an expiry.
IncrFails(r) ==
  /\ limiter[r] = "redis" /\ r \notin calling /\ errors < MaxErrors
  /\ errors' = errors + 1
  /\ missed' = Hit(missed)
  /\ \/ UNCHANGED <<count, stranded>>
     \/ count' = Counted /\ stranded' = (stranded \/ count = 0)
  /\ UNCHANGED <<limiter, bucket, ttl, calling, past, gateVars>>

Pexpire(r) ==
  /\ r \in calling
  /\ calling' = calling \ {r}
  /\ ttl' = Window
  /\ past' = Hit(past)
  /\ UNCHANGED <<limiter, bucket, count, missed, errors, stranded, gateVars>>

\* The second call fails, and the request is let through; or the replica dies before it.
PexpireLost(r) ==
  /\ r \in calling /\ errors < MaxErrors
  /\ errors' = errors + 1
  /\ calling' = calling \ {r} /\ stranded' = TRUE
  /\ past' = Hit(past)
  /\ UNCHANGED <<limiter, bucket, count, ttl, missed, gateVars>>

ReplicaDies(r) ==
  /\ limiter[r] # "down" /\ errors < MaxErrors
  /\ errors' = errors + 1
  /\ limiter' = [limiter EXCEPT ![r] = "down"]
  /\ bucket' = [bucket EXCEPT ![r] = NoHits]
  /\ calling' = calling \ {r} /\ stranded' = (stranded \/ r \in calling)
  /\ UNCHANGED <<count, ttl, past, missed, gateVars>>

\* A call that waits for its answer takes less than a tick.
Tick ==
  /\ calling = {}
  /\ bucket' = [r \in Replicas |-> Older(bucket[r])]
  /\ past' = Older(past) /\ missed' = Older(missed)
  /\ ttl' = (IF ttl > 0 THEN ttl - 1 ELSE 0)
  /\ count' = (IF ttl = 1 THEN 0 ELSE count)
  /\ UNCHANGED <<limiter, calling, errors, stranded, gateVars>>

LimiterNext ==
  \/ \E r \in Replicas, backend \in {"memory", "redis"} : StartReplica(r, backend)
  \/ \E r \in Replicas : AllowInMemory(r) \/ IncrFirst(r) \/ IncrAgain(r) \/ IncrFails(r)
                         \/ Pexpire(r) \/ PexpireLost(r) \/ ReplicaDies(r)
  \/ Tick

-----------------------------------------------------------------------------
(* The gate.                                                               *)

ROLES == {"visualizador", "operador", "admin"}
PERMISSIONS == [approve_order |-> {"operador", "admin"}, change_autonomy |-> {"operador", "admin"},
                change_risk |-> {"admin"}, edit_settings |-> {"admin"}, manage_keys |-> {"admin"},
                view_audit |-> {"operador", "admin"}, manage_users |-> {"admin"}]
MACHINE_PERMS == DOMAIN PERMISSIONS \ {"manage_users"}

\* The principal a request resolves to; a platform key has the role of its scope.
Principals == [kind: {"machine", "user"}, role: ROLES]
              \union {[kind |-> "none", role |-> "none"]}
Resolved(who, mode) ==
  IF who.kind # "none" THEN who
  ELSE IF mode = "demo" THEN [kind |-> "demo", role |-> "visualizador"]
  ELSE [kind |-> "anonymous", role |-> "anonymous"]

HasPerm(p, perm) ==
  /\ p.kind \in {"machine", "user"}
  /\ p.role \in PERMISSIONS[perm]
  /\ p.kind = "machine" => perm \in MACHINE_PERMS

Settings == [production: BOOLEAN, keys: BOOLEAN, mode: {"off", "demo", "required"},
             anyOrigin: BOOLEAN]

\* _enforce_prod_security: it refuses to start in production with the gate open.
Starts(s) == s.production => (s.keys \/ s.mode # "off") /\ ~s.anyOrigin

NoRequest == [kind |-> "none", role |-> "none", perm |-> "none"]
GateInit == settings \in {s \in Settings : Starts(s)} /\ served = NoRequest

\* APIKeyMiddleware: under "off" with keys, a machine only.
PassesMiddleware(p) == settings.mode = "off" /\ settings.keys => p.kind = "machine"
\* require_principal: form, a body that is not JSON on a write.
PassesPrincipal(p, form) ==
  /\ settings.mode = "required" => p.kind # "anonymous"
  /\ ~(p.kind = "user" /\ form)
\* require_perm
PassesPerm(p, perm) == (p.kind = "anonymous" /\ settings.mode = "off") \/ HasPerm(p, perm)

Serve(who, perm, form) ==
  LET p == Resolved(who, settings.mode)
  IN /\ PassesMiddleware(p) /\ PassesPrincipal(p, form) /\ PassesPerm(p, perm)
     /\ served' = [kind |-> p.kind, role |-> p.role, perm |-> perm]
     /\ UNCHANGED <<settings, limiterVars>>

\* A new deployment.
Redeploy(s) ==
  /\ Starts(s) /\ settings' = s /\ served' = NoRequest
  /\ UNCHANGED limiterVars

GateNext ==
  \/ \E who \in Principals, perm \in DOMAIN PERMISSIONS, form \in BOOLEAN : Serve(who, perm, form)
  \/ \E s \in Settings : Redeploy(s)

RequestInit == LimiterInit /\ GateInit
RequestSpec == RequestInit /\ [][LimiterNext \/ GateNext]_requestVars

-----------------------------------------------------------------------------
(* Types.                                                                  *)
RequestTypeOK ==
  /\ limiter \in [Replicas -> {"down", "memory", "redis"}]
  /\ bucket \in [Replicas -> [Ages -> Nat]] /\ past \in [Ages -> Nat] /\ missed \in [Ages -> Nat]
  /\ count \in 0..(Limit + 1) /\ ttl \in 0..Window /\ calling \subseteq Replicas
  /\ errors \in 0..MaxErrors /\ stranded \in BOOLEAN
  /\ settings \in Settings /\ DOMAIN served = {"kind", "role", "perm"}

(* In no window of Window ticks does a replica on its own memory admit more than the   *)
(* limit, nor do all the replicas on Redis count through more than twice the limit, the  *)
(* end of one fixed window and the beginning of the next; what they let through without  *)
(* a count is one request per call that failed, so that no other step of the limiter      *)
(* lets a request by; and the shared key always has an expiry, so that it stops refusing, *)
(* unless a call was lost that made the key or set it (ratelimit.py:60-67).               *)
WithinWindow ==
  /\ \A r \in Replicas : Total(bucket[r]) <= Limit
  /\ Total(past) <= 2 * Limit
  /\ Total(past) + Total(missed) <= 2 * Limit + errors
  /\ (count > 0 /\ calling = {} /\ ~stranded) => ttl > 0

(* In production a handler behind a permission is reached by a signed-in user or a key  *)
(* whose role holds it and by nobody else, though the permission check itself lets the  *)
(* anonymous through when authentication is off (authn.py:138, main.py:74).              *)
ProductionIsClosed ==
  (settings.production /\ served # NoRequest)
    => /\ served.kind \in {"machine", "user"}
       /\ served.role \in PERMISSIONS[served.perm]
       /\ served.perm = "manage_users" => served.kind = "user"

=============================================================================
