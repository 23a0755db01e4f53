------------------------------- MODULE Startup -------------------------------
(***************************************************************************)
(* From the command line to a serving process: RunE of cmd/podsh/root.go,  *)
(* the Config of the profiles, the permission check, server.New, and the   *)
(* metrics registry the parts share.                                       *)
(*                                                                         *)
(* A metric is registered by name, twice for those of sshd, with errors    *)
(* ignored; it is looked up by name at every use, and a name that is not   *)
(* found panics.  The collector a lookup finds is in the map of            *)
(* promMetrics, the one a scrape reads is in the Prometheus registry.      *)
(***************************************************************************)
EXTENDS Integers, Sequences

CONSTANT MaxUses   \* bound on the requests served

ASSUME UsesAssumption == MaxUses \in Nat

Registries == {"profile", "default"}   \* the NewPrometheus of each origin
SSHdNames  == {"successful_auth", "failed_auth"}
K8sNames   == {"exec_streams", "tunnel_forwards", "tunnel_streams", "sftp_streams"}
Names      == SSHdNames \cup K8sNames

\* What Config does before the permissions, in order; each step may fail.
Steps(profile) ==
  IF profile = "dev" THEN <<"log level", "kubeconfig", "clientset", "signer", "public key">>
  ELSE <<"log level", "kubeconfig", "clientset", "signer", "redis">>

\* Mutant: the agent's patch is not asked for.
RequiredNoPatch ==
  <<"get pods", "list pods", "watch pods", "create exec", "create portforward",
    "update ephemeralcontainers">>

Required ==
  <<"get pods", "list pods", "watch pods", "create exec", "create portforward",
    "update ephemeralcontainers", "patch ephemeralcontainers">>

Permissions ==
  {"get pods", "list pods", "watch pods", "create exec", "create portforward",
   "update ephemeralcontainers", "patch ephemeralcontainers"}

\* The gauge each kind of request raises while it runs, and the calls it makes.
Kinds == {"exec", "tunnel", "stream", "sftp"}

GaugeOf(kind) ==
  CASE kind = "exec"   -> "exec_streams"
    [] kind = "tunnel" -> "tunnel_forwards"
    [] kind = "stream" -> "tunnel_streams"
    [] kind = "sftp"   -> "sftp_streams"

CallsOf(kind) ==
  CASE kind = "exec"   -> {"list pods", "create exec"}
    [] kind = "tunnel" -> {"list pods", "create portforward"}
    [] kind = "stream" -> {}
    [] kind = "sftp"   -> {"list pods", "get pods", "patch ephemeralcontainers", "create exec"}

VARIABLES
  phase,     \* where RunE is
  profile,   \* the value of --profile
  step,      \* steps of Config, then permissions, that have succeeded
  pending,   \* names the current registration loop has still to register
  held,      \* held[r][n]: the collector in promMetrics' map, 0 if none
  exported,  \* exported[r][n]: the collector in the Prometheus registry, 0 if none
  value,     \* value[c]: what collector c has counted
  wired,     \* the registry that sshd, the handler and the probe server use
  grants,    \* what the cluster allows podsh
  running,   \* running[k]: requests of kind k in progress
  uses,      \* requests served so far
  counted,   \* history: what each metric should say
  missing    \* history: metrics and permissions that were needed and not there

registry == <<held, exported, value>>
served   == <<running, uses, counted, missing>>
vars     == <<phase, profile, step, pending, held, exported, value, wired, grants,
              running, uses, counted, missing>>

Nowhere == [sshd |-> "none", handler |-> "none", probe |-> "none"]

Init ==
  /\ phase = "get"
  /\ profile \in {"dev", "prod", "other"}
  /\ step = 0
  /\ pending = {}
  /\ held = [r \in Registries |-> [n \in Names |-> 0]]
  /\ exported = [r \in Registries |-> [n \in Names |-> 0]]
  /\ value = << >>
  /\ wired = Nowhere
  /\ grants \in SUBSET Permissions
  /\ running = [k \in Kinds |-> 0]
  /\ uses = 0
  /\ counted = [n \in Names |-> 0]
  /\ missing = {}
------------------------------------------------------------------------------
(* RunE and Config. *)

Get ==
  /\ phase = "get"
  /\ phase' = IF profile \in {"dev", "prod"} THEN "config" ELSE "exited"
  /\ UNCHANGED <<profile, step, pending, registry, wired, grants, served>>

\* One step of Config succeeds; after the last the permissions are asked for.
Configure ==
  /\ phase = "config"
  /\ IF step < Len(Steps(profile))
     THEN step' = step + 1 /\ UNCHANGED phase
     ELSE step' = 0 /\ phase' = "permissions"
  /\ UNCHANGED <<profile, pending, registry, wired, grants, served>>

\* A step of Config, or a query of the permission check, fails.
FailConfig ==
  /\ \/ phase = "config" /\ step < Len(Steps(profile))
     \/ phase = "permissions" /\ step < Len(Required)
  /\ phase' = "exited"
  /\ UNCHANGED <<profile, step, pending, registry, wired, grants, served>>

\* canI for the next permission; the first that is missing ends the start.
Permit ==
  /\ phase = "permissions"
  /\ step < Len(Required)
  /\ IF Required[step + 1] \in grants
     THEN step' = step + 1 /\ UNCHANGED phase
     ELSE phase' = "exited" /\ UNCHANGED step
  /\ UNCHANGED <<profile, pending, registry, wired, grants, served>>

\* metrics.NewPrometheus, and the loop of RegisterSSHdMetrics begins.
Permitted ==
  /\ phase = "permissions"
  /\ step = Len(Required)
  /\ phase' = "sshd metrics"
  /\ pending' = SSHdNames
  /\ UNCHANGED <<profile, step, registry, wired, grants, served>>

Registering == phase \in {"sshd metrics", "k8s metrics", "new"}

\* Mutant: the map takes the new collector although the registry refuses it.
RegisterReplace(r, n) ==
  LET c == Len(value) + 1
  IN  /\ value' = Append(value, 0)
      /\ held' = [held EXCEPT ![r][n] = c]
      /\ exported' = IF exported[r][n] # 0 THEN exported
                     ELSE [exported EXCEPT ![r][n] = c]

\* RegisterCounter and RegisterGauge: a name that is there is an error, as is one the
\* registry has; the error is ignored.
Register(r, n) ==
  IF held[r][n] # 0 \/ exported[r][n] # 0
  THEN UNCHANGED registry
  ELSE LET c == Len(value) + 1
       IN  /\ value' = Append(value, 0)
           /\ held' = [held EXCEPT ![r][n] = c]
           /\ exported' = [exported EXCEPT ![r][n] = c]

\* The registry a loop registers in: Config's own, or the one server.New was given.
Target == IF phase = "new" THEN wired.probe ELSE "profile"

\* One turn of a range over a map: the order of the names is arbitrary.
RegisterOne(n) ==
  /\ Registering
  /\ n \in pending
  /\ Register(Target, n)
  /\ pending' = pending \ {n}
  /\ UNCHANGED <<phase, profile, step, wired, grants, served>>

\* RegisterK8sMetrics begins.
RegisterK8s ==
  /\ phase = "sshd metrics"
  /\ pending = {}
  /\ phase' = "k8s metrics"
  /\ pending' = K8sNames
  /\ UNCHANGED <<profile, step, registry, wired, grants, served>>

\* Config returns, its handler bound to its registry.  server.New starts from a
\* default with a registry of its own, which WithMetrics replaces, and registers the
\* metrics of sshd again.
New ==
  /\ phase = "k8s metrics"
  /\ pending = {}
  /\ wired' = [sshd |-> "none", handler |-> "profile", probe |-> "profile"]
  /\ phase' = "new"
  /\ pending' = SSHdNames
  /\ UNCHANGED <<profile, step, registry, grants, served>>

\* sshd gets the registry of the server's Config; Validate finds nothing missing, and
\* Start serves.
Start ==
  /\ phase = "new"
  /\ pending = {}
  /\ wired' = [wired EXCEPT !.sshd = wired.probe]
  /\ phase' = "serving"
  /\ UNCHANGED <<profile, step, pending, registry, grants, served>>
------------------------------------------------------------------------------
(* Serving: what requests do with metrics and permissions. *)

\* m.Counter(name).Inc(), m.Gauge(name).Inc() or Dec(): the lookup may panic.
Bump(r, n, d) ==
  IF held[r][n] = 0
  THEN missing' = missing \cup {n} /\ UNCHANGED value
  ELSE value' = [value EXCEPT ![held[r][n]] = @ + d] /\ UNCHANGED missing

\* A handshake: the counter of its outcome is raised.
LogIn(n) ==
  /\ phase = "serving"
  /\ uses < MaxUses
  /\ uses' = uses + 1
  /\ counted' = [counted EXCEPT ![n] = @ + 1]
  /\ Bump(wired.sshd, n, 1)
  /\ UNCHANGED <<phase, profile, step, pending, held, exported, wired, grants, running>>

\* A request, refused by the cluster or under way; a stream needs a tunnel.
Begin(kind) ==
  /\ phase = "serving"
  /\ uses < MaxUses
  /\ kind = "stream" => running["tunnel"] > 0
  /\ uses' = uses + 1
  /\ IF CallsOf(kind) \subseteq grants
     THEN /\ running' = [running EXCEPT ![kind] = @ + 1]
          /\ counted' = [counted EXCEPT ![GaugeOf(kind)] = @ + 1]
          /\ Bump(wired.handler, GaugeOf(kind), 1)
     ELSE /\ missing' = missing \cup (CallsOf(kind) \ grants)
          /\ UNCHANGED <<running, counted, value>>
  /\ UNCHANGED <<phase, profile, step, pending, held, exported, wired, grants>>

\* The deferred Dec looks its gauge up again.
End(kind) ==
  /\ phase = "serving"
  /\ running[kind] > 0
  /\ running' = [running EXCEPT ![kind] = @ - 1]
  /\ counted' = [counted EXCEPT ![GaugeOf(kind)] = @ - 1]
  /\ Bump(wired.handler, GaugeOf(kind), -1)
  /\ UNCHANGED <<phase, profile, step, pending, held, exported, wired, grants, uses>>
------------------------------------------------------------------------------
Next ==
  \/ Get \/ Configure \/ FailConfig \/ Permit \/ Permitted
  \/ \E n \in Names : RegisterOne(n)
  \/ RegisterK8s \/ New \/ Start
  \/ \E n \in SSHdNames : LogIn(n)
  \/ \E kind \in Kinds : Begin(kind) \/ End(kind)

Spec == Init /\ [][Next]_vars
------------------------------------------------------------------------------
(* Properties. *)

\* No request of a serving process panics in a lookup or is refused by the cluster:
\* what the start registered and asked for covers what the handlers use.
NothingMissing == missing = {}

\* A scrape of the probe server reads what sshd and the handler counted, although
\* names are registered twice and three parts find the registry on their own paths.
ScrapeAgrees ==
  phase = "serving" =>
    \A n \in Names :
      LET c == exported[wired.probe][n] IN c # 0 /\ value[c] = counted[n]
==============================================================================
