------------------------------ MODULE Extensions ------------------------------
(* The registries through which a project extends the assistant              *)
(* (capabilities/src): the provider life cycle they all share, local plugins *)
(* with their managed policy, MCP servers with deferred schemas, app API     *)
(* connectors, and the capability index the toolsets are resolved from.      *)
(*                                                                           *)
(* Operations take &self and lock piecewise, but nothing in the repository   *)
(* calls one registry from two threads, so an operation is one action.  What *)
(* does happen between two operations is what the outside does: a server     *)
(* changes its schema, an owner disables or revokes a provider.              *)
EXTENDS Naturals, FiniteSets

CONSTANTS Plugins, Manifests,   \* Manifests: [plugin, caps, hooks, first]
          Servers, Schemas,     \* an MCP server offers one tool under a schema
          Connectors,
          Caps,                 \* capability ids a grant can name
          MaxPolicyVersion,     \* bound on managed policies
          MaxCalls              \* bound on prepared calls

(* A provider is named by its kind and its id, so plugins, servers and        *)
(* connectors differ; a plugin is known by the manifest it was discovered by. *)
ASSUME ExtensionsAssumption ==
    /\ Plugins \cap (Servers \cup Connectors) = {} /\ Servers \cap Connectors = {}
    /\ \A m \in Manifests : m.plugin \in Plugins
    /\ \A p \in Plugins : \E m \in Manifests : m.plugin = p /\ m.first

VARIABLES provider,      \* provider -> [state, grant], the records of the registry
          indexed,       \* the capability index: set of [source, cap]
          hooks,         \* the hook registry: set of [source, hook]
          plugin,        \* plugin -> [manifest, status, failed]
          active,        \* plugin -> managed flag, of the active snapshots
          policy,        \* the managed policy in force, or NoPolicy
          offered,       \* server -> the schema the server process answers with
          tools,         \* server -> [schema, digest, fresh] of its discovered tool
          revoked,       \* connectors whose revocation flag is set
          calls,         \* prepared intents: [target, digest]
          executed       \* history: what passed the recheck

extensionVars == <<provider, indexed, hooks, plugin, active, policy, offered,
                   tools, revoked, calls, executed>>
pluginVars == <<hooks, plugin, active, policy>>
callVars == <<offered, tools, revoked, calls, executed>>

Providers == Plugins \cup Servers \cup Connectors
NoPolicy == [version |-> 0, allowed |-> {}]
NoTool == [schema |-> "none", digest |-> "none", fresh |-> FALSE]
Declared(p) == IF p \in Plugins
               THEN (CHOOSE m \in Manifests : m.plugin = p /\ m.first).caps
               ELSE {}

ExtensionsInit ==
    /\ provider = [p \in Providers |-> [state |-> "discovered", grant |-> {}, granted |-> FALSE]]
    /\ indexed = {} /\ hooks = {}
    /\ plugin = [p \in Plugins |-> [manifest |-> CHOOSE m \in Manifests : m.plugin = p /\ m.first,
                                    status |-> "discovered", failed |-> FALSE]]
    /\ active = [p \in {} |-> FALSE]
    /\ policy = NoPolicy
    /\ offered \in [Servers -> Schemas]
    /\ tools = [s \in Servers |-> NoTool]
    /\ revoked = {} /\ calls = {} /\ executed = {}

-----------------------------------------------------------------------------
(* The life cycle every provider goes through.                               *)

Status(p, s) ==
    plugin' = IF p \in Plugins THEN [plugin EXCEPT ![p].status = s, ![p].failed = FALSE]
              ELSE plugin

Configure(p) ==
    /\ provider[p].state = "discovered"
    /\ provider' = [provider EXCEPT ![p].state = "configured"]
    /\ Status(p, "configured")
    /\ UNCHANGED <<indexed, hooks, active, policy, callVars>>

Enable(p) ==
    /\ provider[p].state \in {"configured", "disabled"}
    /\ provider' = [provider EXCEPT ![p].state = "enabled"]
    /\ Status(p, "enabled")
    /\ UNCHANGED <<indexed, hooks, active, policy, callVars>>

BindTrust(p) ==
    /\ provider[p].state = "enabled"
    /\ provider' = [provider EXCEPT ![p].state = "trusted"]
    /\ Status(p, "trusted")
    /\ UNCHANGED <<indexed, hooks, active, policy, callVars>>

(* A grant may be renewed, wider or narrower, but covers what is declared. *)
GrantProvider(p) ==
    /\ provider[p].state = "trusted"
    /\ \E g \in IF p \in Plugins THEN SUBSET Caps ELSE {{}} :
          /\ Declared(p) \subseteq g
          /\ provider' = [provider EXCEPT ![p].grant = g, ![p].granted = TRUE]
    /\ UNCHANGED <<indexed, pluginVars, callVars>>

TurnedOff(p) == [provider EXCEPT ![p] = [state |-> "disabled", grant |-> {}, granted |-> FALSE]]
MayTurnOff(p) == provider[p].state \in {"configured", "enabled", "trusted"}
Usable(p) == provider[p].state = "trusted" /\ provider[p].granted
Without(entries, p) == {e \in entries : e.source # p}

(* Fault: what is switched off keeps its place in the capability index. *)
RetireHooksOnly(p) ==
    /\ indexed' = indexed
    /\ hooks' = Without(hooks, p)
    /\ active' = [q \in DOMAIN active \ {p} |-> active[q]]

(* A switched-off plugin loses its capabilities, its hooks and its snapshot. *)
Retire(p) ==
    /\ indexed' = Without(indexed, p)
    /\ hooks' = Without(hooks, p)
    /\ active' = [q \in DOMAIN active \ {p} |-> active[q]]

DisablePlugin(p) ==
    /\ MayTurnOff(p)
    /\ provider' = TurnedOff(p)
    /\ Retire(p)
    /\ Status(p, "disabled")
    /\ UNCHANGED <<policy, callVars>>

MarkFailed(p) ==
    /\ MayTurnOff(p)
    /\ provider' = TurnedOff(p)
    /\ Retire(p)
    /\ plugin' = [plugin EXCEPT ![p].status = "failed", ![p].failed = TRUE]
    /\ UNCHANGED <<policy, callVars>>

-----------------------------------------------------------------------------
(* Plugin activation: every resolved plugin is staged, then the whole set    *)
(* replaces what all plugins contributed before.                             *)

Resolved(allowed) == {p \in Plugins \cap allowed :
                         Usable(p) /\ Declared(p) \subseteq provider[p].grant}
ManifestOf(p, replacement) ==
    IF \E m \in replacement : m.plugin = p THEN CHOOSE m \in replacement : m.plugin = p
    ELSE plugin[p].manifest
Stageable(ps, replacement) ==
    /\ \A p \in ps : ManifestOf(p, replacement).caps \subseteq provider[p].grant
    /\ \A p, q \in ps : p # q => ManifestOf(p, replacement).hooks
                                 \cap ManifestOf(q, replacement).hooks = {}

Commit(ps, replacement, managed) ==
    LET M(p) == ManifestOf(p, replacement)
        Off == Servers \cup Connectors IN
    /\ indexed' = {e \in indexed : e.source \in Off}
                  \cup UNION {{[source |-> p, cap |-> c] : c \in M(p).caps} : p \in ps}
    /\ hooks' = UNION {{[source |-> p, hook |-> h] : h \in M(p).hooks} : p \in ps}
    /\ active' = [p \in ps |-> managed]
    /\ plugin' = [p \in Plugins |->
                    IF p \in ps THEN [manifest |-> M(p), status |-> "active", failed |-> FALSE]
                    ELSE IF plugin[p].status = "active" THEN [plugin[p] EXCEPT !.status = "trusted"]
                    ELSE plugin[p]]

Activate(allowed) ==
    /\ policy = NoPolicy
    /\ Stageable(Resolved(allowed), {})
    /\ Commit(Resolved(allowed), {}, FALSE)
    /\ UNCHANGED <<provider, policy, callVars>>

(* Fault: an unmanaged reload looks only at the plugin being active. *)
ReloadableAnyway(p) == plugin[p].status = "active"

Reloadable(p) == plugin[p].status = "active" /\ ~active[p]

(* A reload that cannot be staged keeps what was active and notes the failure. *)
Reload(m, allowed) ==
    LET p == m.plugin IN
    /\ IF Reloadable(p) /\ Stageable(Resolved(allowed), {m})
       THEN Commit(Resolved(allowed), {m}, FALSE)
       ELSE /\ plugin' = [plugin EXCEPT ![p].failed = TRUE]
            /\ UNCHANGED <<indexed, hooks, active>>
    /\ UNCHANGED <<provider, policy, callVars>>

(* Under a managed policy only its allowed plugins are staged, each from a   *)
(* manifest its binding signs; one unsigned manifest refuses them all.  A    *)
(* managed reload that is refused keeps what was active and notes it.        *)
ActivateManaged(next, allowed, replacement, bound) ==
    LET ps == Resolved(allowed) \cap next.allowed
        accepted == /\ next.version >= policy.version
                    /\ \A p \in ps : ManifestOf(p, replacement) \in bound
                    /\ Stageable(ps, replacement) IN
    /\ \/ accepted /\ Commit(ps, replacement, TRUE) /\ policy' = next
       \/ /\ ~accepted /\ replacement # {}
          /\ plugin' = [p \in Plugins |-> [plugin[p] EXCEPT
                           !.failed = @ \/ \E m \in replacement : m.plugin = p]]
          /\ UNCHANGED <<indexed, hooks, active, policy>>
    /\ UNCHANGED <<provider, callVars>>

PluginNext ==
    \/ \E p \in Plugins : Configure(p) \/ Enable(p) \/ BindTrust(p) \/ GrantProvider(p)
                          \/ DisablePlugin(p) \/ MarkFailed(p)
    \/ \E allowed \in SUBSET Plugins : Activate(allowed)
    \/ \E m \in Manifests, allowed \in SUBSET Plugins : Reload(m, allowed)
    \/ \E v \in 1..MaxPolicyVersion, ok \in SUBSET Plugins,
          replacement \in {{}} \cup {{m} : m \in Manifests},
          bound \in {Manifests} \cup {Manifests \ {m} : m \in Manifests} :
          ActivateManaged([version |-> v, allowed |-> ok], Plugins, replacement, bound)

-----------------------------------------------------------------------------
(* MCP servers.  Discovery runs the server and forgets the old tool whatever *)
(* comes of it; the schema is bound when the tool is selected.               *)

Discover(s) ==
    /\ Usable(s)
    /\ \/ tools' = [tools EXCEPT ![s] = [schema |-> offered[s], digest |-> "none", fresh |-> TRUE]]
       \/ tools' = [tools EXCEPT ![s] = NoTool]        \* timeout, bad answer
    /\ UNCHANGED <<provider, indexed, pluginVars, offered, revoked, calls, executed>>

ResolveSchema(s) ==
    /\ Usable(s) /\ tools[s].schema # "none"
    /\ tools' = [tools EXCEPT ![s].digest = tools[s].schema]
    /\ UNCHANGED <<provider, indexed, pluginVars, offered, revoked, calls, executed>>

PrepareCall(t) ==
    /\ Usable(t) /\ Cardinality(calls) < MaxCalls
    /\ \/ t \in Servers /\ tools[t].digest # "none"
       \/ t \in Connectors \ revoked
    /\ calls' = calls \cup {[target |-> t,
                             digest |-> IF t \in Servers THEN tools[t].digest ELSE "fixed"]}
    /\ UNCHANGED <<provider, indexed, pluginVars, offered, tools, revoked, executed>>

(* Fault: switching a server off keeps what was discovered of it. *)
ForgetNothing(s) == tools' = [tools EXCEPT ![s].fresh = FALSE]

Forget(s) == tools' = [tools EXCEPT ![s] = NoTool]

DisableServer(s) ==
    /\ MayTurnOff(s)
    /\ provider' = TurnedOff(s)
    /\ Forget(s)
    /\ UNCHANGED <<indexed, pluginVars, offered, revoked, calls, executed>>

(* Connectors. Revocation outlives any later enabling. *)
RevokeConnector(a) ==
    /\ revoked' = revoked \cup {a}
    /\ provider' = IF MayTurnOff(a) THEN TurnedOff(a) ELSE provider
    /\ UNCHANGED <<indexed, pluginVars, offered, tools, calls, executed>>

(* Fault: the recheck trusts the record and not the revocation flag. *)
RecheckedByRecord(c) ==
    /\ Usable(c.target)
    /\ c.target \in Servers => /\ tools[c.target].schema = c.digest
                               /\ tools[c.target].digest = c.digest

(* The recheck immediately before execution. *)
Rechecked(c) ==
    /\ Usable(c.target)
    /\ c.target \in Servers => /\ tools[c.target].schema = c.digest
                               /\ tools[c.target].digest = c.digest
    /\ c.target \notin revoked

ExecuteCall(c) ==
    /\ Rechecked(c)
    /\ executed' = executed \cup
         {[target |-> c.target, revoked |-> c.target \in revoked,
           fresh |-> c.target \in Servers => tools[c.target].fresh]}
    /\ calls' = calls \ {c}
    /\ UNCHANGED <<provider, indexed, pluginVars, offered, tools, revoked>>

ChangeSchema(s) ==
    /\ \E x \in Schemas : offered' = [offered EXCEPT ![s] = x]
    /\ UNCHANGED <<provider, indexed, pluginVars, tools, revoked, calls, executed>>

(* index_discovered and index_active: what is no longer active loses its place. *)
IndexProviders(ps, allowed) ==
    LET shown == {p \in ps \cap allowed : Usable(p) /\ p \notin revoked
                      /\ (p \in Servers => tools[p].schema # "none")} IN
    /\ indexed' = {e \in indexed : e.source \notin ps}
                  \cup {[source |-> p, cap |-> "use"] : p \in shown}
    /\ UNCHANGED <<provider, pluginVars, callVars>>

CallNext ==
    \/ \E p \in Servers \cup Connectors :
          Configure(p) \/ Enable(p) \/ BindTrust(p) \/ GrantProvider(p) \/ PrepareCall(p)
    \/ \E s \in Servers : Discover(s) \/ ResolveSchema(s) \/ DisableServer(s) \/ ChangeSchema(s)
    \/ \E a \in Connectors : RevokeConnector(a)
    \/ \E c \in calls : ExecuteCall(c)
    \/ \E ps \in {Servers, Connectors}, allowed \in SUBSET (Servers \cup Connectors) :
          IndexProviders(ps, allowed)

-----------------------------------------------------------------------------
(* The surface a model sees is that of the active snapshots: the capability  *)
(* index and the hook registry hold for each plugin what its installed       *)
(* manifest contributes, exactly while it is active, trusted and granted.    *)
SurfaceIsActive ==
    LET On == DOMAIN active IN
    /\ \A p \in Plugins :
          /\ p \in On <=> plugin[p].status = "active"
          /\ p \in On => Usable(p)
          /\ {e.cap : e \in {x \in indexed : x.source = p}}
               = IF p \in On THEN plugin[p].manifest.caps ELSE {}
    /\ hooks = UNION {{[source |-> p, hook |-> h] : h \in plugin[p].manifest.hooks} : p \in On}

(* Once a managed policy is in force every active plugin is one it allows    *)
(* and came in through a managed activation: neither activate nor reload is  *)
(* a way around it.                                                          *)
PluginsFollowPolicy ==
    policy # NoPolicy => \A p \in DOMAIN active : active[p] /\ p \in policy.allowed

(* What is executed comes from a discovery made since its server was last    *)
(* switched off, and a revoked connector is silent whatever is enabled,      *)
(* trusted and granted again after the revocation.                           *)
CallsAreCurrent == \A e \in executed : e.fresh /\ ~e.revoked

(* The surface a model sees, what plugins a policy lets in, and what calls   *)
(* execute (SnapshotRegistry, ManagedPluginPolicy, McpRegistry, ...).        *)
ExtensionsSound == SurfaceIsActive /\ PluginsFollowPolicy /\ CallsAreCurrent
=============================================================================
