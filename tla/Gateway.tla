-------------------------------- MODULE Gateway --------------------------------
(* The gateway.  Authenticated channels of peers, bound to a grant and used     *)
(* later by workers for owner commands and device signals while the owner       *)
(* renews and revokes grants; the messages of participants with the provenance  *)
(* they are given; and the rate window of the local server.  A worker reads     *)
(* the time once, checks the channel, then the peer, then claims the nonce.     *)
EXTENDS Integers, Sequences, FiniteSets

CONSTANTS Workers,          \* threads serving peers
          GatewayPeers, Nonces, PeerSignals,
          ChannelTtl, GrantTtl, MaxGrants, \* bound on the grants of a peer
          Participants,     \* who writes messages: records [kind, id]
          Principals,       \* who is authenticated: records [kind, id, method]
          MessageKeys,      \* adapter and message id
          RateLimit, RateWindow, AuthTtl, \* of the server and the owner's authentication
          MaxAdmitted,      \* bound on the admitted requests
          MaxGatewayTime    \* bound on the clock

ASSUME GatewayAssumption == {ChannelTtl, GrantTtl, RateLimit, RateWindow, AuthTtl} \subseteq Nat \ {0}

VARIABLES gNow,
          grants,     \* peer -> the number of its grant, 0 when none; revoked; its expiry
          peerVersion, \* version of the federation aggregate
          channels,   \* authenticated channels handed out
          ops,        \* worker -> the operation it serves
          nonces, claimedSignals,      \* claimed, in the store
          executed,   \* commands and signals that passed their claim (history)
          messages,   \* message key -> provenance of the run it started
          window, admitted,     \* rate window; admission times of the current process (history)
          inFlight, controlled  \* authorised requests; the last operation performed (history)

peerVars == <<grants, peerVersion, channels, ops, nonces, claimedSignals, executed>>
serverVars == <<window, admitted, inFlight, controlled>>
gatewayVars == <<gNow, peerVars, messages, serverVars>>

IdleWorker == [stage |-> "idle"]
Active(p, now) == grants[p].n > 0 /\ ~grants[p].revoked /\ now < grants[p].expires

--------------------------------------------------------------------------------
(* The owner's grants.                                                          *)

RegisterPeer(p) ==
  /\ grants[p].n < MaxGrants
  /\ grants' = [grants EXCEPT ![p] = [n |-> @.n + 1, revoked |-> FALSE, expires |-> gNow + GrantTtl]]
  /\ peerVersion' = peerVersion + 1
  /\ UNCHANGED <<gNow, channels, ops, nonces, claimedSignals, executed, messages, serverVars>>

RevokePeer(p) ==
  /\ grants[p].n > 0 /\ ~grants[p].revoked
  /\ grants' = [grants EXCEPT ![p].revoked = TRUE] /\ peerVersion' = peerVersion + 1
  /\ UNCHANGED <<gNow, channels, ops, nonces, claimedSignals, executed, messages, serverVars>>

\* bind_channel
BindChannel(p, purpose) ==
  /\ Active(p, gNow) /\ gNow + ChannelTtl <= grants[p].expires
  /\ channels' = channels \cup {[peer |-> p, grant |-> grants[p].n, purpose |-> purpose, expires |-> gNow + ChannelTtl]}
  /\ UNCHANGED <<gNow, grants, peerVersion, ops, nonces, claimedSignals, executed, messages, serverVars>>

--------------------------------------------------------------------------------
(* A peer's request: a command under a nonce, or a device signal.               *)

\* Fault: the channel is trusted for as long as it has not expired.
ValidShape(ch, purpose, now) == ch.purpose = purpose /\ now < ch.expires
\* validate_channel
ValidChannel(ch, purpose, now) ==
  /\ ch.purpose = purpose /\ now < ch.expires
  /\ grants[ch.peer].n = ch.grant /\ Active(ch.peer, now)

Live(ch) == grants[ch.peer].n = ch.grant /\ ~grants[ch.peer].revoked
BeginOp(w, ch, purpose, ref) ==
  /\ ops[w] = IdleWorker /\ ValidChannel(ch, purpose, gNow)
  /\ ops' = [ops EXCEPT ![w] = [stage |-> "checked", purpose |-> purpose, peer |-> ch.peer, ref |-> ref,
                                at |-> gNow, live |-> Live(ch)]]
  /\ UNCHANGED <<gNow, grants, peerVersion, channels, nonces, claimedSignals, executed, messages, serverVars>>

\* apply_owner_command, accept_device_signal: the peer's own state, at the time the worker has.
AuthoriseOp(w) ==
  /\ ops[w].stage = "checked"
  /\ ops' = [ops EXCEPT ![w] = IF Active(ops[w].peer, ops[w].at) THEN [@ EXCEPT !.stage = "authorised"] ELSE IdleWorker]
  /\ UNCHANGED <<gNow, grants, peerVersion, channels, nonces, claimedSignals, executed, messages, serverVars>>

Executed(w) == executed' = executed \cup {[n |-> Cardinality(executed), purpose |-> ops[w].purpose,
                                           ref |-> ops[w].ref, live |-> ops[w].live]}

\* Fault: a nonce is only refused with another command.
ClaimNonceAgain(w) ==
  /\ ops[w].stage = "authorised" /\ ops[w].purpose = "control"
  /\ nonces' = nonces \cup {ops[w].ref} /\ Executed(w)
  /\ ops' = [ops EXCEPT ![w] = [@ EXCEPT !.stage = "executes"]]
  /\ UNCHANGED <<gNow, grants, peerVersion, channels, claimedSignals, messages, serverVars>>
\* claim_control_nonce
ClaimNonce(w) ==
  /\ ops[w].stage = "authorised" /\ ops[w].purpose = "control"
  /\ IF ops[w].ref \in nonces
     THEN ops' = [ops EXCEPT ![w] = IdleWorker] /\ UNCHANGED <<nonces, executed>>
     ELSE /\ nonces' = nonces \cup {ops[w].ref} /\ Executed(w)
          /\ ops' = [ops EXCEPT ![w] = [@ EXCEPT !.stage = "executes"]]
  /\ UNCHANGED <<gNow, grants, peerVersion, channels, claimedSignals, messages, serverVars>>

\* The command revokes a peer: it reads the version, then appends at it; a conflict is an error
\* and the nonce stays used.
ReadsVersion(w, p) ==
  /\ ops[w].stage = "executes"
  /\ ops' = [ops EXCEPT ![w] = [stage |-> "appends", target |-> p, expected |-> peerVersion]]
  /\ UNCHANGED <<gNow, grants, peerVersion, channels, nonces, claimedSignals, executed, messages, serverVars>>
AppendsRevocation(w) ==
  /\ ops[w].stage = "appends" /\ ops' = [ops EXCEPT ![w] = IdleWorker]
  /\ LET p == ops[w].target IN
     IF ops[w].expected = peerVersion /\ grants[p].n > 0 /\ ~grants[p].revoked
     THEN grants' = [grants EXCEPT ![p].revoked = TRUE] /\ peerVersion' = peerVersion + 1
     ELSE UNCHANGED <<grants, peerVersion>>
  /\ UNCHANGED <<gNow, channels, nonces, claimedSignals, executed, messages, serverVars>>

\* claim_device_signal
ClaimSignal(w) ==
  /\ ops[w].stage = "authorised" /\ ops[w].purpose = "signal"
  /\ ops' = [ops EXCEPT ![w] = IdleWorker] /\ claimedSignals' = claimedSignals \cup {ops[w].ref}
  /\ IF ops[w].ref \in claimedSignals THEN UNCHANGED executed ELSE Executed(w)
  /\ UNCHANGED <<gNow, grants, peerVersion, channels, nonces, messages, serverVars>>

--------------------------------------------------------------------------------
(* Messages.                                                                    *)

\* Fault: an external agent is taken for whoever it claims to be.
TrustsParticipant(m, a) ==
  \/ m.kind \in {"owner", "agent for owner"} /\ a.kind = m.kind /\ a.id = "owner"
  \/ m.kind \in {"external", "external agent"} /\ a.kind = "external"
\* validate_principal, and the channel an external agent needs.
MatchesPrincipal(m, a) ==
  \/ m.kind \in {"owner", "agent for owner"} /\ a.kind = m.kind /\ a.id = "owner"
  \/ /\ m.kind \in {"external", "external agent"} /\ a.kind = "external" /\ a.id = m.id
     /\ m.kind = "external agent" => a.method = "mutual"

GatewayProvenance(m, a) ==
  CASE m.kind = "owner"           -> [by |-> a, actor |-> "owner", tier |-> "owner input"]
    [] m.kind = "agent for owner" -> [by |-> a, actor |-> "system", tier |-> "verified"]
    [] OTHER                      -> [by |-> a, actor |-> m.id, tier |-> "untrusted"]

\* submit_event_with_auth; a key that is known returns the run it started.
SubmitMessage(key, m, a) ==
  /\ MatchesPrincipal(m, a) /\ messages[key].tier = "none"
  /\ messages' = [messages EXCEPT ![key] = GatewayProvenance(m, a)]
  /\ UNCHANGED <<gNow, peerVars, serverVars>>

--------------------------------------------------------------------------------
(* The local server.  A request is counted, then authorised; its operation runs  *)
(* on a blocking thread afterwards, with the owner's authentication it was given. *)

Reads == {"read"}
Commands == Reads \cup {"run", "run as contact", "approve", "approve as another", "job",
                        "evaluation", "strategy", "package"}

\* HttpState::authorize and the handler's own checks: bearer for all, origin for mutations, and
\* only the owner's name under an approval.
AuthorizeRequest(c, bearer, origin) == bearer /\ (c \in Reads \/ origin) /\ c # "approve as another"

Counted(current, c, bearer, origin) ==
  /\ current.count < RateLimit /\ Len(admitted) < MaxAdmitted
  /\ window' = [current EXCEPT !.count = @ + 1] /\ admitted' = Append(admitted, gNow)
  /\ inFlight' = IF AuthorizeRequest(c, bearer, origin)
                 THEN inFlight \cup {[command |-> c, bearer |-> bearer, origin |-> origin, until |-> gNow + AuthTtl]}
                 ELSE inFlight
  /\ UNCHANGED <<gNow, peerVars, messages, controlled>>

\* Fault: a window that has passed is emptied and not moved.
AdmitInOld(c, bearer, origin) ==
  Counted(IF gNow >= window.started + RateWindow THEN [window EXCEPT !.count = 0] ELSE window, c, bearer, origin)
\* RateWindow::admit
Admit(c, bearer, origin) ==
  Counted(IF gNow >= window.started + RateWindow THEN [started |-> gNow, count |-> 0] ELSE window, c, bearer, origin)

\* Fault: who was authenticated when the request came is the owner for good.
OnceOwner(r) == TRUE
\* validate_owner_control, AuthContext::validate: when the operation runs.
ValidateOwnerControl(r) == gNow < r.until

Controlled(r, commands) ==
  /\ r.command \in commands /\ inFlight' = inFlight \ {r}
  /\ controlled' = IF ValidateOwnerControl(r)
                   THEN [command |-> r.command, proven |-> r.bearer /\ (r.command \in Reads \/ r.origin),
                         expired |-> r.until <= gNow]
                   ELSE controlled
  /\ UNCHANGED <<gNow, peerVars, messages, window, admitted>>

ControlRuns(r) == Controlled(r, {"read", "approve"})
\* validate_run_submission: the owner submits turns of his own and no messages of others.
SubmitRun(r) ==
  \/ Controlled(r, {"run"})
  \/ /\ r.command = "run as contact" /\ inFlight' = inFlight \ {r}
     /\ UNCHANGED <<gNow, peerVars, messages, window, admitted, controlled>>
ControlPackages(r) == Controlled(r, {"package"})
ControlStrategies(r) == Controlled(r, {"strategy"})
ControlEvaluations(r) == Controlled(r, {"evaluation"})
ControlJobs(r) == Controlled(r, {"job"})

GatewayTick ==
  /\ gNow < MaxGatewayTime /\ gNow' = gNow + 1
  /\ UNCHANGED <<peerVars, messages, serverVars>>

\* Channels, operations, requests and the window are in memory; grants, claims and runs are in the store.
GatewayRestart ==
  /\ channels' = {} /\ ops' = [w \in Workers |-> IdleWorker]
  /\ window' = [started |-> gNow, count |-> 0] /\ admitted' = <<>> /\ inFlight' = {}
  /\ UNCHANGED <<gNow, grants, peerVersion, nonces, claimedSignals, executed, messages, controlled>>

GatewayInit ==
  /\ gNow = 0 /\ grants = [p \in GatewayPeers |-> [n |-> 0, revoked |-> FALSE, expires |-> 0]]
  /\ peerVersion = 0 /\ channels = {} /\ ops = [w \in Workers |-> IdleWorker]
  /\ nonces = {} /\ claimedSignals = {} /\ executed = {}
  /\ messages = [k \in MessageKeys |-> [tier |-> "none"]]
  /\ window = [started |-> 0, count |-> 0] /\ admitted = <<>> /\ inFlight = {}
  /\ controlled = [command |-> "none", proven |-> TRUE, expired |-> FALSE]

ChannelNext ==
  \/ \E p \in GatewayPeers : \/ RegisterPeer(p) \/ RevokePeer(p)
                             \/ \E purpose \in {"control", "signal"} : BindChannel(p, purpose)
  \/ \E w \in Workers : \/ \E ch \in channels, n \in Nonces : BeginOp(w, ch, "control", n)
                        \/ \E ch \in channels, s \in PeerSignals : BeginOp(w, ch, "signal", s)
                        \/ AuthoriseOp(w) \/ ClaimNonce(w) \/ ClaimSignal(w) \/ AppendsRevocation(w)
                        \/ \E p \in GatewayPeers : ReadsVersion(w, p)
  \/ GatewayTick \/ GatewayRestart
MessageNext == \E k \in MessageKeys, m \in Participants, a \in Principals : SubmitMessage(k, m, a)
RateNext ==
  \/ \E c \in Commands, bearer, origin \in BOOLEAN : Admit(c, bearer, origin)
  \/ \E r \in inFlight : \/ ControlRuns(r) \/ SubmitRun(r) \/ ControlPackages(r) \/ ControlStrategies(r)
                         \/ ControlEvaluations(r) \/ ControlJobs(r)
  \/ GatewayTick \/ GatewayRestart

--------------------------------------------------------------------------------
\* A nonce lets one command through and a signal is taken once, whatever is resent, on whichever
\* channel, by however many workers at once.
ClaimedOnce == \A x, y \in executed : (x.purpose = y.purpose /\ x.ref = y.ref) => x = y

\* Nothing is executed over a channel whose grant had been replaced or revoked when the request
\* began, although the peer may hold a newer grant of its own.
ChannelsDieWithTheirGrant == \A x \in executed : x.live

\* A run carries the owner's trust only when the owner was authenticated, an external actor only
\* when that very participant was, and an external agent's only over a mutual channel.
TrustIsAuthenticated ==
  \A k \in MessageKeys :
    LET r == messages[k] IN
    /\ r.tier = "owner input" => r.by.kind = "owner" /\ r.by.id = "owner"
    /\ r.tier = "verified" => r.by.id = "owner"
    /\ r.tier = "untrusted" => r.by.kind = "external" /\ r.actor = r.by.id

\* The server admits at most twice its limit in any stretch as long as its window.
RateIsBounded ==
  \A i \in DOMAIN admitted :
    Cardinality({j \in DOMAIN admitted : admitted[j] \in admitted[i] .. admitted[i] + RateWindow - 1}) <= 2 * RateLimit

\* Whatever waits for a thread, what is performed was asked for with the owner's token, from the
\* owner's own page when it changes anything, and is performed while that authentication holds.
ControlIsOwners == controlled.proven /\ ~controlled.expired

\* What the gateway promises of those it serves (validate_channel, the claims, provenance and
\* the rate window).
GatewayIsSound == ClaimedOnce /\ ChannelsDieWithTheirGrant /\ TrustIsAuthenticated /\ RateIsBounded
                  /\ ControlIsOwners
================================================================================
