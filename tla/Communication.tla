----------------------------- MODULE Communication -----------------------------
(* External communication.  The fabric keeps its sessions, the disclosure       *)
(* requests they used and a queue of events, all in memory; callers of the      *)
(* gateway open sessions, ask for disclosures, deliver messages and terminate,  *)
(* each taking the whole queue out when it records or submits.  Beside it, the  *)
(* device channel with its grant.                                               *)
EXTENDS Integers, Sequences, FiniteSets

CONSTANTS Callers,       \* threads of the gateway
          Messages,      \* messages to deliver
          MessageData,   \* [Messages -> request, category, impact, sensitive, confirmed, tokens, aligned]
          Rule,          \* the disclosure rule: [category -> outcome]
          MaxRounds, MaxMessages, MaxTokens, SessionTtl,  \* of every grant
          Observations, RetentionTtl,
          MaxSessions,   \* bound on the sessions one process opens
          MaxTime        \* bound on the clock

ASSUME CommunicationAssumption ==
  /\ {MaxRounds, MaxMessages, MaxTokens, SessionTtl, RetentionTtl} \subseteq Nat \ {0}
  /\ MaxSessions \in Nat
  /\ \A m \in Messages : MessageData[m].tokens \in Nat

VARIABLES clock,
          sessions,    \* session number -> status, rounds, messages, tokens, expiry
          used,        \* disclosure requests consumed: <<session, request>>
          queue,       \* the fabric's events, until a caller takes them
          calls,       \* caller -> what it does between its steps
          deliveries,  \* message -> the prelude its run was accepted with; {} when there is none
          decided,     \* decisions of this process (history)
          endings,     \* session -> terminations announced (history)
          device       \* the device's grant, its revocation in the log, what was authorised

fabricVars == <<sessions, used, queue>>
communicationVars == <<clock, fabricVars, calls, deliveries, decided, endings, device>>

NoCall == [do |-> "nothing"]
Event(k, s, q, outcome) == [k |-> k, s |-> s, q |-> q, outcome |-> outcome]
Ending(s) == Event("terminated", s, "none", "none")
Allows(outcome) == outcome \in {"answer", "approve"}

\* disclosure_decision
Decision(d) ==
  IF d.category \notin DOMAIN Rule THEN "refuse"
  ELSE IF d.impact /\ ~d.confirmed THEN "approve"
  ELSE IF d.sensitive /\ Rule[d.category] = "answer" THEN "blur"
  ELSE Rule[d.category]

--------------------------------------------------------------------------------
OpenSession(c) ==
  /\ calls[c] = NoCall /\ Len(sessions) < MaxSessions
  /\ LET s == Len(sessions) + 1 IN
     /\ sessions' = Append(sessions, [status |-> "open", rounds |-> 0, messages |-> 0, tokens |-> 0,
                                      expires |-> clock + SessionTtl])
     /\ queue' = queue \cup {Event("opened", s, "none", "none")}
     /\ calls' = [calls EXCEPT ![c] = [do |-> "record", s |-> s]]
  /\ UNCHANGED <<clock, used, deliveries, decided, endings, device>>

\* Fault: an answer given on its own leaves the request usable.
DiscloseFreely(c, s, m) ==
  LET d == MessageData[m] IN
  /\ calls[c] = NoCall /\ calls' = [calls EXCEPT ![c] = [do |-> "record", s |-> s]]
  /\ IF sessions[s].status = "open" /\ clock < sessions[s].expires /\ <<s, d.request>> \notin used
     THEN /\ queue' = queue \cup {Event("disclosed", s, d.request, "unbound")}
          /\ decided' = decided \cup {[s |-> s, q |-> d.request, m |-> "alone", allowed |-> FALSE]}
     ELSE UNCHANGED <<queue, decided>>
  /\ UNCHANGED <<clock, sessions, used, deliveries, endings, device>>
\* apply_disclosure: the decision of a request without a message.
Disclose(c, s, m) ==
  LET d == MessageData[m] IN
  /\ calls[c] = NoCall /\ calls' = [calls EXCEPT ![c] = [do |-> "record", s |-> s]]
  /\ IF sessions[s].status = "open" /\ clock < sessions[s].expires /\ <<s, d.request>> \notin used
     THEN /\ used' = used \cup {<<s, d.request>>}
          /\ queue' = queue \cup {Event("disclosed", s, d.request, "unbound")}
          /\ decided' = decided \cup {[s |-> s, q |-> d.request, m |-> "alone", allowed |-> FALSE]}
     ELSE UNCHANGED <<used, queue, decided>>
  /\ UNCHANGED <<clock, sessions, deliveries, endings, device>>

\* Fault: the tokens of a delivery are checked and not counted.
ChargeRound(t, d) == [t EXCEPT !.rounds = @ + 1, !.messages = @ + 1]
Charge(t, d) == [t EXCEPT !.rounds = @ + 1, !.messages = @ + 1, !.tokens = @ + d.tokens]
Exceeds(t, d) == \/ t.rounds + 1 > MaxRounds \/ t.messages + 1 > MaxMessages
                 \/ t.tokens + d.tokens > MaxTokens \/ ~d.aligned

\* authorize_delivery, in one locked step; the caller then submits, or records the refusal.
PrepareDelivery(c, s, m) ==
  LET d == MessageData[m]  t == sessions[s]  outcome == Decision(d)
      onward(do) == calls' = [calls EXCEPT ![c] = [do |-> do, s |-> s, m |-> m]] IN
  /\ calls[c] = NoCall /\ t.status = "open"
  /\ \/ /\ clock >= t.expires
        /\ sessions' = [sessions EXCEPT ![s].status = "terminated"]
        /\ queue' = queue \cup {Ending(s)} /\ endings' = [endings EXCEPT ![s] = @ + 1]
        /\ onward("record") /\ UNCHANGED <<used, decided>>
     \/ /\ clock < t.expires /\ <<s, d.request>> \in used
        /\ onward("record") /\ UNCHANGED <<fabricVars, decided, endings>>
     \/ /\ clock < t.expires /\ <<s, d.request>> \notin used
        /\ used' = used \cup {<<s, d.request>>}
        /\ decided' = decided \cup {[s |-> s, q |-> d.request, m |-> m,
                                     allowed |-> Allows(outcome) /\ ~Exceeds(t, d)]}
        /\ LET decision == Event("disclosed", s, d.request, outcome) IN
           IF ~Allows(outcome)
           THEN /\ queue' = queue \cup {decision} /\ onward("record") /\ UNCHANGED <<sessions, endings>>
           ELSE IF Exceeds(t, d)
           THEN /\ sessions' = [sessions EXCEPT ![s].status = "terminated"]
                /\ queue' = queue \cup {decision, Ending(s)} /\ onward("record")
                /\ endings' = [endings EXCEPT ![s] = @ + 1]
           ELSE /\ sessions' = [sessions EXCEPT ![s] = Charge(t, d)]
                /\ queue' = queue \cup {decision} /\ onward("submit") /\ UNCHANGED endings
  /\ UNCHANGED <<clock, deliveries, device>>

\* record_exchange: counted before the limits are looked at.
RecordExchange(s, tokens, aligned) ==
  LET t == sessions[s] IN
  /\ t.status = "open"
  /\ LET after == [t EXCEPT !.rounds = @ + 1, !.messages = @ + 2, !.tokens = @ + tokens]
         ends == \/ clock >= t.expires \/ after.rounds > MaxRounds \/ after.messages > MaxMessages
                 \/ after.tokens > MaxTokens \/ ~aligned IN
     /\ sessions' = [sessions EXCEPT ![s] = [after EXCEPT !.status = IF ends THEN "terminated" ELSE "open"]]
     /\ queue' = IF ends THEN queue \cup {Ending(s)} ELSE queue
     /\ endings' = IF ends THEN [endings EXCEPT ![s] = @ + 1] ELSE endings
  /\ UNCHANGED <<clock, used, calls, deliveries, decided, device>>

\* Fault: a session that has ended is ended again.
TerminateTwice(c, s) ==
  /\ calls[c] = NoCall /\ calls' = [calls EXCEPT ![c] = [do |-> "record", s |-> s]]
  /\ sessions' = [sessions EXCEPT ![s].status = "terminated"]
  /\ queue' = queue \cup {Ending(s)} /\ endings' = [endings EXCEPT ![s] = @ + 1]
  /\ UNCHANGED <<clock, used, deliveries, decided, device>>
Terminate(c, s) ==
  /\ calls[c] = NoCall /\ calls' = [calls EXCEPT ![c] = [do |-> "record", s |-> s]]
  /\ IF sessions[s].status = "open"
     THEN /\ sessions' = [sessions EXCEPT ![s].status = "terminated"]
          /\ queue' = queue \cup {Ending(s)} /\ endings' = [endings EXCEPT ![s] = @ + 1]
     ELSE UNCHANGED <<sessions, queue, endings>>
  /\ UNCHANGED <<clock, used, deliveries, decided, device>>

--------------------------------------------------------------------------------
\* persist_fabric_events: the events of every session leave the queue for the log, whether or
\* not every append succeeds; nothing here reads them there.
RecordEvents(c) ==
  /\ calls[c].do = "record" /\ calls' = [calls EXCEPT ![c] = NoCall] /\ queue' = {}
  /\ UNCHANGED <<clock, sessions, used, deliveries, decided, endings, device>>

\* Fault: any decision in the prelude will do.
BoundToAny(prelude, call) == \E e \in prelude : e.k = "disclosed"
\* delivery_disclosure_is_bound: the message's own decision, taken by this caller's queue.
DisclosureBound(prelude, call) ==
  \E e \in prelude : /\ e.k = "disclosed" /\ e.s = call.s
                     /\ e.q = MessageData[call.m].request /\ Allows(e.outcome)

\* deliver_external_message after the preparation: the prelude is lost when the submission is
\* refused, fails, or finds the run of an earlier delivery of the message.
SubmitDelivery(c) ==
  /\ calls[c].do = "submit" /\ calls' = [calls EXCEPT ![c] = NoCall] /\ queue' = {}
  /\ LET m == calls[c].m IN
     \/ /\ DisclosureBound(queue, calls[c]) /\ deliveries[m] = {}
        /\ deliveries' = [deliveries EXCEPT ![m] = {e \in queue : e.k = "disclosed"}]
     \/ UNCHANGED deliveries
  /\ UNCHANGED <<clock, sessions, used, decided, endings, device>>

--------------------------------------------------------------------------------
\* normalize_observation reads the grant; the observation it returns is submitted later.
Authorise(o) ==
  /\ ~device.revoked /\ o \notin {h.o : h \in device.held}
  /\ device' = [device EXCEPT !.held = @ \cup {[o |-> o, until |-> clock + RetentionTtl, late |-> device.logged]}]
  /\ UNCHANGED <<clock, fabricVars, calls, deliveries, decided, endings>>
SubmitObservation(h) ==
  /\ h \in device.held /\ clock < h.until
  /\ device' = [device EXCEPT !.submitted = @ \cup {h}]
  /\ UNCHANGED <<clock, fabricVars, calls, deliveries, decided, endings>>
\* Fault: the revocation is recorded and then made.
RevokeByEvent ==
  /\ device' = [device EXCEPT !.logged = TRUE]
  /\ UNCHANGED <<clock, fabricVars, calls, deliveries, decided, endings>>
\* revoke_with_event, then the append, which may fail and leave the memory revoked.
RevokeDevice ==
  /\ \E appended \in BOOLEAN : device' = [device EXCEPT !.revoked = TRUE, !.logged = @ \/ appended]
  /\ UNCHANGED <<clock, fabricVars, calls, deliveries, decided, endings>>

Elapse ==
  /\ clock < MaxTime /\ clock' = clock + 1
  /\ UNCHANGED <<fabricVars, calls, deliveries, decided, endings, device>>

\* The fabric and the grant's revocation are in memory: session numbers start again, and the
\* device's grant is as it was configured.
CommunicationRestart ==
  /\ sessions' = <<>> /\ used' = {} /\ queue' = {} /\ decided' = {}
  /\ calls' = [c \in Callers |-> NoCall] /\ endings' = [s \in 1..MaxSessions |-> 0]
  /\ device' = [device EXCEPT !.revoked = FALSE, !.logged = FALSE, !.held = {}]
  /\ UNCHANGED <<clock, deliveries>>

CommunicationInit ==
  /\ clock = 0 /\ sessions = <<>> /\ used = {} /\ queue = {} /\ decided = {}
  /\ calls = [c \in Callers |-> NoCall] /\ endings = [s \in 1..MaxSessions |-> 0]
  /\ deliveries = [m \in Messages |-> {}]
  /\ device = [revoked |-> FALSE, logged |-> FALSE, held |-> {}, submitted |-> {}]

FabricNext ==
  \/ \E c \in Callers : \/ OpenSession(c) \/ RecordEvents(c) \/ SubmitDelivery(c)
                        \/ \E s \in DOMAIN sessions : \/ Terminate(c, s)
                                                      \/ \E m \in Messages : Disclose(c, s, m) \/ PrepareDelivery(c, s, m)
  \/ \E s \in DOMAIN sessions, aligned \in BOOLEAN : RecordExchange(s, 1, aligned)
  \/ Elapse \/ CommunicationRestart
DeviceNext ==
  \/ \E o \in Observations : Authorise(o)
  \/ \E h \in device.held : SubmitObservation(h)
  \/ RevokeDevice \/ Elapse \/ CommunicationRestart

--------------------------------------------------------------------------------
Authorised(s) == {a \in decided : a.s = s /\ a.allowed}
\* The tokens of deliveries, one by one.
TokensOf(deliverable) == UNION {{a} \X (1 .. MessageData[a.m].tokens) : a \in deliverable}

\* Whatever callers deliver and record at once, what a session authorised stays within its
\* grant: rounds, messages and tokens (authorize_delivery, record_exchange).
AuthorisedWithinGrant ==
  \A s \in DOMAIN sessions :
    /\ Cardinality(Authorised(s)) <= MaxRounds /\ Cardinality(Authorised(s)) <= MaxMessages
    /\ Cardinality(TokensOf(Authorised(s))) <= MaxTokens

\* A disclosure request is decided at most once in a session, by itself or for one message.
RequestDecidedOnce == \A x, y \in decided : (x.s = y.s /\ x.q = y.q) => x = y

\* Every run that delivers a message was accepted together with the decision that allowed
\* exactly it, although every caller empties the one queue of events.
DeliveredAsDecided ==
  \A m \in Messages : deliveries[m] # {} =>
    \E e \in deliveries[m] : /\ e.q = MessageData[m].request
                             /\ e.outcome = Decision(MessageData[m]) /\ Allows(e.outcome)

\* A session's end is announced once, whichever of expiry, limits, drift and the caller ends it.
EndedOnce == \A s \in DOMAIN sessions : endings[s] = IF sessions[s].status = "open" THEN 0 ELSE 1

\* Once a device's revocation is in the log, the process that recorded it authorises nothing
\* more, and what is submitted is within its retention.
RevocationStops == \A h \in device.held \cup device.submitted : ~h.late

\* What external communication promises (ExternalSessionFabric, DeviceChannelAdapter).
CommunicationIsSound ==
  /\ AuthorisedWithinGrant /\ RequestDecidedOnce /\ DeliveredAsDecided
  /\ EndedOnce /\ RevocationStops
================================================================================
