------------------------------- MODULE Leads -------------------------------
(***************************************************************************)
(* What users do becomes events, events become leads, and leads are sent   *)
(* to the sales desk: ingestion and privacy (api/app/services/track.py,    *)
(* routers/tracking.py), scoring and routing (services/leads.py, run by    *)
(* worker/engagement/tasks.py every hour and by a deep-dive request in     *)
(* routers/engagement.py), outcomes, and the retention of raw events       *)
(* (services/engagement.py).                                               *)
(*                                                                         *)
(* A run of the hourly task is ONE transaction over all users, with e-mail *)
(* and webhook calls in the middle and a single commit at its end: what it *)
(* wrote is invisible, and locked, until then, and what it sent is sent.   *)
(***************************************************************************)
EXTENDS Integers, FiniteSets, FiniteSetsExt

CONSTANTS
    Users,
    Browsers,          \* anon_id cookies
    Nobody, NoOrg,
    Orgs,
    Org,               \* the organisation of a user's oldest membership
    Names,             \* event names that leads.yaml scores
    DeepDive,          \* "deepdive_requested", the one that routes at once
    Weight,            \* leads.yaml: weight
    MaxOccurrences,    \* leads.yaml: max_occurrences
    WindowDays,        \* leads.yaml: window_days
    Threshold,         \* leads.yaml: route_threshold
    SuppressionDays,   \* leads.yaml: route_suppression_days
    FallbackScore,     \* the score of a deep-dive request without signals
    RetentionDays,     \* analytics_retention_months, in days
    Sessions,          \* runs of the hourly task, requests, retention runs
    MaxLeads,          \* bound: leads
    MaxActs,           \* bound: events, privacy choices, logins and outcomes
    MaxSessions,       \* bound: sessions opened in a behaviour
    MaxDay             \* bound: the clock

Days == 0..MaxDay
Never == -1
LeadIds == 1..MaxLeads
EventIds == 1..MaxActs

ASSUME LeadsAssumption ==
    /\ Nobody \notin Users
    /\ Users \cap Browsers = {}
    /\ NoOrg \notin Orgs
    /\ Org \in [Users -> Orgs \cup {NoOrg}]
    /\ IsFiniteSet(Names) /\ DeepDive \in Names
    /\ Weight \in [Names -> Nat]
    /\ MaxOccurrences \in [Names -> Nat \ {0}]
    /\ {WindowDays, Threshold, SuppressionDays, FallbackScore, RetentionDays} \subseteq Nat
    /\ WindowDays <= RetentionDays
    /\ {MaxLeads, MaxActs, MaxSessions, MaxDay} \subseteq Nat

VARIABLES
    today,
    events,      \* the committed rows of events
    aggregates,  \* event_daily_aggregates: counts by name and day
    leads,       \* the committed rows of leads
    optedOut,    \* users.analytics_opt_out
    session,
    used,        \* how many acts and sessions there were
    sent,        \* history: what left the system for a lead
    written,     \* history: events written and not erased by their user
    blurred,     \* history: names and days written or erased past retention
    raced,       \* history: users and organisations two sessions decided on at once
    channels     \* the settings: the ways a lead is routed, none if routing is off

base == <<events, aggregates, leads, optedOut, channels>>
histories == <<sent, written, blurred, raced>>
vars == <<today, events, aggregates, leads, optedOut, session, used, sent, written,
          blurred, raced, channels>>

-----------------------------------------------------------------------------
(* Types *)

(* lead_routing_enabled, which is off by default, and the webhook, which   *)
(* is called only if lead_webhook_url and lead_webhook_secret are set.     *)
Configurations == {{}, {"mail"}, {"mail", "hook"}}

(* An event is a user's, or of a browser nobody is logged in from.         *)
Event ==
    [id : EventIds, owner : Users \cup Browsers, name : Names, day : Days]

(* A leads row; `routed' is routed_at.                                     *)
Lead ==
    [status : {"none", "new", "routed", "qualified", "closed"},
     user : Users \cup {Nobody}, org : Orgs \cup {NoOrg},
     score : Nat, instant : BOOLEAN, routed : Days \cup {Never}]

NoLead ==
    [status |-> "none", user |-> Nobody, org |-> NoOrg, score |-> 0,
     instant |-> FALSE, routed |-> Never]

Session ==
    [kind     : {"none", "hourly", "deepdive", "retention"},
     pc       : {"idle", "ask", "user", "flush", "check", "mail", "hook", "mark",
                 "commit", "delete"},
     todo     : SUBSET Users,              \* users the run has not come to
     user     : Users \cup {Nobody},
     optedOut : SUBSET Users,              \* as loaded when the session began
     request  : SUBSET Event,              \* the event a deep-dive request wrote
     lead     : LeadIds \cup {0},
     seen     : Lead,                      \* the lead, as loaded or last flushed
     row      : Lead,                      \* the lead, as the session has it
     mine     : [LeadIds -> Lead],         \* rows written and not committed
     mailed   : BOOLEAN,
     hooked   : BOOLEAN,
     counts   : [Names -> [Days -> Nat]]]

NoCounts == [n \in Names |-> [d \in Days |-> 0]]

Idle ==
    [kind |-> "none", pc |-> "idle", todo |-> {}, user |-> Nobody,
     optedOut |-> {}, request |-> {}, lead |-> 0, seen |-> NoLead, row |-> NoLead,
     mine |-> [l \in LeadIds |-> NoLead], mailed |-> FALSE, hooked |-> FALSE,
     counts |-> NoCounts]

TypeOK ==
    /\ today \in Days
    /\ events \subseteq Event
    /\ \A e, f \in events : e.id = f.id => e = f
    /\ aggregates \in [Names -> [Days -> Nat]]
    /\ leads \in [LeadIds -> Lead]
    /\ optedOut \subseteq Users
    /\ session \in [Sessions -> Session]
    /\ used \in [acts : 0..MaxActs, sessions : 0..MaxSessions]
    /\ sent \in [LeadIds -> SUBSET {"mail", "hook"}]
    /\ written \in [Names -> [Days -> Nat]]
    /\ blurred \subseteq Names \X Days
    /\ raced \subseteq Users \cup Orgs
    /\ channels \in Configurations

Init ==
    /\ today = 0
    /\ events = {}
    /\ aggregates = NoCounts
    /\ leads = [l \in LeadIds |-> NoLead]
    /\ optedOut = {}
    /\ session = [s \in Sessions |-> Idle]
    /\ used = [acts |-> 0, sessions |-> 0]
    /\ sent = [l \in LeadIds |-> {}]
    /\ written = NoCounts
    /\ blurred = {}
    /\ raced = {}
    /\ channels \in Configurations

-----------------------------------------------------------------------------
(* Sessions *)

Becomes(s, state) == session' = [session EXCEPT ![s] = state]

Open(s) ==
    /\ session[s].pc = "idle"
    /\ used.sessions < MaxSessions
    /\ used' = [used EXCEPT !.sessions = @ + 1]

Wrote(s) == {l \in LeadIds : session[s].mine[l] # NoLead}

(* The rows a session sees: the committed ones, and its own.               *)
Seen(s, l) == IF l \in Wrote(s) THEN session[s].mine[l] ELSE leads[l]

Locked(s, l) == \E t \in Sessions \ {s} : l \in Wrote(t)

(* An UPDATE names the columns that changed since the row was loaded.      *)
Flushed(s, l, seen, new) ==
    [k \in DOMAIN new |-> IF new[k] # seen[k] THEN new[k] ELSE Seen(s, l)[k]]

Handles(s) == ({session[s].user} \cup {session[s].mine[l].user : l \in Wrote(s)}) \ {Nobody}

Cutoff == today - RetentionDays     \* days before it are past retention

(* Events past their retention are only written, or erased, out of turn.   *)
Blurs(E) == blurred' = blurred \cup {<<e.name, e.day>> : e \in {f \in E : f.day < Cutoff}}

Number(E, name, day) == Cardinality({e \in E : e.name = name /\ e.day = day})

Erased(E) == [n \in Names |-> [d \in Days |-> written[n][d] - Number(E, n, d)]]

-----------------------------------------------------------------------------
(* Events and privacy *)

(* Any day passes between sessions: none of them is open for a day.        *)
Tick ==
    /\ today < MaxDay
    /\ \A s \in Sessions : session[s].pc = "idle"
    /\ today' = today + 1
    /\ UNCHANGED <<base, session, used, histories>>

(* A bound: people do something only so often.                             *)
Act ==
    /\ used.acts < MaxActs
    /\ used' = [used EXCEPT !.acts = @ + 1]

NewEvent(owner, name, day) ==
    [id |-> used.acts + 1, owner |-> owner, name |-> name, day |-> day]

(* ingest_events; a client may state when the event occurred.              *)
IngestEvent(owner, name, day) ==
    LET e == NewEvent(owner, name, day) IN
    /\ Act
    /\ owner \notin optedOut
    /\ day <= today
    /\ events' = events \cup {e}
    /\ written' = [written EXCEPT ![name][day] = @ + 1]
    /\ Blurs({e})
    /\ UNCHANGED <<today, channels, aggregates, leads, optedOut, session, sent, raced>>

OwnedBy(owner) == {e \in events : e.owner = owner}

(* Mutant: the history is copied to the user.                              *)
MergeHistoryCopying(user, anon) ==
    /\ Act
    /\ OwnedBy(anon) # {}
    /\ events' = events \cup {[e EXCEPT !.owner = user] : e \in OwnedBy(anon)}
    /\ UNCHANGED <<today, channels, aggregates, leads, optedOut, session, histories>>

(* merge_anonymous_history, at a login.                                    *)
MergeHistory(user, anon) ==
    /\ Act
    /\ OwnedBy(anon) # {}
    /\ events' = (events \ OwnedBy(anon)) \cup {[e EXCEPT !.owner = user] : e \in OwnedBy(anon)}
    /\ UNCHANGED <<today, channels, aggregates, leads, optedOut, session, histories>>

Erase(user) ==
    /\ events' = events \ OwnedBy(user)
    /\ written' = Erased(OwnedBy(user))
    /\ Blurs(OwnedBy(user))

PrivacyDelete(user) ==
    /\ Act
    /\ Erase(user)
    /\ UNCHANGED <<today, channels, aggregates, leads, optedOut, session, sent, raced>>

(* Sessions that loaded the user before do not see the preference.         *)
PrivacyPreference(user, enabled) ==
    /\ Act
    /\ IF enabled
       THEN optedOut' = optedOut \ {user} /\ UNCHANGED <<events, written, blurred>>
       ELSE optedOut' = optedOut \cup {user} /\ Erase(user)
    /\ raced' = IF \E s \in Sessions : user \in Handles(s) THEN raced \cup {user} ELSE raced
    /\ UNCHANGED <<today, channels, aggregates, leads, session, sent>>

-----------------------------------------------------------------------------
(* Scoring *)

(* score_events: the newest occurrences of each signal count, up to a      *)
(* maximum.                                                                *)
Matched(E, name) ==
    Cardinality({e \in E : e.name = name /\ e.day >= today - WindowDays})

Worth(E, name) == Weight[name] * Min({Matched(E, name), MaxOccurrences[name]})

Score(E) ==
    LET sum[N \in SUBSET Names] ==
            IF N = {} THEN 0
            ELSE LET name == CHOOSE n \in N : TRUE IN Worth(E, name) + sum[N \ {name}]
    IN sum[Names]

IsInstant(E) == Matched(E, DeepDive) > 0

SignalsOf(s, user) == OwnedBy(user) \cup session[s].request

(* Mutant: a routed lead is done with.                                     *)
UnroutedLeads(s, user) ==
    {l \in LeadIds : Seen(s, l).user = user /\ Seen(s, l).status = "new"}

OpenLeads(s, user) ==
    {l \in LeadIds : Seen(s, l).user = user /\ Seen(s, l).status \in {"new", "routed"}}

Free == {l \in LeadIds : leads[l] = NoLead /\ \A t \in Sessions : session[t].mine[l] = NoLead}

(* On to any user the run has not come to, or to its end.                  *)
Continue(s, me) ==
    LET next == [me EXCEPT !.lead = 0, !.seen = NoLead, !.row = NoLead,
                           !.mailed = FALSE, !.hooked = FALSE]
    IN
    \/ me.todo = {} /\ Becomes(s, [next EXCEPT !.user = Nobody, !.pc = "commit"])
    \/ \E user \in me.todo :
         Becomes(s, [next EXCEPT !.user = user, !.todo = @ \ {user}, !.pc = "user"])

(* `raced' notes that another session is at work on the user's leads.      *)
Contends(s, user) ==
    raced' = IF \E t \in Sessions \ {s} : user \in Handles(t) THEN raced \cup {user} ELSE raced

StartHourly(s) ==
    /\ Open(s)
    /\ Continue(s, [Idle EXCEPT !.kind = "hourly", !.todo = Users, !.optedOut = optedOut])
    /\ UNCHANGED <<today, base, histories>>

StartDeepDive(s, user) ==
    /\ Open(s)
    /\ Becomes(s, [Idle EXCEPT !.kind = "deepdive", !.pc = "ask", !.user = user,
                               !.optedOut = optedOut])
    /\ UNCHANGED <<today, base, histories>>

(* The request and its event; persist_events reads the preference again.   *)
AskDeepDive(s) ==
    LET me == session[s]
        e == NewEvent(me.user, DeepDive, today)
    IN
    /\ me.pc = "ask"
    /\ \/ /\ me.user \in optedOut
          /\ Becomes(s, [me EXCEPT !.pc = "user"])
          /\ UNCHANGED used
       \/ /\ me.user \notin optedOut
          /\ Act
          /\ Becomes(s, [me EXCEPT !.pc = "user", !.request = {e}])
    /\ UNCHANGED <<today, base, histories>>

Insert(s, row) ==
    LET me == session[s]
        l == Min(Free)
    IN
    /\ Free # {}
    /\ Becomes(s, [me EXCEPT !.pc = "check", !.lead = l, !.seen = row, !.row = row,
                             !.mine[l] = row])
    /\ sent' = [sent EXCEPT ![l] = {}]

(* score_user_lead up to its flush: no lead for a user who opted out or    *)
(* gives no signal, the open lead of a user who has one, or a new lead.    *)
ScoreUser(s) ==
    LET me == session[s]
        E == SignalsOf(s, me.user)
        scored == [NoLead EXCEPT !.status = "new", !.user = me.user, !.org = Org[me.user],
                                 !.score = Score(E), !.instant = IsInstant(E)]
        quiet == me.user \in me.optedOut \/ \A n \in Names : Matched(E, n) = 0
    IN
    /\ me.pc = "user"
    /\ \/ /\ quiet
          /\ me.kind = "hourly" \/ me.user \in me.optedOut
          /\ Continue(s, me)
          /\ UNCHANGED sent
       \/ /\ quiet
          /\ me.kind = "deepdive" /\ me.user \notin me.optedOut
          /\ \E org \in {NoOrg, Org[me.user]} :
               Insert(s, [scored EXCEPT !.org = org, !.score = FallbackScore,
                                        !.instant = TRUE])
       \/ /\ ~quiet
          /\ OpenLeads(s, me.user) = {}
          /\ Insert(s, scored)
       \/ /\ ~quiet
          /\ \E l \in OpenLeads(s, me.user) :
               Becomes(s, [me EXCEPT !.pc = "flush", !.lead = l, !.seen = Seen(s, l),
                                     !.row = [Seen(s, l) EXCEPT !.score = scored.score,
                                                                !.instant = scored.instant]])
          /\ UNCHANGED sent
    /\ Contends(s, me.user)
    /\ UNCHANGED <<today, base, used, written, blurred>>

(* An UPDATE that changes something waits for the row's lock.              *)
FlushLead(s) ==
    LET me == session[s] IN
    /\ me.pc = "flush"
    /\ me.row # me.seen => ~Locked(s, me.lead)
    /\ Becomes(s, [me EXCEPT !.pc = "check", !.seen = me.row,
                             !.mine[me.lead] =
                                 IF me.row = me.seen THEN @
                                 ELSE Flushed(s, me.lead, me.seen, me.row)])
    /\ UNCHANGED <<today, base, used, histories>>

-----------------------------------------------------------------------------
(* Routing *)

(* Mutant: the query does not see what the run itself has flushed.         *)
RecentlyCommitted(s, lead, org) ==
    /\ org # NoOrg
    /\ \E l \in LeadIds \ {lead} :
         /\ leads[l].org = org
         /\ leads[l].routed # Never
         /\ leads[l].routed >= today - SuppressionDays

RecentlyRouted(s, lead, org) ==
    /\ org # NoOrg
    /\ \E l \in LeadIds \ {lead} :
         /\ Seen(s, l).org = org
         /\ Seen(s, l).routed # Never
         /\ Seen(s, l).routed >= today - SuppressionDays

RoutingEligible(s) ==
    LET me == session[s] IN
    /\ me.user \notin me.optedOut
    /\ me.row.routed = Never
    /\ ~RecentlyRouted(s, me.lead, me.row.org)
    /\ me.row.instant \/ me.row.score >= (IF me.kind = "deepdive" THEN 0 ELSE Threshold)

(* Another session has decided to route a lead of the organisation.        *)
Routes(t, org) ==
    \/ session[t].pc \in {"mail", "hook", "mark"} /\ session[t].row.org = org
    \/ \E l \in Wrote(t) : session[t].mine[l].org = org /\ session[t].mine[l].routed # Never

CheckRoute(s) ==
    LET me == session[s] IN
    /\ me.pc = "check"
    /\ \/ /\ RoutingEligible(s)
          /\ channels # {}
          /\ Becomes(s, [me EXCEPT !.pc = "mail"])
          /\ raced' = IF me.row.org # NoOrg
                         /\ \E t \in Sessions \ {s} : Routes(t, me.row.org)
                      THEN raced \cup {me.row.org}
                      ELSE raced
       \/ /\ RoutingEligible(s) => channels = {}
          /\ Continue(s, me)
          /\ UNCHANGED raced
    /\ UNCHANGED <<today, base, used, sent, written, blurred>>

(* A failure of the e-mail is noted, and the webhook, if there is one, is  *)
(* called all the same; post_webhook gives up after its attempts.          *)
SendMail(s) ==
    LET me == session[s] IN
    /\ me.pc = "mail"
    /\ \E ok \in BOOLEAN :
         /\ Becomes(s, [me EXCEPT !.pc = IF "hook" \in channels THEN "hook" ELSE "mark",
                                  !.mailed = ok])
         /\ sent' = [sent EXCEPT ![me.lead] = IF ok THEN @ \cup {"mail"} ELSE @]
    /\ UNCHANGED <<today, base, used, written, blurred, raced>>

PostWebhook(s) ==
    LET me == session[s] IN
    /\ me.pc = "hook"
    /\ \E ok \in BOOLEAN :
         /\ Becomes(s, [me EXCEPT !.pc = "mark", !.hooked = ok])
         /\ sent' = [sent EXCEPT ![me.lead] = IF ok THEN @ \cup {"hook"} ELSE @]
    /\ UNCHANGED <<today, base, used, written, blurred, raced>>

(* Mutant: a failed webhook is only noted.                                 *)
MailDelivered(me) == me.mailed

Delivered(me) == me.mailed /\ ("hook" \in channels => me.hooked)

(* Each attempt updates the row, to count it and to note its errors.       *)
MarkRouted(s) ==
    LET me == session[s]
        attempted == IF Delivered(me)
                     THEN [me.row EXCEPT !.status = "routed", !.routed = today]
                     ELSE me.row
    IN
    /\ me.pc = "mark"
    /\ ~Locked(s, me.lead)
    /\ Continue(s, [me EXCEPT !.mine[me.lead] = Flushed(s, me.lead, me.seen, attempted)])
    /\ UNCHANGED <<today, base, used, histories>>

Commit(s) ==
    LET me == session[s] IN
    /\ me.pc = "commit"
    /\ leads' = [l \in LeadIds |-> Seen(s, l)]
    /\ events' = events \cup me.request
    /\ written' = [n \in Names |-> [d \in Days |->
                      written[n][d] + Number(me.request, n, d)]]
    /\ Blurs(me.request)
    /\ Becomes(s, Idle)
    /\ UNCHANGED <<today, channels, aggregates, optedOut, used, sent, raced>>

(* An exception, a deadlock or a crash: the whole run is rolled back.      *)
FailSession(s) ==
    /\ session[s].pc # "idle"
    /\ Becomes(s, Idle)
    /\ UNCHANGED <<today, base, used, histories>>

(* update_lead_outcome.                                                    *)
UpdateOutcome(l, status) ==
    /\ Act
    /\ leads[l] # NoLead
    /\ \A s \in Sessions : l \notin Wrote(s)
    /\ leads' = [leads EXCEPT ![l].status = status]
    /\ raced' = IF \E s \in Sessions : leads[l].user \in Handles(s)
                THEN raced \cup {leads[l].user}
                ELSE raced
    /\ UNCHANGED <<today, channels, events, aggregates, optedOut, session, sent, written, blurred>>

-----------------------------------------------------------------------------
(* enforce_event_retention *)

Expired == {e \in events : e.day < Cutoff}

StartRetention(s) ==
    /\ Open(s)
    /\ Becomes(s, [Idle EXCEPT !.kind = "retention", !.pc = "delete",
           !.counts = [n \in Names |-> [d \in Days |-> Number(Expired, n, d)]]])
    /\ UNCHANGED <<today, base, histories>>

(* Mutant: the counts are added to the aggregates.                         *)
DeleteExpiredAdding(s) ==
    LET me == session[s] IN
    /\ me.pc = "delete"
    /\ aggregates' = [n \in Names |-> [d \in Days |->
                         Min({MaxActs, aggregates[n][d] + me.counts[n][d]})]]
    /\ events' = events \ Expired
    /\ Becomes(s, Idle)
    /\ UNCHANGED <<today, channels, leads, optedOut, used, histories>>

(* The counts become the aggregates, in place of what was there, and what  *)
(* is past retention by now is deleted.                                    *)
DeleteExpired(s) ==
    LET me == session[s] IN
    /\ me.pc = "delete"
    /\ aggregates' = [n \in Names |-> [d \in Days |->
                         IF me.counts[n][d] = 0 THEN aggregates[n][d] ELSE me.counts[n][d]]]
    /\ events' = events \ Expired
    /\ Becomes(s, Idle)
    /\ UNCHANGED <<today, channels, leads, optedOut, used, histories>>

-----------------------------------------------------------------------------

Visit ==
    \/ \E owner \in Users \cup Browsers, name \in Names, day \in Days :
         IngestEvent(owner, name, day)
    \/ \E user \in Users, anon \in Browsers : MergeHistory(user, anon)
    \/ \E user \in Users : PrivacyDelete(user)
    \/ \E user \in Users, enabled \in BOOLEAN : PrivacyPreference(user, enabled)

Step(s) ==
    \/ StartHourly(s) \/ (\E user \in Users : StartDeepDive(s, user))
    \/ AskDeepDive(s) \/ ScoreUser(s) \/ FlushLead(s)
    \/ CheckRoute(s) \/ SendMail(s) \/ PostWebhook(s) \/ MarkRouted(s) \/ Commit(s)
    \/ FailSession(s)
    \/ StartRetention(s) \/ DeleteExpired(s)

Next ==
    \/ Tick \/ Visit
    \/ \E s \in Sessions : Step(s)
    \/ \E l \in LeadIds, status \in {"qualified", "closed"} : UpdateOutcome(l, status)

Spec == Init /\ [][Next]_vars

-----------------------------------------------------------------------------
(* Properties *)

(* A lead that counts as routed reached the desk every way the settings    *)
(* configure, by e-mail and, if there is one, by webhook, however often    *)
(* one of them failed, a run was rolled back or two runs routed it; and    *)
(* none is routed while routing is off.                                    *)
RoutedLeadsWereSent ==
    \A l \in LeadIds :
        leads[l].routed # Never => channels # {} /\ sent[l] = channels

(* 14-day organisation suppression: two leads of an organisation are       *)
(* routed more than route_suppression_days apart, also by one run and by a *)
(* deep-dive request, unless two sessions decided to route for the         *)
(* organisation before either of them committed.                           *)
OrganisationsAreSuppressed ==
    \A l, k \in LeadIds :
        LET a == leads[l] b == leads[k] IN
        \/ l = k \/ a.org = NoOrg \/ a.org # b.org \/ a.org \in raced
        \/ a.routed = Never \/ b.routed = Never
        \/ a.routed - b.routed > SuppressionDays
        \/ b.routed - a.routed > SuppressionDays

(* A user has one open lead at a time, which every scoring updates, unless *)
(* two sessions were at the user's leads at once, or a desk gave one an    *)
(* outcome, or the user changed the preference, while a session was.       *)
OneOpenLead ==
    \A l, k \in LeadIds :
        \/ l = k \/ leads[l].user # leads[k].user \/ leads[l].user \in raced
        \/ leads[l].status \notin {"new", "routed"}
        \/ leads[k].status \notin {"new", "routed"}

(* Retention forgets events and keeps their number: what was written of a  *)
(* name on a day and not erased by its user is either still there or in    *)
(* the daily aggregate, also when two retention runs overlap, unless an    *)
(* event of that day was written or erased after the day's retention.      *)
EventsAreAccounted ==
    \A n \in Names, d \in Days :
        <<n, d>> \notin blurred =>
            written[n][d] = aggregates[n][d] + Number(events, n, d)
=============================================================================
