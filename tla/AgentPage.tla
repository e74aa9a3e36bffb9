------------------------------- MODULE AgentPage -------------------------------
(***************************************************************************)
(* The page of one agent: its buttons, its tabs' badges and the summary on *)
(* its first tab, over cached answers of the daemon.                       *)
(*                                                                         *)
(* Source: app/app/agents/[agent]/view.tsx, components/status-badge.tsx,   *)
(* components/identity/identity-panel.tsx; internal/daemon.go.             *)
(***************************************************************************)
EXTENDS Naturals, Sequences, FiniteSets

CONSTANTS
  SessionIds,    (* sessions of the agent                                  *)
  MaxAgentJobs,  (* bound: jobs of the agent                               *)
  MaxAgentOps    (* bound: what the operator and others do                 *)

ASSUME AgentAssumption == IsFiniteSet(SessionIds)

VARIABLES
  agentStatus,   (* the daemon's status, "gone" once removed               *)
  agentSessions, (* the sessions the daemon keeps                          *)
  agentJobs,     (* the statuses of its jobs, oldest first                 *)
  pageAt,        (* "agent", "agents", "not found"                         *)
  pageTab,       (* activeTab                                              *)
  pageStatus,    (* cached status, "loading" before the first answer       *)
  pageSessions, pageJobs,   (* cached                                      *)
  pageFailed,    (* the latest answer to the sessions query was an error   *)
  pageDesc,      (* the describeImage query: "loading", "error" or answer  *)
  pageCalls,     (* mutations under way: [do, id]                          *)
  pageToken,     (* the identity tab shows the token                       *)
  pageOps

agentVars == <<agentStatus, agentSessions, agentJobs, pageAt, pageTab, pageStatus,
               pageSessions, pageFailed, pageJobs, pageDesc, pageCalls, pageToken, pageOps>>

AgentStatuses == {"pulling", "starting", "ready", "working", "stopped", "failed"}

(* The daemon's job statuses, in the order of the bar.                     *)
JobStatuses == <<"running", "done", "error", "cancelled", "orphaned", "pending">>

(* The list of sessions before the first answer.                           *)
NotAsked == {"loading"}

AgentPageInit ==
  /\ agentStatus \in AgentStatuses
  /\ agentSessions \in SUBSET SessionIds
  /\ agentJobs = <<>>
  /\ pageAt = "agent"
  /\ pageTab = "dashboard"
  /\ pageStatus = "loading"
  /\ pageSessions = NotAsked /\ pageFailed = FALSE /\ pageJobs = <<>>
  /\ pageDesc = "loading"
  /\ pageCalls = {}
  /\ pageToken = FALSE
  /\ pageOps = 0

CountPageOp == pageOps < MaxAgentOps /\ pageOps' = pageOps + 1

-----------------------------------------------------------------------------
(* What is drawn.                                                          *)

OnAgent == pageAt = "agent" /\ pageStatus # "loading"

(* "Alive" when ready or working: Stop is offered then, Start otherwise.   *)
AgentRunning == pageStatus \in {"ready", "working"}

Calling(do, id) == [do |-> do, id |-> id] \in pageCalls

CountJobs(statuses) == Cardinality({i \in DOMAIN pageJobs : pageJobs[i] \in statuses})

(* The hint of the jobs card.                                              *)
AgentDashboard ==
  [running |-> CountJobs({"running"}), done |-> CountJobs({"done"}),
   failed |-> CountJobs({"error", "orphaned", "cancelled"})]

(* Mutant: cancelled jobs are not in the bar.                              *)
JobStatusBarUncancelled ==
  [s \in {JobStatuses[i] : i \in DOMAIN JobStatuses} \ {"cancelled"} |-> CountJobs({s})]

(* The bar: a segment per status, as wide as its count.                    *)
JobStatusBar ==
  [s \in {JobStatuses[i] : i \in DOMAIN JobStatuses} |-> CountJobs({s})]

(* The badge beside the name of the tab; none for 0.                       *)
SessionsBadge == IF pageSessions = NotAsked THEN 0 ELSE Cardinality(pageSessions)

(* Mutant: an error is not told from an empty answer.                      *)
SessionsTabUnfailed ==
  (IF pageSessions = NotAsked /\ ~pageFailed THEN {"Loading sessions"} ELSE {})
  \cup (IF pageFailed THEN {"Failed to fetch sessions"} ELSE {})
  \cup (IF pageSessions = {} THEN {"No sessions yet"} ELSE {})
  \cup (IF pageSessions \notin {NotAsked, {}} THEN {"sessions"} ELSE {})

(* The lines of the tab, each under a condition of its own; an error keeps *)
(* the answer before it.                                                   *)
SessionsTab ==
  (IF pageSessions = NotAsked /\ ~pageFailed THEN {"Loading sessions"} ELSE {})
  \cup (IF pageFailed THEN {"Failed to fetch sessions"} ELSE {})
  \cup (IF pageSessions = {} /\ ~pageFailed THEN {"No sessions yet"} ELSE {})
  \cup (IF pageSessions \notin {NotAsked, {}} THEN {"sessions"} ELSE {})

(* The lists of the summary: a query without an answer counts as empty.    *)
RecentLists ==
  {IF pageSessions \in {NotAsked, {}} THEN "No sessions yet" ELSE "sessions",
   IF pageJobs = <<>> THEN "No jobs yet" ELSE "jobs"}

(* The claims of the agent's token, and the token itself once revealed.    *)
IdentityPanel == IF pageToken THEN {"claims", "token"} ELSE {"claims"}

(* What a tab draws.                                                       *)
TabPanel(t) ==
  CASE t = "dashboard" -> RecentLists
    [] t = "sessions"  -> SessionsTab
    [] t = "jobs"      -> IF pageJobs = <<>> THEN {"No jobs yet"} ELSE {"jobs"}
    [] t = "bins"      -> {"bins"}
    [] t = "identity"  -> IdentityPanel

(* The badge of the Env tab, computed apart from the card it counts.       *)
ImageCounts == IF pageDesc = "some" THEN 1 ELSE 0

(* The lines of the card of that tab; a config that cannot be parsed also  *)
(* reads as one that declares nothing.                                     *)
AgentEnvCard ==
  (IF pageDesc = "loading" THEN {"Loading"} ELSE {})
  \cup (IF pageDesc = "error" THEN {"Failed to describe image"} ELSE {})
  \cup (IF pageDesc = "garbled" THEN {"Failed to parse image config"} ELSE {})
  \cup (IF pageDesc \in {"none", "garbled"} THEN {"No environment variables declared"} ELSE {})
  \cup (IF pageDesc = "some" THEN {"list"} ELSE {})

(* The same for the contexts.                                              *)
AgentContextsCard == AgentEnvCard

(* The page of the image parses the same config with code of its own, and  *)
(* leaves out the sections it finds nothing for.                           *)
ParseFromConfig(config) == IF config = "some" THEN {"capabilities", "contexts", "envs"} ELSE {}
ImageDetailPage(desc) == {s \in ParseFromConfig(desc) : desc \notin {"loading", "error"}}

(* The look of a status; one that is not known is drawn as it is, muted.   *)
BadgeTone ==
  [green  |-> {"ready", "running", "active", "connected", "completed", "done"},
   amber  |-> {"pulling", "starting", "provisioning", "scaling"},
   blue   |-> {"working", "pending"},
   red    |-> {"failed", "error"},
   orange |-> {"degraded", "orphaned"},
   muted  |-> {"stopped", "removing", "removed", "disconnected", "suspended", "cancelled"}]

HasTone(s) == \E t \in DOMAIN BadgeTone : s \in BadgeTone[t]

VisualFor(s) == IF HasTone(s) THEN CHOOSE t \in DOMAIN BadgeTone : s \in BadgeTone[t] ELSE "muted"

-----------------------------------------------------------------------------
(* Queries, each at an interval of its own.                                *)

(* Mutant: a page whose agent is no longer listed keeps what it shows.     *)
FetchAgentsKeeping ==
  /\ pageAt = "agent" /\ pageStatus # agentStatus
  /\ pageStatus' = IF agentStatus = "gone" THEN pageStatus ELSE agentStatus
  /\ UNCHANGED <<agentStatus, agentSessions, agentJobs, pageAt, pageTab,
                 pageSessions, pageFailed, pageJobs, pageDesc, pageCalls, pageToken, pageOps>>

(* An agent that is not in the list is notFound().                         *)
FetchAgents ==
  /\ pageAt = "agent" /\ pageStatus # agentStatus
  /\ IF agentStatus = "gone" THEN pageAt' = "not found" /\ UNCHANGED pageStatus
                             ELSE pageStatus' = agentStatus /\ UNCHANGED pageAt
  /\ UNCHANGED <<agentStatus, agentSessions, agentJobs, pageTab,
                 pageSessions, pageFailed, pageJobs, pageDesc, pageCalls, pageToken, pageOps>>

(* Mutant: the list of sessions is asked for once.                         *)
FetchSessionsOnce ==
  /\ pageAt = "agent" /\ agentStatus # "gone" /\ pageSessions = NotAsked
  /\ pageSessions' = agentSessions /\ pageFailed' = FALSE
  /\ UNCHANGED <<agentStatus, agentSessions, agentJobs, pageAt, pageTab, pageStatus,
                 pageJobs, pageDesc, pageCalls, pageToken, pageOps>>

FetchSessions ==
  /\ pageAt = "agent" /\ agentStatus # "gone"
  /\ pageFailed \/ pageSessions # agentSessions
  /\ pageSessions' = agentSessions /\ pageFailed' = FALSE
  /\ UNCHANGED <<agentStatus, agentSessions, agentJobs, pageAt, pageTab, pageStatus,
                 pageJobs, pageDesc, pageCalls, pageToken, pageOps>>

FetchSessionsFails ==
  /\ pageAt = "agent" /\ ~pageFailed /\ CountPageOp
  /\ pageFailed' = TRUE
  /\ UNCHANGED <<agentStatus, agentSessions, agentJobs, pageAt, pageTab, pageStatus,
                 pageSessions, pageJobs, pageDesc, pageCalls, pageToken>>

FetchJobs ==
  /\ OnAgent /\ pageJobs # agentJobs
  /\ pageJobs' = agentJobs
  /\ UNCHANGED <<agentStatus, agentSessions, agentJobs, pageAt, pageTab, pageStatus,
                 pageSessions, pageFailed, pageDesc, pageCalls, pageToken, pageOps>>

(* What the image's config declares, or that it cannot be parsed; asked    *)
(* for until it is answered.                                               *)
DescribeImage ==
  /\ OnAgent /\ pageDesc \in {"loading", "error"}
  /\ pageDesc' \in {"none", "some", "garbled", "error"}
  /\ UNCHANGED <<agentStatus, agentSessions, agentJobs, pageAt, pageTab, pageStatus,
                 pageSessions, pageFailed, pageJobs, pageCalls, pageToken, pageOps>>

-----------------------------------------------------------------------------
(* The operator.                                                           *)

Tabs == {"dashboard", "sessions", "jobs", "bins", "identity"}

(* Mutant: the panel of a tab stays mounted behind the others.             *)
SetActiveTabMounted(t) ==
  /\ OnAgent /\ t # pageTab
  /\ pageTab' = t
  /\ UNCHANGED <<agentStatus, agentSessions, agentJobs, pageAt, pageStatus,
                 pageSessions, pageFailed, pageJobs, pageDesc, pageCalls, pageToken, pageOps>>

(* Also by a card of the summary (onJump).  Leaving a tab unmounts it.     *)
SetActiveTab(t) ==
  /\ OnAgent /\ t # pageTab
  /\ pageTab' = t
  /\ pageToken' = FALSE
  /\ UNCHANGED <<agentStatus, agentSessions, agentJobs, pageAt, pageStatus,
                 pageSessions, pageFailed, pageJobs, pageDesc, pageCalls, pageOps>>

(* The raw token of the identity tab.                                      *)
RevealToken ==
  /\ OnAgent /\ pageTab = "identity"
  /\ pageToken' = ~pageToken
  /\ UNCHANGED <<agentStatus, agentSessions, agentJobs, pageAt, pageTab, pageStatus,
                 pageSessions, pageFailed, pageJobs, pageDesc, pageCalls, pageOps>>

(* Start, Stop, Delete and a session's Delete, each disabled by its own    *)
(* call; sessions share one call, so only the latest is disabled.          *)
CallDaemon(do, id) ==
  /\ OnAgent /\ ~Calling(do, id)
  /\ CountPageOp
  /\ CASE do = "stop"    -> AgentRunning
       [] do = "start"   -> ~AgentRunning
       [] do = "remove"  -> TRUE
       [] do = "session" -> pageTab = "sessions" /\ id \in pageSessions
  /\ pageCalls' = pageCalls \cup {[do |-> do, id |-> id]}
  /\ UNCHANGED <<agentStatus, agentSessions, agentJobs, pageAt, pageTab, pageStatus,
                 pageSessions, pageFailed, pageJobs, pageDesc, pageToken>>

LeavePage ==
  /\ OnAgent /\ CountPageOp
  /\ pageAt' = "elsewhere"
  /\ UNCHANGED <<agentStatus, agentSessions, agentJobs, pageTab, pageStatus,
                 pageSessions, pageFailed, pageJobs, pageDesc, pageCalls, pageToken>>

-----------------------------------------------------------------------------
(* The daemon.                                                             *)

(* A call is answered, or refused.  The answer of a removal leads to the   *)
(* list of agents, from wherever the operator is by then.                  *)
CallAnswered(c) ==
  /\ c \in pageCalls
  /\ pageCalls' = pageCalls \ {c}
  /\ \/ /\ agentStatus # "gone"
        /\ agentStatus' = CASE c.do = "start" -> "starting" [] c.do = "stop" -> "stopped"
                            [] c.do = "remove" -> "gone"    [] OTHER -> agentStatus
        /\ agentSessions' = agentSessions \ {c.id}
        /\ agentJobs' = IF c.do = "remove" THEN <<>> ELSE agentJobs
        /\ pageAt' = IF c.do = "remove" THEN "agents" ELSE pageAt
     \/ UNCHANGED <<agentStatus, agentSessions, agentJobs, pageAt>>
  /\ UNCHANGED <<pageTab, pageStatus, pageSessions, pageFailed, pageJobs, pageDesc, pageToken,
                 pageOps>>

(* The agent's own life, and other windows: a chat or a call by another    *)
(* agent begins a session, a window deletes one.                           *)
AgentMoves ==
  /\ agentStatus # "gone" /\ CountPageOp
  /\ \/ /\ agentStatus' \in {"ready", "working", "failed", "gone"} \ {agentStatus}
        /\ agentJobs' = IF agentStatus' = "gone" THEN <<>> ELSE agentJobs
        /\ UNCHANGED agentSessions
     \/ /\ Len(agentJobs) < MaxAgentJobs
        /\ agentJobs' = Append(agentJobs, "pending")
        /\ UNCHANGED <<agentStatus, agentSessions>>
     \/ /\ \E i \in DOMAIN agentJobs, s \in {"running", "done", "error", "cancelled", "orphaned"} :
             /\ agentJobs[i] \in {"pending", "running"}
             /\ agentJobs' = [agentJobs EXCEPT ![i] = s]
        /\ UNCHANGED <<agentStatus, agentSessions>>
     \/ /\ \E id \in SessionIds : agentSessions' \in {agentSessions \cup {id}, agentSessions \ {id}}
        /\ UNCHANGED <<agentStatus, agentJobs>>
  /\ UNCHANGED <<pageAt, pageTab, pageStatus, pageSessions, pageFailed, pageJobs,
                 pageDesc, pageCalls, pageToken>>

Ids(do) == IF do = "session" THEN SessionIds ELSE {"agent"}

AgentPageNext ==
  \/ FetchAgents \/ FetchSessions \/ FetchSessionsFails \/ FetchJobs \/ DescribeImage
  \/ \E t \in Tabs : SetActiveTab(t)
  \/ RevealToken \/ LeavePage \/ AgentMoves
  \/ \E do \in {"start", "stop", "remove", "session"} : \E id \in Ids(do) : CallDaemon(do, id)
  \/ \E c \in pageCalls : CallAnswered(c)

-----------------------------------------------------------------------------
(* Properties.                                                             *)

AgentPageTypeOK ==
  /\ agentStatus \in AgentStatuses \cup {"gone"}
  /\ pageStatus \in AgentStatuses \cup {"loading"}
  /\ pageAt \in {"agent", "agents", "not found", "elsewhere"}
  /\ pageTab \in Tabs
  /\ agentSessions \subseteq SessionIds /\ pageFailed \in BOOLEAN
  /\ pageSessions = NotAsked \/ pageSessions \subseteq SessionIds
  /\ pageDesc \in {"loading", "error", "garbled", "none", "some"}
  /\ pageToken => pageTab = "identity"

(* What is counted in one place of the page is what is listed in another:  *)
(* every job has one segment of the bar, the hint leaves out only those    *)
(* that wait, the Env badge counts what its card and the page of the image *)
(* list, and no status of an agent or a job is drawn as an unknown one.    *)
(* The tab of the sessions always draws something, counts what it lists,   *)
(* and says that there are none only when that is all it says: not before  *)
(* an answer, beside an error or beside a list.  The summary says what the *)
(* tab lists; without an answer it says that there are none.               *)
AgentPageAddsUp ==
  /\ \A i \in DOMAIN pageJobs : pageJobs[i] \in DOMAIN JobStatusBar /\ HasTone(pageJobs[i])
  /\ LET h == AgentDashboard IN
       h.running + h.done + h.failed + CountJobs({"pending"}) = Len(pageJobs)
  /\ SessionsTab # {} /\ ("No sessions yet" \in SessionsTab => SessionsTab = {"No sessions yet"})
  /\ \A line \in {"sessions", "No sessions yet"} :
       line \in TabPanel("sessions") => line \in TabPanel("dashboard")
  /\ SessionsBadge > 0 <=> "sessions" \in TabPanel("sessions")
  /\ ("list" \in AgentEnvCard) <=> "envs" \in ImageDetailPage(pageDesc)
  /\ ImageCounts > 0 <=> "list" \in AgentEnvCard /\ "list" \in AgentContextsCard
  /\ pageStatus \in AgentStatuses => HasTone(pageStatus)

(* Whoever begins or deletes a session, here or elsewhere, and whatever    *)
(* answers fail: the page gets to list the sessions there are.             *)
SessionsAreListed == pageAt = "agent" /\ agentStatus # "gone" => pageSessions = agentSessions

(* Nobody is left on the page of an agent that is gone, whoever removed    *)
(* it; the answer to the removal may be lost.                              *)
RemovedIsLeft == agentStatus = "gone" => pageAt # "agent"
=============================================================================
