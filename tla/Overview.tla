-------------------------------- MODULE Overview --------------------------------
(***************************************************************************)
(* The pages and chips that only list: the dashboard with its health badge *)
(* and counters, the list of agents, the list of jobs with its filter, and *)
(* the strip of a chat session's jobs.  Each repeats its query and draws   *)
(* the last answer; every query of theirs asks for one thing, so one       *)
(* answer per thing is kept.                                               *)
(*                                                                         *)
(* Jobs are numbered in the order of submission; created_at counts         *)
(* seconds, and within one second the daemon's order is that of its        *)
(* storage, oldest first.                                                  *)
(*                                                                         *)
(* Source: app/app/page.tsx, app/app/agents/page.tsx, app/app/jobs/page.tsx,*)
(* components/resource-stats.tsx, daemon-status.tsx, agent-card.tsx,       *)
(* jobs/jobs-table.tsx, jobs/session-jobs-strip.tsx; internal/asyncjobs/   *)
(* store.go (ListAll).                                                     *)
(***************************************************************************)
EXTENDS Naturals, Sequences, SequencesExt, FiniteSets

CONSTANTS
  ListedJobs,    (* bound: jobs submitted                                  *)
  StripSize,     (* how many chips the collapsed strip shows               *)
  RecentSize,    (* how many rows the dashboard shows                      *)
  MaxHomeOps     (* bound: changes of the daemon                           *)

ASSUME HomeAssumption ==
  /\ ListedJobs \in Nat /\ StripSize \in Nat /\ RecentSize \in Nat \ {0}
  /\ MaxHomeOps \in Nat

VARIABLES
  homeUp,        (* the daemon answers                                     *)
  homeAgent,     (* the status of the one agent, "none" without one        *)
  homeJobs,      (* the jobs table: [at, status], in order of submission   *)
  homeInfo,      (* the GetInfo query: "loading", "answered", "error"      *)
  homeSeenAgent, homeSeenJobs,   (* cached answers                         *)
  homeFilter,    (* the jobs page's status filter                          *)
  homeListed,    (* its answer, "loading" before the first of this filter  *)
  homeExpanded,  (* the strip shows every job                              *)
  homeOps

homeVars == <<homeUp, homeAgent, homeJobs, homeInfo, homeSeenAgent, homeSeenJobs, homeFilter,
              homeListed, homeExpanded, homeOps>>

HomeJobStatuses == {"pending", "running", "done"}

HomeInit ==
  /\ homeUp = TRUE /\ homeAgent = "none" /\ homeJobs = <<>>
  /\ homeInfo = "loading" /\ homeSeenAgent = "none" /\ homeSeenJobs = <<>>
  /\ homeFilter = "" /\ homeListed = <<>>
  /\ homeExpanded = FALSE /\ homeOps = 0

CountHomeOp == homeOps < MaxHomeOps /\ homeOps' = homeOps + 1

-----------------------------------------------------------------------------
(* The daemon.                                                             *)

(* The indices of s from the latest row on, those of one second as they    *)
(* come: what a stable sort makes of it.                                   *)
LatestFirst(s) ==
  LET Before(i, j) == s[i].at > s[j].at \/ (s[i].at = s[j].at /\ i < j)
  IN [k \in DOMAIN s |-> CHOOSE j \in DOMAIN s :
                           Cardinality({i \in DOMAIN s : Before(i, j)}) = k - 1]

HomeJob(n) == [n |-> n, at |-> homeJobs[n].at, status |-> homeJobs[n].status]

(* WHERE status = f, ORDER BY created_at DESC.                             *)
ListAsyncJobs(f) ==
  LET order == LatestFirst(homeJobs)
      Shows(n) == f = "" \/ homeJobs[n].status = f
  IN FlattenSeq([k \in DOMAIN order |-> IF Shows(order[k]) THEN <<HomeJob(order[k])>> ELSE <<>>])

HomeDaemon ==
  /\ CountHomeOp
  /\ \/ /\ homeUp' = ~homeUp
        /\ UNCHANGED <<homeAgent, homeJobs>>
     \/ /\ homeAgent' \in {"none", "starting", "ready", "stopped"} \ {homeAgent}
        /\ UNCHANGED <<homeUp, homeJobs>>
     \/ /\ homeUp /\ Len(homeJobs) < ListedJobs
        /\ \E later \in {0, 1} :
             homeJobs' = Append(homeJobs, [at |-> IF homeJobs = <<>> THEN 0 ELSE Last(homeJobs).at + later,
                                           status |-> "pending"])
        /\ UNCHANGED <<homeUp, homeAgent>>
     \/ /\ \E n \in DOMAIN homeJobs, s \in {"running", "done"} :
             /\ homeJobs[n].status # "done" /\ s # homeJobs[n].status
             /\ homeJobs' = [homeJobs EXCEPT ![n].status = s]
        /\ UNCHANGED <<homeUp, homeAgent>>
  /\ UNCHANGED <<homeInfo, homeSeenAgent, homeSeenJobs, homeFilter, homeListed, homeExpanded>>

-----------------------------------------------------------------------------
(* The queries.  A failed one leaves the last answer in the cache.         *)

FetchInfo ==
  /\ homeInfo' = IF homeUp THEN "answered" ELSE "error"
  /\ UNCHANGED <<homeUp, homeAgent, homeJobs, homeSeenAgent, homeSeenJobs, homeFilter, homeListed,
                 homeExpanded, homeOps>>

FetchLists ==
  /\ homeUp
  /\ homeSeenAgent' = homeAgent
  /\ homeSeenJobs' = ListAsyncJobs("")
  /\ UNCHANGED <<homeUp, homeAgent, homeJobs, homeInfo, homeFilter, homeListed, homeExpanded, homeOps>>

FetchFiltered ==
  /\ homeUp
  /\ homeListed' = ListAsyncJobs(homeFilter)
  /\ UNCHANGED <<homeUp, homeAgent, homeJobs, homeInfo, homeSeenAgent, homeSeenJobs, homeFilter,
                 homeExpanded, homeOps>>

(* The select shows "", with which the page opens, as all statuses, and so *)
(* its own entry of that name.                                             *)
SelectedFilter == IF homeFilter = "" THEN "_all" ELSE homeFilter

(* Mutant: the former answer is shown until the new one is there.          *)
PickFilterKeeping(f) ==
  /\ f # SelectedFilter
  /\ homeFilter' = f
  /\ UNCHANGED <<homeUp, homeAgent, homeJobs, homeInfo, homeSeenAgent, homeSeenJobs, homeListed,
                 homeExpanded, homeOps>>

(* An entry of the select is sent as it is, the one of all statuses too; a *)
(* new filter is a new query, without an answer yet.                       *)
PickFilter(f) ==
  /\ f # SelectedFilter
  /\ homeFilter' = f
  /\ homeListed' = <<>>
  /\ UNCHANGED <<homeUp, homeAgent, homeJobs, homeInfo, homeSeenAgent, homeSeenJobs, homeExpanded, homeOps>>

-----------------------------------------------------------------------------
(* What is drawn.                                                          *)

HealthBadge ==
  CASE homeInfo = "loading"  -> "Connecting"
    [] homeInfo = "answered" -> "Healthy"
    [] homeInfo = "error"    -> "Unreachable"

(* The pill of the side bar reads the same cached answer.                  *)
DaemonStatus == IF HealthBadge = "Healthy" THEN "Daemon" ELSE HealthBadge

RecentJobs == SubSeq(homeSeenJobs, 1, IF Len(homeSeenJobs) < RecentSize THEN Len(homeSeenJobs) ELSE RecentSize)

(* "running" is a status no agent has any more.                            *)
ResourceStats ==
  [agents |-> IF homeSeenAgent = "none" THEN 0 ELSE 1,
   running |-> IF homeSeenAgent = "running" THEN 1 ELSE 0]

AgentsPage == IF homeSeenAgent = "none" THEN "No agents yet" ELSE "cards"

(* Chat and delete are offered whatever the status.                        *)
AgentCard == [status |-> homeSeenAgent, offers |-> {"chat", "delete"}]

(* The rows the filter asks for.                                           *)
JobsPage == [filter |-> SelectedFilter, rows |-> homeListed]

JobsTable(rows) == IF rows = <<>> THEN "No jobs yet" ELSE "rows"

(* Mutant: the comparison is turned round.                                 *)
StripSortedUp(rows) ==
  LET order == LatestFirst(rows)
  IN [k \in DOMAIN rows |-> rows[order[Len(rows) + 1 - k]]]

(* The strip sorts for itself.                                             *)
StripSorted(rows) == LET order == LatestFirst(rows) IN [k \in DOMAIN rows |-> rows[order[k]]]

StripVisible ==
  LET sorted == StripSorted(homeSeenJobs) IN
  IF homeExpanded \/ Len(sorted) <= StripSize THEN sorted ELSE SubSeq(sorted, 1, StripSize)
StripHidden == Range(homeSeenJobs) \ Range(StripVisible)

(* "Show n more" and "Collapse".                                           *)
ToggleStrip ==
  /\ IF homeExpanded THEN Len(homeSeenJobs) > 1 ELSE StripHidden # {}
  /\ homeExpanded' = ~homeExpanded
  /\ UNCHANGED <<homeUp, homeAgent, homeJobs, homeInfo, homeSeenAgent, homeSeenJobs, homeFilter,
                 homeListed, homeOps>>

-----------------------------------------------------------------------------
HomeNext ==
  \/ HomeDaemon
  \/ FetchInfo \/ FetchLists \/ FetchFiltered
  \/ \E f \in HomeJobStatuses \cup {"_all"} : PickFilter(f)
  \/ ToggleStrip

-----------------------------------------------------------------------------
(* The sets the variables stay in.                                         *)
HomeTypeOK ==
  LET Rows == [n : 1..ListedJobs, at : 0..ListedJobs, status : HomeJobStatuses] IN
  /\ homeUp \in BOOLEAN /\ homeExpanded \in BOOLEAN /\ homeOps \in 0..MaxHomeOps
  /\ {homeAgent, homeSeenAgent} \subseteq {"none", "starting", "ready", "stopped"}
  /\ homeJobs \in Seq([at : 0..ListedJobs, status : HomeJobStatuses])
  /\ homeInfo \in {"loading", "answered", "error"}
  /\ homeSeenJobs \in Seq(Rows) /\ homeListed \in Seq(Rows)
  /\ homeFilter \in HomeJobStatuses \cup {"", "_all"}

(* What is drawn from one answer agrees, and a list never shows a row the  *)
(* filter on screen does not ask for: rows that were asked for under       *)
(* another filter are gone with it.  "All statuses", once it is picked     *)
(* again, is sent as a status of its own, which no job has: the page then  *)
(* lists nothing.                                                          *)
HomeAddsUp ==
  /\ AgentsPage = "cards" <=> ResourceStats.agents = 1
  /\ DaemonStatus = "Daemon" <=> HealthBadge = "Healthy"
  /\ JobsTable(RecentJobs) = JobsTable(homeSeenJobs)
  /\ \A r \in Range(JobsPage.rows) : homeFilter \in {"", r.status}
  /\ homeFilter = "_all" => JobsTable(JobsPage.rows) = "No jobs yet"

(* The collapsed strip and the dashboard leave out the oldest jobs only,   *)
(* whatever the order the answer came in, and the strip says how many.     *)
ShortListsAreTheNewest ==
  /\ \A r \in StripHidden, s \in Range(StripVisible) : r.at <= s.at
  /\ \A r \in Range(homeSeenJobs) \ Range(RecentJobs), s \in Range(RecentJobs) : r.at <= s.at
  /\ Cardinality(StripHidden) + Len(StripVisible) = Len(homeSeenJobs)
=============================================================================
