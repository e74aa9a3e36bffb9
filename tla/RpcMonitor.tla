------------------------------- MODULE RpcMonitor -------------------------------
(***************************************************************************)
(* The RPC page over the daemon's recorder: one subscription at a time,    *)
(* restarted with every change of the filters, feeds a bounded table.      *)
(*                                                                         *)
(* The page's subscriptions are numbered in the order it opens them; the   *)
(* status filter stands for all of them.                                   *)
(*                                                                         *)
(* Source: components/rpc/rpc-monitor.tsx; internal/runtime_handler.go     *)
(* (StreamRPCCalls, buildRPCFilter).                                       *)
(***************************************************************************)
EXTENDS Recorder

CONSTANTS
  OkCalls,      (* the calls that succeed                                  *)
  BufferSize    (* CLIENT_BUFFER_SIZE                                      *)

ASSUME MonitorAssumption ==
  /\ OkCalls \subseteq Nat
  /\ BufferSize \in Nat \ {0}
  /\ Cardinality(Sub) \in Nat \ {0} /\ Sub = 1..Cardinality(Sub)

VARIABLES
  monSub,       (* the subscription the page reads, 0 when there is none   *)
  monOpened,    (* how many it has opened                                  *)
  monFilter,    (* filters                                                 *)
  monWire,      (* sent by the handler, not yet taken by the page          *)
  monPaused,
  monEvents,    (* the table, newest first: [id, call]                     *)
  monIds,       (* idRef                                                   *)
  monSheet,     (* the row whose details are open                          *)
  monError,     (* "none", "error", or "crashed" when the effect threw     *)
  (* history *)
  monGone       (* calls of monSub the table has let go                    *)

monPage == <<monSub, monOpened, monFilter, monWire, monPaused, monEvents, monIds, monSheet,
             monError, monGone>>
monitorVars == <<recVars, monPage>>

(* "any" is the value of the entry Any; a duration that is not a number    *)
(* stands for itself.                                                      *)
MonitorFilters == {"any", "ok", "error", "not a number"}

NoEvent == [id |-> 0, call |-> 0]

MonitorInit ==
  /\ RecInit
  /\ monSub = 1 /\ monOpened = 1
  /\ monFilter = ""
  /\ monWire = <<>> /\ monPaused = FALSE
  /\ monEvents = <<>> /\ monIds = 0
  /\ monSheet = NoEvent /\ monError = "none"
  /\ monGone = {}

-----------------------------------------------------------------------------
(* The handler.                                                            *)

(* buildRPCFilter: a status it does not know is compared as it is.         *)
RpcFilter(f, c) ==
  CASE f = ""      -> TRUE
    [] f = "ok"    -> c \in OkCalls
    [] f = "error" -> c \notin OkCalls
    [] OTHER       -> FALSE

(* The page's current subscription was opened with its current filters; a  *)
(* response to an earlier one is not read any more.                        *)
ServeCall(s) ==
  /\ Receive(s)
  /\ monWire' = IF s = monSub /\ RpcFilter(monFilter, Head(recQueue[s]))
                  THEN Append(monWire, Head(recQueue[s])) ELSE monWire
  /\ UNCHANGED <<monSub, monOpened, monFilter, monPaused, monEvents, monIds, monSheet, monError, monGone>>

(* The handler returns: the page has aborted the request, or the daemon    *)
(* ends it, with an error or, when it shuts down, without one.             *)
StreamEnds(s) ==
  /\ Leave(s)
  /\ IF s = monSub
       THEN monSub' = 0 /\ monWire' = <<>> /\ monError' \in {"none", "error"}
       ELSE UNCHANGED <<monSub, monWire, monError>>
  /\ UNCHANGED <<monOpened, monFilter, monPaused, monEvents, monIds, monSheet, monGone>>

-----------------------------------------------------------------------------
(* The page.                                                               *)

MonitorUp == monError # "crashed"

NextSub == monOpened + 1

(* Mutant: the table survives a change of the filters.                     *)
ChangeFilterKeepingRows(f) ==
  /\ MonitorUp /\ f # monFilter /\ f # "not a number"
  /\ NextSub \in Sub
  /\ monFilter' = f
  /\ monWire' = <<>> /\ monError' = "none"
  /\ monSub' = NextSub /\ monOpened' = NextSub
  /\ UNCHANGED <<recVars, monEvents, monGone, monPaused, monIds, monSheet>>

(* A key in a text field, or an entry of a select: the effect is cleaned   *)
(* up and run again.  BigInt throws at what is not a number, before the    *)
(* new subscription, and takes the page with it.                           *)
ChangeFilter(f) ==
  /\ MonitorUp /\ f # monFilter
  /\ NextSub \in Sub
  /\ monFilter' = f
  /\ monWire' = <<>>
  /\ IF f = "not a number"
       THEN /\ monError' = "crashed" /\ monSub' = 0
            /\ UNCHANGED <<monOpened, monEvents, monGone>>
       ELSE /\ monError' = "none" /\ monSub' = NextSub /\ monOpened' = NextSub
            /\ monEvents' = <<>> /\ monGone' = {}
  /\ UNCHANGED <<recVars, monPaused, monIds, monSheet>>

CallsOf(events) == {events[i].call : i \in DOMAIN events}

(* Mutant: the newest row is cut off.                                      *)
CappedAtFront(events) ==
  IF Len(events) <= BufferSize THEN events ELSE SubSeq(events, 2, BufferSize + 1)

(* next.slice(0, CLIENT_BUFFER_SIZE)                                       *)
Capped(events) == IF Len(events) <= BufferSize THEN events ELSE SubSeq(events, 1, BufferSize)

(* One turn of the for-await loop.                                         *)
TakeCall ==
  /\ MonitorUp /\ monWire # <<>>
  /\ monWire' = Tail(monWire)
  /\ IF monPaused
       THEN /\ monGone' = monGone \cup {Head(monWire)}
            /\ UNCHANGED <<monEvents, monIds>>
       ELSE LET next == <<[id |-> monIds, call |-> Head(monWire)]>> \o monEvents IN
            /\ monIds' = monIds + 1
            /\ monEvents' = Capped(next)
            /\ monGone' = IF Len(next) > BufferSize THEN monGone \cup {Last(next).call} ELSE monGone
  /\ UNCHANGED <<recVars, monSub, monOpened, monFilter, monPaused, monSheet, monError>>

TogglePause ==
  /\ MonitorUp
  /\ monPaused' = ~monPaused
  /\ UNCHANGED <<recVars, monSub, monOpened, monFilter, monWire, monEvents, monIds, monSheet, monError, monGone>>

ClearTable ==
  /\ MonitorUp /\ monEvents # <<>>
  /\ monEvents' = <<>>
  /\ monGone' = monGone \cup CallsOf(monEvents)
  /\ UNCHANGED <<recVars, monSub, monOpened, monFilter, monWire, monPaused, monIds, monSheet, monError>>

(* A click on a row, and on anything but the sheet it opens.               *)
SelectRow(i) ==
  /\ MonitorUp /\ monSheet = NoEvent /\ i \in DOMAIN monEvents
  /\ monSheet' = monEvents[i]
  /\ UNCHANGED <<recVars, monSub, monOpened, monFilter, monWire, monPaused, monEvents, monIds, monError, monGone>>

CloseSheet ==
  /\ MonitorUp /\ monSheet # NoEvent
  /\ monSheet' = NoEvent
  /\ UNCHANGED <<recVars, monSub, monOpened, monFilter, monWire, monPaused, monEvents, monIds, monError, monGone>>

-----------------------------------------------------------------------------
(* What is drawn.                                                          *)

RpcRow(i) == [call |-> monEvents[i].call, failed |-> monEvents[i].call \notin OkCalls,
              selected |-> monSheet # NoEvent /\ monEvents[i].id = monSheet.id]

EventDetails == [call |-> monSheet.call, error |-> monSheet.call \notin OkCalls]

-----------------------------------------------------------------------------
MonitorNext ==
  \/ \E p \in Producer : (Push(p) \/ Deliveries(p)) /\ UNCHANGED monPage
  \/ \E s \in 1..monOpened : \/ (Subscribe(s) \/ ReplayOne(s) \/ ReplayDone(s)) /\ UNCHANGED monPage
                             \/ ServeCall(s) \/ StreamEnds(s)
  \/ \E f \in MonitorFilters : ChangeFilter(f)
  \/ TakeCall \/ TogglePause \/ ClearTable
  \/ \E i \in DOMAIN monEvents : SelectRow(i)
  \/ CloseSheet

MonitorSpec == MonitorInit /\ [][MonitorNext]_monitorVars

-----------------------------------------------------------------------------
(* The sets the variables stay in, the recorder's included.                *)
MonitorTypeOK ==
  /\ RecTypeOK
  /\ monSub \in Sub \cup {0} /\ monOpened \in Sub
  /\ monFilter \in MonitorFilters \cup {""}
  /\ monWire \in Seq(1..MaxCalls)
  /\ monPaused \in BOOLEAN /\ monIds \in Nat
  /\ monEvents \in Seq([id : 0..monIds, call : 1..MaxCalls])
  /\ monSheet \in [id : Nat, call : 0..MaxCalls]
  /\ monError \in {"none", "error", "crashed"}
  /\ monGone \subseteq 1..MaxCalls

(* The table shows what the filters above it ask for, each call once under *)
(* a key of its own, and nothing of a subscription given up, although that *)
(* one may still be served; and the sheet is that of the row marked.       *)
TableFollowsFilter ==
  MonitorUp =>
    /\ \A e \in Range(monEvents) : RpcFilter(monFilter, e.call)
    /\ \A i, k \in DOMAIN monEvents : i < k =>
         monEvents[i].id > monEvents[k].id /\ monEvents[i].call # monEvents[k].call
    /\ \A i \in DOMAIN monEvents : LET row == RpcRow(i) IN
         row.selected => EventDetails = [call |-> row.call, error |-> row.failed]

(* Every call the filters ask for, from the first replayed one on, is in   *)
(* the table or on its way there, unless the daemon dropped it for a slow  *)
(* reader, the user paused or cleared, or newer rows pushed it out.        *)
MonitorMissesNothing ==
  monSub # 0 =>
    \A c \in recFirst[monSub]..recCalls :
      (recPlace[monSub] \in {"replay", "read"} /\ RpcFilter(monFilter, c)) =>
        \/ c \in CallsOf(monEvents) \cup Range(monWire) \cup monGone
        \/ c \in Range(recQueue[monSub]) \cup Range(recReplay[monSub]) \cup ComingTo(monSub)
        \/ c \in recDropped[monSub] \cup recPanicked

(* Both: the table shows what is asked for, and all of it.                 *)
MonitorShowsIt == TableFollowsFilter /\ MonitorMissesNothing
=============================================================================
