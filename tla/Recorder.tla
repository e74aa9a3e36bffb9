------------------------------- MODULE Recorder -------------------------------
(***************************************************************************)
(* The RPC observer: a bounded ring of recent calls that request           *)
(* goroutines push into, and the channels through which StreamRPCCalls     *)
(* handlers tail it.  Push and Subscribe update the ring and the registry  *)
(* under the mutex and send on the channels after they have released it,   *)
(* one send at a time and without blocking.                                *)
(*                                                                         *)
(* Calls are numbered in the order in which Push takes the mutex.          *)
(*                                                                         *)
(* Sources: internal/observability/recorder.go, middleware.go;             *)
(* internal/runtime_handler.go (StreamRPCCalls).                           *)
(***************************************************************************)
EXTENDS Naturals, Sequences, SequencesExt, FiniteSets

CONSTANTS
  Producer,    (* request goroutines                                       *)
  Sub,         (* subscriptions                                            *)
  Cap,         (* Recorder.cap                                             *)
  ChanSize,    (* subscriberChanSize                                       *)
  Replays,     (* the values of replayRecent                               *)
  MaxCalls     (* bound: how many calls are recorded                       *)

ASSUME RecorderAssumption ==
  /\ Cap \in Nat \ {0}
  /\ ChanSize \in Nat \ {0}
  /\ Replays \subseteq Nat
  /\ MaxCalls \in Nat

VARIABLES
  recBuf,      (* the ring                                                 *)
  recRegistered, (* keys of Recorder.subscribers                           *)
  recQueue,    (* what each subscription's channel holds                   *)
  recClosed,   (* subscriptions whose channel is closed                    *)
  recPushing,  (* each producer's call, and the snapshot still to serve    *)
  recPlace,    (* where each subscription's handler is                     *)
  recReplay,   (* Subscribe's copy of the ring, as far as it is not sent   *)
  (* history *)
  recCalls,    (* how many calls were pushed                               *)
  recGot,      (* what each handler received                               *)
  recFirst,    (* the first call each subscription is meant to see         *)
  recDropped,  (* calls dropped because the channel was full               *)
  recPanicked  (* calls whose Push panicked                                *)

recRing == <<recBuf, recRegistered>>
recSubs == <<recPlace, recReplay, recGot, recFirst>>
recVars == <<recBuf, recRegistered, recQueue, recClosed, recPushing, recPlace, recReplay, recCalls,
          recGot, recFirst, recDropped, recPanicked>>

NotPushing == [call |-> 0, to |-> {}]

RecInit ==
  /\ recBuf = <<>>
  /\ recRegistered = {}
  /\ recQueue = [s \in Sub |-> <<>>]
  /\ recClosed = {}
  /\ recPushing = [p \in Producer |-> NotPushing]
  /\ recPlace = [s \in Sub |-> "new"]
  /\ recReplay = [s \in Sub |-> <<>>]
  /\ recCalls = 0
  /\ recGot = [s \in Sub |-> <<>>]
  /\ recFirst = [s \in Sub |-> 0]
  /\ recDropped = [s \in Sub |-> {}]
  /\ recPanicked = {}

(* Mutant: a full ring is overwritten at its end without the shift.        *)
InsertCallUnshifted(c) ==
  IF Len(recBuf) >= Cap THEN [recBuf EXCEPT ![Cap] = c] ELSE Append(recBuf, c)

(* append, or shift one out and overwrite the last.                        *)
InsertCall(c) == Append(IF Len(recBuf) >= Cap THEN Tail(recBuf) ELSE recBuf, c)

(* buf[start:], start = max(0, len(buf) - n).                              *)
Recent(n) == IF Len(recBuf) <= n THEN recBuf ELSE SubSeq(recBuf, Len(recBuf) - n + 1, Len(recBuf))

(* Mutant: the channel is unbounded.                                       *)
TrySendUnbounded(s, c) ==
  recQueue' = [recQueue EXCEPT ![s] = Append(@, c)] /\ UNCHANGED recDropped

(* select { case ch <- c: default: }                                       *)
TrySend(s, c) ==
  IF Len(recQueue[s]) < ChanSize
    THEN recQueue' = [recQueue EXCEPT ![s] = Append(@, c)] /\ UNCHANGED recDropped
    ELSE recDropped' = [recDropped EXCEPT ![s] = @ \cup {c}] /\ UNCHANGED recQueue

-----------------------------------------------------------------------------
(* The middleware, around one request after another.                       *)

(* The handler returned; Push's critical section.                          *)
Push(p) ==
  /\ recPushing[p] = NotPushing
  /\ recCalls < MaxCalls
  /\ recCalls' = recCalls + 1
  /\ recBuf' = InsertCall(recCalls + 1)
  /\ recPushing' = [recPushing EXCEPT ![p] = [call |-> recCalls + 1, to |-> recRegistered]]
  /\ UNCHANGED <<recRegistered, recQueue, recClosed, recSubs, recDropped, recPanicked>>

(* One iteration of Push's loop over the snapshot.                         *)
Deliver(p, s) ==
  /\ s \in recPushing[p].to
  /\ s \notin recClosed
  /\ TrySend(s, recPushing[p].call)
  /\ recPushing' = [recPushing EXCEPT ![p] = IF @.to = {s} THEN NotPushing
                                       ELSE [call |-> @.call, to |-> @.to \ {s}]]
  /\ UNCHANGED <<recRing, recClosed, recSubs, recCalls, recPanicked>>

(* A send on a closed channel panics, in a select with a default too; the  *)
(* rest of the snapshot is not served.                                     *)
SendOnClosed(p, s) ==
  /\ s \in recPushing[p].to
  /\ s \in recClosed
  /\ recPanicked' = recPanicked \cup {recPushing[p].call}
  /\ recPushing' = [recPushing EXCEPT ![p] = NotPushing]
  /\ UNCHANGED <<recRing, recQueue, recClosed, recSubs, recCalls, recDropped>>

(* Push with an empty snapshot is over at once.                            *)
PushDone(p) ==
  /\ recPushing[p].call # 0
  /\ recPushing[p].to = {}
  /\ recPushing' = [recPushing EXCEPT ![p] = NotPushing]
  /\ UNCHANGED <<recRing, recQueue, recClosed, recSubs, recCalls, recDropped, recPanicked>>

-----------------------------------------------------------------------------
(* StreamRPCCalls.                                                         *)

(* Subscribe's critical section: register, and copy the tail of the ring.  *)
Subscribe(s) ==
  /\ recPlace[s] = "new"
  /\ recRegistered' = recRegistered \cup {s}
  /\ \E n \in Replays :
       /\ recReplay' = [recReplay EXCEPT ![s] = Recent(n)]
       /\ recFirst' = [recFirst EXCEPT ![s] = recCalls - Len(Recent(n)) + 1]
  /\ recPlace' = [recPlace EXCEPT ![s] = "replay"]
  /\ UNCHANGED <<recBuf, recQueue, recClosed, recPushing, recCalls, recGot, recDropped, recPanicked>>

(* Mutant: the replay reads the ring itself, not a copy.                   *)
ReplayFromRing(s) ==
  /\ recPlace[s] = "replay"
  /\ recReplay[s] # <<>>
  /\ TrySend(s, Head(Recent(Len(recReplay[s]))))
  /\ recReplay' = [recReplay EXCEPT ![s] = Tail(@)]
  /\ UNCHANGED <<recRing, recClosed, recPushing, recPlace, recGot, recFirst, recCalls, recPanicked>>

ReplayOne(s) ==
  /\ recPlace[s] = "replay"
  /\ recReplay[s] # <<>>
  /\ TrySend(s, Head(recReplay[s]))
  /\ recReplay' = [recReplay EXCEPT ![s] = Tail(@)]
  /\ UNCHANGED <<recRing, recClosed, recPushing, recPlace, recGot, recFirst, recCalls, recPanicked>>

(* Subscribe returns and the handler's loop starts.                        *)
ReplayDone(s) ==
  /\ recPlace[s] = "replay"
  /\ recReplay[s] = <<>>
  /\ recPlace' = [recPlace EXCEPT ![s] = "read"]
  /\ UNCHANGED <<recRing, recQueue, recClosed, recPushing, recReplay, recCalls, recGot, recFirst, recDropped, recPanicked>>

Receive(s) ==
  /\ recPlace[s] = "read"
  /\ recQueue[s] # <<>>
  /\ recGot' = [recGot EXCEPT ![s] = Append(@, Head(recQueue[s]))]
  /\ recQueue' = [recQueue EXCEPT ![s] = Tail(@)]
  /\ UNCHANGED <<recRing, recClosed, recPushing, recPlace, recReplay, recCalls, recFirst,
                 recDropped, recPanicked>>

(* The client goes away: the deferred cancel deletes and closes.           *)
Leave(s) ==
  /\ recPlace[s] = "read"
  /\ recPlace' = [recPlace EXCEPT ![s] = "left"]
  /\ recRegistered' = recRegistered \ {s}
  /\ recClosed' = recClosed \cup {s}
  /\ UNCHANGED <<recBuf, recQueue, recPushing, recReplay, recCalls, recGot, recFirst,
                 recDropped, recPanicked>>

-----------------------------------------------------------------------------
Deliveries(p) == PushDone(p) \/ \E s \in Sub : Deliver(p, s) \/ SendOnClosed(p, s)

-----------------------------------------------------------------------------
(* The sets every variable stays in; a channel never holds more than its   *)
(* capacity, and only open ones are registered.                            *)
RecTypeOK ==
  /\ recBuf \in Seq(1..MaxCalls)
  /\ recRegistered \subseteq {s \in Sub : recPlace[s] \in {"replay", "read"}}
  /\ recQueue \in [Sub -> BoundedSeq(1..MaxCalls, ChanSize)]
  /\ recClosed \subseteq {s \in Sub : recPlace[s] = "left"}
  /\ recPushing \in [Producer -> [call : 0..MaxCalls, to : SUBSET Sub]]
  /\ recPlace \in [Sub -> {"new", "replay", "read", "left"}]
  /\ recReplay \in [Sub -> BoundedSeq(1..MaxCalls, Cap)]
  /\ recCalls \in 0..MaxCalls
  /\ recGot \in [Sub -> Seq(1..MaxCalls)]
  /\ recDropped \in [Sub -> SUBSET (1..MaxCalls)]
  /\ recPanicked \subseteq 1..MaxCalls

(* The ring holds the most recent calls, oldest first, whatever producers  *)
(* do: a replay never shows a stale or repeated call.                      *)
RingIsRecent ==
  /\ Len(recBuf) = IF recCalls < Cap THEN recCalls ELSE Cap
  /\ \A i \in DOMAIN recBuf : recBuf[i] = recCalls - Len(recBuf) + i

(* What a subscription has received, or will find in its channel or in its *)
(* replay.                                                                 *)
StreamOf(s) == recGot[s] \o recQueue[s] \o recReplay[s]

(* Pushes on their way to a subscription.                                  *)
ComingTo(s) == {recPushing[p].call : p \in {q \in Producer : s \in recPushing[q].to}}

(* A call reaches a subscription at most once: it is never both in the     *)
(* replay and live, because Subscribe registers and copies in one critical *)
(* section.                                                                *)
AtMostOnce ==
  \A s \in Sub :
    /\ IsInjective(StreamOf(s))
    /\ ComingTo(s) \cap Range(StreamOf(s)) = {}

(* No gap between replay and live calls: each call from the first replayed *)
(* one on has reached the subscription, is on its way, was dropped because *)
(* its channel was full, or was lost when its Push panicked.               *)
NoGap ==
  \A s \in Sub : recPlace[s] \in {"replay", "read"} =>
    recFirst[s]..recCalls \subseteq
      Range(StreamOf(s)) \cup ComingTo(s) \cup recDropped[s] \cup recPanicked

(* The three: each subscription is an exact copy of the calls, from its    *)
(* first one on, but for those dropped.                                    *)
RecorderExact == RingIsRecent /\ AtMostOnce /\ NoGap

-----------------------------------------------------------------------------
(* Statements of the repository that the code does not keep.               *)

(* recorder.go: "Recorder is safe for concurrent access from the HTTP      *)
(* request goroutines (producer) and from any number of subscriber         *)
(* goroutines": no Push panics because a subscriber leaves meanwhile.      *)
NoPanic == recPanicked = {}
=============================================================================
