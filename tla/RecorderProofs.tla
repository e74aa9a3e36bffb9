---------------------------- MODULE RecorderProofs ----------------------------
(***************************************************************************)
(* Proofs about the RPC observer and the page that tails it, for any       *)
(* number of request goroutines and of subscriptions, any capacity of the  *)
(* ring, of the channels and of the table, and any number of calls.        *)
(*                                                                         *)
(* A call that a subscription is meant to see is in exactly one of four    *)
(* places: received, in the channel, in the replay, or with the goroutine  *)
(* that has yet to send it; or it was dropped, or lost with its goroutine. *)
(* A call the page's subscription has received is on its way to the page,  *)
(* in the table, or has been let go.                                       *)
(***************************************************************************)
EXTENDS RpcMonitor, SequenceTheorems, TLAPS

-----------------------------------------------------------------------------
(* Sequences without repetition.                                           *)

LEMMA EmptyOnce == <<>> \in Seq(Nat) /\ Range(<<>>) = {} /\ IsInjective(<<>>)
BY EmptySeq DEF Range, IsInjective

LEMMA AppendOnce ==
  ASSUME NEW s \in Seq(Nat), NEW c \in Nat
  PROVE  /\ Append(s, c) \in Seq(Nat)
         /\ Range(Append(s, c)) = Range(s) \cup {c}
         /\ IsInjective(s) /\ c \notin Range(s) => IsInjective(Append(s, c))
<1>. DEFINE t == Append(s, c)
<1>1. /\ t \in Seq(Nat) /\ Len(t) = Len(s) + 1 /\ \A i \in 1..Len(s) : t[i] = s[i]
      /\ t[Len(s) + 1] = c
  BY AppendProperties
<1>2. /\ DOMAIN s = 1..Len(s) /\ Len(s) \in Nat /\ DOMAIN t = 1..Len(s) + 1
  BY <1>1, LenProperties
<1>. HIDE DEF t
<1>3. Range(t) = Range(s) \cup {c}
  <2>1. \A x : x \in Range(s) => x \in Range(t)
    BY <1>1, <1>2 DEF Range
  <2>2. c \in Range(t)
    BY <1>1, <1>2 DEF Range
  <2>3. \A x : x \in Range(t) => x \in Range(s) \cup {c}
    BY <1>1, <1>2 DEF Range
  <2>. QED
    BY <2>1, <2>2, <2>3
<1>4. ASSUME IsInjective(s), c \notin Range(s) PROVE IsInjective(t)
  <2>1. \A i \in 1..Len(s) : s[i] # c
    BY <1>2, <1>4 DEF Range
  <2>2. \A i, k \in 1..Len(s) : t[i] = t[k] => i = k
    BY <1>1, <1>2, <1>4 DEF IsInjective
  <2>3. \A i \in DOMAIN t : i \in 1..Len(s) \/ i = Len(s) + 1
    BY <1>2
  <2>4. \A i \in 1..Len(s) : t[i] # t[Len(s) + 1]
    BY <1>1, <2>1
  <2>. QED
    BY <2>2, <2>3, <2>4 DEF IsInjective
<1>. QED
  BY <1>1, <1>3, <1>4 DEF t

LEMMA TailOnce ==
  ASSUME NEW s \in Seq(Nat), s # <<>>
  PROVE  /\ Tail(s) \in Seq(Nat) /\ Head(s) \in Nat /\ Head(s) \in Range(s)
         /\ Range(s) = Range(Tail(s)) \cup {Head(s)}
         /\ IsInjective(s) => IsInjective(Tail(s)) /\ Head(s) \notin Range(Tail(s))
<1>. DEFINE t == Tail(s)
<1>1. /\ t \in Seq(Nat) /\ Head(s) \in Nat /\ Len(t) = Len(s) - 1
      /\ \A i \in 1..Len(t) : t[i] = s[i + 1]
  BY HeadTailProperties
<1>2. /\ DOMAIN s = 1..Len(s) /\ Len(s) \in Nat /\ DOMAIN t = 1..Len(t) /\ Len(s) # 0
  BY <1>1, LenProperties, EmptySeq
<1>3. Head(s) = s[1]
  OBVIOUS
<1>. HIDE DEF t
<1>4. Head(s) \in Range(s)
  BY <1>2, <1>3 DEF Range
<1>5. \A x : x \in Range(t) => x \in Range(s)
  <2>1. \A i \in DOMAIN t : i + 1 \in DOMAIN s /\ t[i] = s[i + 1]
    BY <1>1, <1>2
  <2>. QED
    BY <2>1 DEF Range
<1>6. \A x : x \in Range(s) => x \in Range(t) \cup {Head(s)}
  <2>1. ASSUME NEW i \in DOMAIN s, i # 1 PROVE i - 1 \in DOMAIN t /\ t[i - 1] = s[i]
    <3>1. i - 1 \in 1..Len(t) /\ (i - 1) + 1 = i
      BY <1>1, <1>2, <2>1
    <3>2. t[i - 1] = s[(i - 1) + 1]
      BY <1>1, <3>1
    <3>. QED
      BY <1>2, <3>1, <3>2
  <2>. QED
    BY <1>3, <2>1 DEF Range
<1>7. ASSUME IsInjective(s) PROVE IsInjective(t) /\ Head(s) \notin Range(t)
  <2>1. \A i \in DOMAIN t : i + 1 \in DOMAIN s /\ t[i] = s[i + 1] /\ i + 1 # 1
    BY <1>1, <1>2
  <2>2. IsInjective(t)
    BY <1>2, <1>7, <2>1 DEF IsInjective
  <2>3. Head(s) \notin Range(t)
    BY <1>2, <1>3, <1>7, <2>1 DEF IsInjective, Range
  <2>. QED
    BY <2>2, <2>3
<1>. QED
  BY <1>1, <1>4, <1>5, <1>6, <1>7 DEF t

LEMMA JoinOnce ==
  ASSUME NEW s \in Seq(Nat), NEW t \in Seq(Nat),
         IsInjective(s), IsInjective(t), Range(s) \cap Range(t) = {}
  PROVE  s \o t \in Seq(Nat) /\ IsInjective(s \o t) /\ Range(s \o t) = Range(s) \cup Range(t)
<1>. DEFINE u == s \o t
<1>1. /\ u \in Seq(Nat) /\ Len(u) = Len(s) + Len(t)
      /\ \A i \in 1..Len(s) + Len(t) : u[i] = IF i <= Len(s) THEN s[i] ELSE t[i - Len(s)]
  BY ConcatProperties
<1>2. /\ DOMAIN s = 1..Len(s) /\ DOMAIN t = 1..Len(t) /\ DOMAIN u = 1..Len(s) + Len(t)
      /\ Len(s) \in Nat /\ Len(t) \in Nat
  BY <1>1, LenProperties
<1>3. \A i \in DOMAIN s, k \in DOMAIN t : s[i] # t[k]
  BY DEF Range
<1>. HIDE DEF u
<1>4. \A i \in DOMAIN u : \/ i \in DOMAIN s /\ u[i] = s[i]
                          \/ i - Len(s) \in DOMAIN t /\ u[i] = t[i - Len(s)]
  BY <1>1, <1>2
<1>5. ASSUME NEW i \in DOMAIN u, NEW k \in DOMAIN u, u[i] = u[k] PROVE i = k
  <2>1. CASE i \in DOMAIN s /\ u[i] = s[i] /\ k \in DOMAIN s /\ u[k] = s[k]
    BY <1>5, <2>1 DEF IsInjective
  <2>2. CASE /\ i - Len(s) \in DOMAIN t /\ u[i] = t[i - Len(s)]
             /\ k - Len(s) \in DOMAIN t /\ u[k] = t[k - Len(s)]
    <3>1. i - Len(s) = k - Len(s)
      BY <1>5, <2>2 DEF IsInjective
    <3>. QED
      BY <1>2, <3>1
  <2>. QED
    BY <1>3, <1>4, <1>5, <2>1, <2>2
<1>6. IsInjective(u)
  BY <1>5 DEF IsInjective
<1>. QED
  BY <1>1, <1>6, RangeConcatenation DEF u

-----------------------------------------------------------------------------
(* The invariant.                                                          *)

RecTypes ==
  /\ recCalls \in Nat
  /\ recBuf \in Seq(Nat)
  /\ recPushing \in [Producer -> [call : Nat, to : SUBSET Sub]]
  /\ recQueue \in [Sub -> Seq(Nat)]
  /\ recReplay \in [Sub -> Seq(Nat)]
  /\ recGot \in [Sub -> Seq(Nat)]
  /\ recPlace \in [Sub -> {"new", "replay", "read", "left"}]
  /\ recRegistered \subseteq Sub
  /\ DOMAIN recFirst = Sub
  /\ recDropped \in [Sub -> SUBSET Nat]

(* No two goroutines have the same call.                                   *)
Flight ==
  /\ \A p \in Producer : /\ recPushing[p].call <= recCalls
                         /\ recPushing[p].call = 0 => recPushing[p].to = {}
  /\ \A p, q \in Producer :
       recPushing[p].call = recPushing[q].call /\ recPushing[p].call # 0 => p = q

(* Nobody sends to a subscription before it is one.                        *)
Places ==
  \A s \in Sub :
    /\ s \in recRegistered <=> recPlace[s] \in {"replay", "read"}
    /\ recPlace[s] = "new" =>
         /\ recGot[s] = <<>> /\ recQueue[s] = <<>> /\ recReplay[s] = <<>>
         /\ \A p \in Producer : s \notin recPushing[p].to

Arrived(s) == Range(recGot[s]) \cup Range(recQueue[s]) \cup Range(recReplay[s])

Once(s) ==
  /\ IsInjective(recGot[s]) /\ IsInjective(recQueue[s]) /\ IsInjective(recReplay[s])
  /\ Range(recGot[s]) \cap Range(recQueue[s]) = {}
  /\ Range(recGot[s]) \cap Range(recReplay[s]) = {}
  /\ Range(recQueue[s]) \cap Range(recReplay[s]) = {}

Known(s) == Arrived(s) \subseteq 1..recCalls

Apart(s) == ComingTo(s) \cap Arrived(s) = {}

Accounted(s) ==
  recPlace[s] \in {"replay", "read"} =>
    recFirst[s]..recCalls \subseteq Arrived(s) \cup ComingTo(s) \cup recDropped[s] \cup recPanicked

Stream(s) == Once(s) /\ Known(s) /\ Apart(s) /\ Accounted(s)

RecInv == RecTypes /\ Flight /\ Places /\ RingIsRecent /\ \A s \in Sub : Stream(s)

LEMMA Coming ==
  ASSUME NEW s
  PROVE  /\ \A c : c \in ComingTo(s) <=>
                     \E p \in Producer : s \in recPushing[p].to /\ c = recPushing[p].call
         /\ \A c : c \in ComingTo(s)' <=>
                     \E p \in Producer : s \in recPushing'[p].to /\ c = recPushing'[p].call
BY DEF ComingTo

LEMMA RecInvInit == RecInit => RecInv
<1> SUFFICES ASSUME RecInit PROVE RecInv
  OBVIOUS
<1>. USE EmptyOnce
<1>1. RecTypes
  BY DEF RecInit, RecTypes, NotPushing
<1>2. Flight /\ Places
  BY DEF RecInit, Flight, Places, NotPushing
<1>3. RingIsRecent
  BY EmptySeq, RecorderAssumption DEF RecInit, RingIsRecent, RecorderAssumption
<1>4. ASSUME NEW s \in Sub PROVE Stream(s)
  <2>1. recGot[s] = <<>> /\ recQueue[s] = <<>> /\ recReplay[s] = <<>> /\ recPlace[s] = "new"
    BY DEF RecInit
  <2>2. Arrived(s) = {}
    BY <2>1 DEF Arrived
  <2>. QED
    BY <2>1, <2>2 DEF Stream, Once, Known, Apart, Accounted
<1>. QED
  BY <1>1, <1>2, <1>3, <1>4 DEF RecInv

(* What keeps a subscription's account: nothing arrives, and what was on   *)
(* its way still is, or is lost with its goroutine.                        *)
Quiet(s) ==
  /\ recGot'[s] = recGot[s] /\ recQueue'[s] = recQueue[s] /\ recReplay'[s] = recReplay[s]
  /\ recFirst'[s] = recFirst[s] /\ recDropped'[s] = recDropped[s]
  /\ recPlace'[s] \in {"replay", "read"} => recPlace[s] \in {"replay", "read"}
  /\ recCalls' = recCalls
  /\ recPanicked \subseteq recPanicked'
  /\ ComingTo(s)' \subseteq ComingTo(s) /\ ComingTo(s) \subseteq ComingTo(s)' \cup recPanicked'

LEMMA QuietStream ==
  ASSUME NEW s \in Sub, Stream(s), Quiet(s)
  PROVE  Stream(s)'
<1>1. Arrived(s)' = Arrived(s)
  BY DEF Quiet, Arrived
<1>2. Once(s)' /\ Known(s)'
  BY <1>1 DEF Quiet, Stream, Once, Known
<1>3. Apart(s)'
  BY <1>1 DEF Quiet, Stream, Apart
<1>4. Accounted(s)'
  BY <1>1 DEF Quiet, Stream, Accounted
<1>. QED
  BY <1>2, <1>3, <1>4 DEF Stream

(* As long as the goroutines keep their calls, so do the subscriptions.    *)
LEMMA SameComing ==
  ASSUME recPushing' = recPushing, NEW s PROVE ComingTo(s)' = ComingTo(s)
BY DEF ComingTo

-----------------------------------------------------------------------------
(* The goroutines.                                                         *)

LEMMA RingStep ==
  ASSUME RecTypes, RingIsRecent, NEW ring, ring = InsertCall(recCalls + 1)
  PROVE  /\ ring \in Seq(Nat)
         /\ Len(ring) = IF recCalls + 1 < Cap THEN recCalls + 1 ELSE Cap
         /\ \A i \in DOMAIN ring : ring[i] = recCalls + 1 - Len(ring) + i
<1>. USE RecorderAssumption DEF RecorderAssumption
<1>. DEFINE kept == IF Len(recBuf) >= Cap THEN Tail(recBuf) ELSE recBuf
<1>1. recCalls \in Nat /\ recBuf \in Seq(Nat) /\ Len(recBuf) \in Nat /\ DOMAIN recBuf = 1..Len(recBuf)
  BY LenProperties DEF RecTypes
<1>2. /\ kept \in Seq(Nat)
      /\ Len(kept) = IF recCalls + 1 < Cap THEN recCalls ELSE Cap - 1
      /\ \A i \in 1..Len(kept) : kept[i] = recCalls - Len(kept) + i
  <2>1. CASE Len(recBuf) >= Cap
    <3>1. recBuf # <<>>
      BY <1>1, <2>1, EmptySeq
    <3>2. /\ Tail(recBuf) \in Seq(Nat) /\ Len(Tail(recBuf)) = Len(recBuf) - 1
          /\ \A i \in 1..Len(Tail(recBuf)) : Tail(recBuf)[i] = recBuf[i + 1]
      BY <1>1, <3>1, HeadTailProperties
    <3>3. Len(recBuf) = Cap /\ recCalls >= Cap
      BY <1>1, <2>1 DEF RingIsRecent
    <3>4. \A i \in 1..Len(Tail(recBuf)) : i + 1 \in DOMAIN recBuf
      BY <1>1, <3>2
    <3>5. \A i \in 1..Len(Tail(recBuf)) : Tail(recBuf)[i] = recCalls - Len(recBuf) + (i + 1)
      BY <3>2, <3>4 DEF RingIsRecent
    <3>6. \A i \in 1..Len(Tail(recBuf)) : Tail(recBuf)[i] = recCalls - Len(Tail(recBuf)) + i
      BY <1>1, <3>2, <3>3, <3>5
    <3>7. Len(Tail(recBuf)) = (IF recCalls + 1 < Cap THEN recCalls ELSE Cap - 1)
      BY <1>1, <3>2, <3>3
    <3>8. kept = Tail(recBuf)
      BY <2>1
    <3>. HIDE DEF kept
    <3>. QED
      BY <3>2, <3>6, <3>7, <3>8
  <2>2. CASE ~(Len(recBuf) >= Cap)
    <3>1. kept = recBuf
      BY <2>2
    <3>. HIDE DEF kept
    <3>2. Len(recBuf) = recCalls /\ recCalls < Cap
      BY <1>1, <2>2 DEF RingIsRecent
    <3>3. Len(recBuf) = (IF recCalls + 1 < Cap THEN recCalls ELSE Cap - 1)
      BY <1>1, <3>2
    <3>4. \A i \in 1..Len(recBuf) : recBuf[i] = recCalls - Len(recBuf) + i
      BY <1>1 DEF RingIsRecent
    <3>. QED
      BY <1>1, <3>1, <3>3, <3>4
  <2>. QED
    BY <2>1, <2>2
<1>. HIDE DEF kept
<1>5. ring = Append(kept, recCalls + 1)
  BY DEF InsertCall, kept
<1>8. recCalls + 1 \in Nat
  BY <1>1
<1>9. /\ Append(kept, recCalls + 1) \in Seq(Nat)
      /\ Len(Append(kept, recCalls + 1)) = Len(kept) + 1
      /\ \A i \in 1..Len(kept) : Append(kept, recCalls + 1)[i] = kept[i]
      /\ Append(kept, recCalls + 1)[Len(kept) + 1] = recCalls + 1
  BY <1>2, <1>8, AppendProperties
<1>3. /\ ring \in Seq(Nat) /\ Len(ring) = Len(kept) + 1 /\ ring[Len(kept) + 1] = recCalls + 1
      /\ \A i \in 1..Len(kept) : ring[i] = kept[i]
  BY <1>5, <1>9
<1>4. DOMAIN ring = 1..Len(kept) + 1 /\ Len(kept) \in Nat
  BY <1>2, <1>3, LenProperties
<1>6. \A i \in DOMAIN ring : ring[i] = recCalls + 1 - Len(ring) + i
  <2>1. ASSUME NEW i \in 1..Len(kept) PROVE ring[i] = recCalls + 1 - Len(ring) + i
    <3>1. ring[i] = recCalls - Len(kept) + i
      BY <1>2, <1>3
    <3>2. Len(ring) = Len(kept) + 1
      BY <1>3
    <3>. QED
      BY <1>1, <1>4, <3>1, <3>2
  <2>2. ring[Len(kept) + 1] = recCalls + 1 - Len(ring) + (Len(kept) + 1)
    BY <1>1, <1>3, <1>4
  <2>. QED
    BY <1>4, <2>1, <2>2
<1>7. Len(ring) = IF recCalls + 1 < Cap THEN recCalls + 1 ELSE Cap
  BY <1>1, <1>2, <1>3
<1>. QED
  BY <1>3, <1>6, <1>7

LEMMA PushStep ==
  ASSUME RecInv, NEW p \in Producer, Push(p)
  PROVE  RecInv'
<1>. USE DEF RecInv
<1>. DEFINE c == recCalls + 1
<1>1. /\ recPushing[p] = NotPushing /\ recCalls' = c /\ recBuf' = InsertCall(c)
      /\ recPushing' = [recPushing EXCEPT ![p] = [call |-> c, to |-> recRegistered]]
      /\ UNCHANGED <<recRegistered, recQueue, recPlace, recReplay, recGot, recFirst, recDropped,
                     recPanicked>>
  BY DEF Push, recSubs
<1>2. recPushing[p].to = {} /\ recCalls \in Nat /\ c \in Nat /\ c > recCalls
  BY <1>1 DEF NotPushing, RecTypes
<1>3. RecTypes'
  <2>1. recBuf' \in Seq(Nat)
    BY <1>1, RingStep
  <2>2. recPushing' \in [Producer -> [call : Nat, to : SUBSET Sub]]
    BY <1>1, <1>2 DEF RecTypes
  <2>. QED
    BY <1>1, <1>2, <2>1, <2>2 DEF RecTypes
<1>4. \A q \in Producer : recPushing'[q] = IF q = p THEN [call |-> c, to |-> recRegistered]
                                                    ELSE recPushing[q]
  BY <1>1 DEF RecTypes
<1>5. Flight'
  <2>1. \A q \in Producer : recPushing[q].call \in Nat /\ recPushing[q].call <= recCalls
    BY DEF RecTypes, Flight
  <2>2. \A q \in Producer : recPushing'[q].call <= c /\ (recPushing'[q].call = 0 => recPushing'[q].to = {})
    BY <1>2, <1>4, <2>1 DEF Flight
  <2>3. \A q, r \in Producer :
          recPushing'[q].call = recPushing'[r].call /\ recPushing'[q].call # 0 => q = r
    BY <1>2, <1>4, <2>1 DEF Flight
  <2>. QED
    BY <1>1, <2>2, <2>3 DEF Flight
<1>6. Places'
  BY <1>1, <1>4 DEF Places
<1>7. RingIsRecent'
  <2>2. recBuf' = InsertCall(recCalls + 1) /\ RecTypes /\ RingIsRecent
    BY <1>1
  <2>1. /\ Len(recBuf') = IF recCalls + 1 < Cap THEN recCalls + 1 ELSE Cap
        /\ \A i \in DOMAIN recBuf' : recBuf'[i] = recCalls + 1 - Len(recBuf') + i
    BY ONLY <2>2, RingStep
  <2>3. recCalls' = recCalls + 1 /\ recCalls \in Nat
    BY <1>1, <1>2
  <2>4. Len(recBuf') = IF recCalls' < Cap THEN recCalls' ELSE Cap
    BY ONLY <2>1, <2>3
  <2>5. \A i \in DOMAIN recBuf' : recBuf'[i] = recCalls' - Len(recBuf') + i
    BY ONLY <2>1, <2>3
  <2>. QED
    BY ONLY <2>4, <2>5 DEF RingIsRecent
<1>8. ASSUME NEW s \in Sub PROVE Stream(s)'
  <2>1. \A x : x \in ComingTo(s)' <=> (x \in ComingTo(s) \/ (x = c /\ s \in recRegistered))
    BY <1>2, <1>4, Coming
  <2>2. Arrived(s)' = Arrived(s) /\ Stream(s)
    BY <1>1 DEF Arrived
  <2>3. Once(s)' /\ Known(s)'
    <3>1. Known(s)'
      BY <1>1, <1>2, <2>2 DEF Stream, Known
    <3>. QED
      BY <1>1, <2>2, <3>1 DEF Stream, Once
  <2>4. Apart(s)'
    <3>1. c \notin Arrived(s)
      BY <1>2, <2>2 DEF Stream, Known
    <3>. QED
      BY <2>1, <2>2, <3>1 DEF Stream, Apart
  <2>5. Accounted(s)'
    <3> SUFFICES ASSUME recPlace[s] \in {"replay", "read"}, NEW x \in recFirst[s]..c
                 PROVE  x \in Arrived(s) \cup ComingTo(s)' \cup recDropped[s] \cup recPanicked
      BY <1>1, <2>2 DEF Accounted
    <3>1. CASE x = c
      BY <2>1, <3>1 DEF Places
    <3>2. CASE x # c
      <4>1. x \in recFirst[s]..recCalls
        BY <1>2, <3>2
      <4>. QED
        BY <2>1, <2>2, <4>1 DEF Stream, Accounted
    <3>. QED
      BY <3>1, <3>2
  <2>. QED
    BY <2>3, <2>4, <2>5 DEF Stream
<1>. QED
  BY <1>3, <1>5, <1>6, <1>7, <1>8

(* What the other steps of the goroutines have in common: a goroutine has  *)
(* fewer subscriptions left to serve, or is done.                          *)
Serving(p) ==
  /\ recPushing' \in [Producer -> [call : Nat, to : SUBSET Sub]]
  /\ \A q \in Producer : q # p => recPushing'[q] = recPushing[q]
  /\ recPushing'[p].to \subseteq recPushing[p].to
  /\ \/ recPushing'[p].call = recPushing[p].call
     \/ recPushing'[p].call = 0 /\ recPushing'[p].to = {}

LEMMA ServedFlight ==
  ASSUME RecTypes, Flight, Places, NEW p \in Producer, Serving(p),
         UNCHANGED <<recCalls, recRegistered, recPlace, recGot, recReplay>>,
         \A s \in Sub : recPlace[s] = "new" => recQueue'[s] = recQueue[s]
  PROVE  Flight' /\ Places'
<1>1. recCalls \in Nat /\ \A q \in Producer : recPushing[q].call \in Nat /\ recPushing'[q].call \in Nat
  BY DEF RecTypes, Serving
<1>2. Flight'
  <2>1. \A q \in Producer : /\ recPushing'[q].call <= recCalls
                            /\ recPushing'[q].call = 0 => recPushing'[q].to = {}
    BY <1>1 DEF Flight, Serving
  <2>2. \A q, r \in Producer :
          recPushing'[q].call = recPushing'[r].call /\ recPushing'[q].call # 0 => q = r
    BY <1>1 DEF Flight, Serving
  <2>. QED
    BY <2>1, <2>2 DEF Flight
<1>3. \A q \in Producer : recPushing'[q].to \subseteq recPushing[q].to
  BY DEF Serving
<1>4. Places'
  BY <1>3 DEF Places
<1>. QED
  BY <1>2, <1>4

LEMMA DeliverStep ==
  ASSUME RecInv, NEW p \in Producer, NEW t \in Sub, Deliver(p, t)
  PROVE  RecInv'
<1>. USE DEF RecInv
<1>. DEFINE c    == recPushing[p].call
            rest == recPushing[p].to \ {t}
            left == IF recPushing[p].to = {t} THEN NotPushing ELSE [call |-> c, to |-> rest]
<1>1. /\ t \in recPushing[p].to /\ TrySend(t, c)
      /\ recPushing' = [recPushing EXCEPT ![p] = left]
      /\ UNCHANGED <<recBuf, recRegistered, recPlace, recReplay, recGot, recFirst, recCalls,
                     recPanicked>>
  <2>1. recPushing' = [recPushing EXCEPT ![p] = left]
    BY ONLY Deliver(p, t) DEF Deliver, left, rest
  <2>. HIDE DEF left
  <2>. QED
    BY <2>1 DEF Deliver, recRing, recSubs
<1>2. recPushing[p] \in [call : Nat, to : SUBSET Sub] /\ c \in Nat /\ recCalls \in Nat
  BY DEF RecTypes
<1>13. /\ left \in [call : Nat, to : SUBSET Sub] /\ left.to = rest
       /\ left.call = IF recPushing[p].to = {t} THEN 0 ELSE c
  <2>1. CASE recPushing[p].to = {t}
    BY <2>1 DEF NotPushing
  <2>2. CASE recPushing[p].to # {t}
    <3>1. left = [call |-> c, to |-> rest]
      BY <2>2
    <3>. QED
      BY <1>2, <2>2, <3>1
  <2>. QED
    BY <2>1, <2>2
<1>. HIDE DEF left
<1>3. /\ recPushing'[p].to = recPushing[p].to \ {t}
      /\ recPushing'[p].call = IF recPushing[p].to = {t} THEN 0 ELSE c
      /\ recPushing'[p] \in [call : Nat, to : SUBSET Sub]
      /\ \A q \in Producer : q # p => recPushing'[q] = recPushing[q]
  <2>1. recPushing'[p] = left /\ \A q \in Producer : q # p => recPushing'[q] = recPushing[q]
    BY <1>1 DEF RecTypes
  <2>. QED
    BY <1>13, <2>1
<1>4. c \in 1..recCalls
  BY <1>1, <1>2 DEF Flight
<1>5. Serving(p)
  <2>1. recPushing' \in [Producer -> [call : Nat, to : SUBSET Sub]]
    <3>1. recPushing' \in [Producer -> {recPushing'[q] : q \in Producer}]
      BY <1>1 DEF RecTypes
    <3>2. \A q \in Producer : recPushing'[q] \in [call : Nat, to : SUBSET Sub]
      BY <1>3 DEF RecTypes
    <3>. QED
      BY <3>1, <3>2
  <2>. QED
    BY <1>3, <2>1 DEF Serving
<1>6. \/ recQueue' = [recQueue EXCEPT ![t] = Append(recQueue[t], c)] /\ recDropped' = recDropped
      \/ recDropped' = [recDropped EXCEPT ![t] = recDropped[t] \cup {c}] /\ recQueue' = recQueue
  BY <1>1 DEF TrySend
<1>7. /\ recQueue' \in [Sub -> Seq(Nat)] /\ recDropped' \in [Sub -> SUBSET Nat]
      /\ \A s \in Sub : s # t => recQueue'[s] = recQueue[s] /\ recDropped'[s] = recDropped[s]
      /\ \/ recQueue'[t] = Append(recQueue[t], c) /\ recDropped'[t] = recDropped[t]
         \/ recQueue'[t] = recQueue[t] /\ recDropped'[t] = recDropped[t] \cup {c}
  <2>1. /\ Append(recQueue[t], c) \in Seq(Nat) /\ recDropped[t] \cup {c} \in SUBSET Nat
        /\ recQueue \in [Sub -> Seq(Nat)] /\ recDropped \in [Sub -> SUBSET Nat]
    BY <1>2, AppendOnce DEF RecTypes
  <2>2. CASE recQueue' = [recQueue EXCEPT ![t] = Append(recQueue[t], c)] /\ recDropped' = recDropped
    BY ONLY <2>1, <2>2, t \in Sub
  <2>3. CASE /\ recDropped' = [recDropped EXCEPT ![t] = recDropped[t] \cup {c}]
             /\ recQueue' = recQueue
    BY ONLY <2>1, <2>3, t \in Sub
  <2>. QED
    BY <1>6, <2>2, <2>3
<1>8. RecTypes' /\ RingIsRecent'
  BY <1>1, <1>5, <1>7 DEF RecTypes, Serving, RingIsRecent
<1>9. Flight' /\ Places'
  <2>1. recPlace[t] # "new"
    BY <1>1 DEF Places
  <2>. QED
    BY <1>1, <1>5, <1>7, <2>1, ServedFlight
<1>10. \A s \in Sub : \A x : x \in ComingTo(s)' <=> (x \in ComingTo(s) /\ ~(s = t /\ x = c))
  <2> TAKE s \in Sub
  <2>1. \A q \in Producer : q # p => ~(t \in recPushing[q].to /\ recPushing[q].call = c)
    BY <1>4 DEF Flight
  <2>2. ASSUME NEW x PROVE x \in ComingTo(s)' => x \in ComingTo(s) /\ ~(s = t /\ x = c)
    BY <1>3, <2>1, Coming
  <2>3. ASSUME NEW x PROVE x \in ComingTo(s) /\ ~(s = t /\ x = c) => x \in ComingTo(s)'
    <3> SUFFICES ASSUME x \in ComingTo(s), ~(s = t /\ x = c) PROVE x \in ComingTo(s)'
      OBVIOUS
    <3>1. PICK q \in Producer : s \in recPushing[q].to /\ x = recPushing[q].call
      BY Coming
    <3>2. s \in recPushing'[q].to /\ x = recPushing'[q].call
      <4>1. CASE q # p
        BY <1>3, <3>1, <4>1
      <4>2. CASE q = p
        <5>1. s # t /\ s \in recPushing[p].to
          BY <3>1, <4>2
        <5>. QED
          BY <1>3, <3>1, <4>2, <5>1
      <4>. QED
        BY <4>1, <4>2
    <3>. QED
      BY <3>2, Coming
  <2>. QED
    BY <2>2, <2>3
<1>11. ASSUME NEW s \in Sub, s # t PROVE Stream(s)'
  <2>1. Quiet(s)
    BY <1>1, <1>7, <1>10, <1>11 DEF Quiet
  <2>. QED
    BY <1>11, <2>1, QuietStream
<1>12. Stream(t)'
  <2>1. Stream(t) /\ c \in ComingTo(t) /\ c \notin Arrived(t)
    <3>1. c \in ComingTo(t)
      BY <1>1, Coming
    <3>. QED
      BY <3>1 DEF Stream, Apart
  <2>2. CASE recQueue'[t] = recQueue[t] /\ recDropped'[t] = recDropped[t] \cup {c}
    <3>1. Arrived(t)' = Arrived(t)
      BY <1>1, <2>2 DEF Arrived
    <3>2. Once(t)' /\ Known(t)'
      BY <1>1, <2>1, <2>2, <3>1 DEF Stream, Once, Known
    <3>3. Apart(t)'
      BY <1>10, <2>1, <3>1 DEF Stream, Apart
    <3>4. Accounted(t)'
      BY <1>1, <1>10, <2>1, <2>2, <3>1 DEF Stream, Accounted
    <3>. QED
      BY <3>2, <3>3, <3>4 DEF Stream
  <2>3. CASE recQueue'[t] = Append(recQueue[t], c) /\ recDropped'[t] = recDropped[t]
    <3>1. /\ Range(recQueue'[t]) = Range(recQueue[t]) \cup {c}
          /\ IsInjective(recQueue[t]) /\ c \notin Range(recQueue[t]) => IsInjective(recQueue'[t])
      BY <1>2, <2>3, AppendOnce DEF RecTypes
    <3>2. Arrived(t)' = Arrived(t) \cup {c}
      BY <1>1, <3>1 DEF Arrived
    <3>3. Once(t)'
      BY <1>1, <2>1, <3>1 DEF Stream, Once, Arrived
    <3>4. Known(t)'
      BY <1>1, <1>4, <2>1, <3>2 DEF Stream, Known
    <3>5. Apart(t)'
      BY <1>10, <2>1, <3>2 DEF Stream, Apart
    <3>6. Accounted(t)'
      BY <1>1, <1>10, <2>1, <2>3, <3>2 DEF Stream, Accounted
    <3>. QED
      BY <3>3, <3>4, <3>5, <3>6 DEF Stream
  <2>. QED
    BY <1>7, <2>2, <2>3
<1>. QED
  BY <1>8, <1>9, <1>11, <1>12

(* Push ends: served, or by a panic.                                       *)
LEMMA PushEndsStep ==
  ASSUME RecInv, NEW p \in Producer, PushDone(p) \/ \E t \in Sub : SendOnClosed(p, t)
  PROVE  RecInv'
<1>. USE DEF RecInv
<1>1. /\ recPushing' = [recPushing EXCEPT ![p] = NotPushing]
      /\ UNCHANGED <<recBuf, recRegistered, recQueue, recPlace, recReplay, recGot, recFirst, recCalls,
                     recDropped>>
      /\ recPanicked \subseteq recPanicked'
      /\ recPushing[p].to = {} \/ recPushing[p].call \in recPanicked'
  BY DEF PushDone, SendOnClosed, recRing, recSubs
<1>2. /\ recPushing'[p].to = {} /\ recPushing'[p].call = 0
      /\ recPushing'[p] \in [call : Nat, to : SUBSET Sub]
      /\ \A q \in Producer : q # p => recPushing'[q] = recPushing[q]
  BY <1>1 DEF NotPushing, RecTypes
<1>3. Serving(p)
  <2>1. recPushing' \in [Producer -> [call : Nat, to : SUBSET Sub]]
    BY <1>1, <1>2 DEF RecTypes
  <2>. QED
    BY <1>2, <2>1 DEF Serving
<1>4. RecTypes' /\ RingIsRecent'
  BY <1>1, <1>3 DEF RecTypes, Serving, RingIsRecent
<1>5. Flight' /\ Places'
  BY <1>1, <1>3, ServedFlight
<1>6. ASSUME NEW s \in Sub PROVE Stream(s)'
  <2>1. ComingTo(s)' \subseteq ComingTo(s)
    BY <1>2, Coming
  <2>2. ASSUME NEW x \in ComingTo(s) PROVE x \in ComingTo(s)' \cup recPanicked'
    <3>1. PICK q \in Producer : s \in recPushing[q].to /\ x = recPushing[q].call
      BY Coming
    <3>2. CASE q = p
      BY <1>1, <3>1, <3>2
    <3>3. CASE q # p
      BY <1>2, <3>1, <3>3, Coming
    <3>. QED
      BY <3>2, <3>3
  <2>3. Quiet(s)
    BY <1>1, <2>1, <2>2 DEF Quiet
  <2>. QED
    BY <2>3, QuietStream
<1>. QED
  BY <1>4, <1>5, <1>6

-----------------------------------------------------------------------------
(* The subscriptions.                                                      *)

(* The tail of the ring: the last calls, each of them once.                *)
LEMMA RecentCalls ==
  ASSUME RecTypes, RingIsRecent, NEW n \in Nat, NEW tail, tail = Recent(n)
  PROVE  /\ tail \in Seq(Nat) /\ IsInjective(tail) /\ Len(tail) <= Len(recBuf)
         /\ Range(tail) \subseteq 1..recCalls
         /\ (recCalls - Len(tail) + 1)..recCalls \subseteq Range(tail)
<1>. USE RecorderAssumption DEF RecorderAssumption
<1>. DEFINE m == Len(recBuf)
<1>1. /\ recCalls \in Nat /\ recBuf \in Seq(Nat) /\ m \in Nat /\ DOMAIN recBuf = 1..m /\ m <= recCalls
  BY LenProperties DEF RecTypes, RingIsRecent
<1>2. \A i \in 1..m : recBuf[i] = recCalls - m + i
  BY <1>1 DEF RingIsRecent
<1>. HIDE DEF m
<1>3. /\ tail \in Seq(Nat) /\ Len(tail) \in Nat /\ Len(tail) <= m
      /\ \A i \in 1..Len(tail) : tail[i] = recCalls - Len(tail) + i
  <2>1. CASE m <= n
    <3>1. tail = recBuf
      BY <2>1 DEF Recent, m
    <3>. QED
      BY <1>1, <1>2, <3>1 DEF m
  <2>2. CASE ~(m <= n)
    <3>1. tail = SubSeq(recBuf, m - n + 1, m)
      BY <2>2 DEF Recent, m
    <3>2. m - n + 1 \in 1..m + 1 /\ m - n + 1 \in Int /\ m \in Int
      BY <1>1, <2>2
    <3>3. \A i \in (m - n + 1)..m : recBuf[i] \in Nat
      <4>1. \A i \in 1..m : recBuf[i] \in Nat
        BY <1>1, ElementOfSeq DEF m
      <4>. QED
        BY <1>1, <2>2, <4>1
    <3>4. /\ tail \in Seq(Nat)
          /\ Len(tail) = IF m - n + 1 <= m THEN m - (m - n + 1) + 1 ELSE 0
          /\ \A i \in 1..m - (m - n + 1) + 1 : tail[i] = recBuf[(m - n + 1) + i - 1]
      BY <3>1, <3>2, <3>3, SubSeqProperties
    <3>5. Len(tail) = n
      BY <1>1, <2>2, <3>4
    <3>6. ASSUME NEW i \in 1..n PROVE tail[i] = recCalls - n + i
      <4>1. i \in 1..m - (m - n + 1) + 1 /\ (m - n + 1) + i - 1 = m - n + i /\ m - n + i \in 1..m
        BY <1>1, <2>2
      <4>2. tail[i] = recBuf[m - n + i]
        BY <3>4, <4>1
      <4>3. recBuf[m - n + i] = recCalls - m + (m - n + i)
        BY <1>2, <4>1
      <4>. QED
        BY <1>1, <4>2, <4>3
    <3>7. tail \in Seq(Nat) /\ Len(tail) \in Nat /\ Len(tail) <= m
      BY <1>1, <2>2, <3>4, <3>5
    <3>8. \A i \in 1..Len(tail) : tail[i] = recCalls - Len(tail) + i
      BY ONLY <3>5, <3>6
    <3>. QED
      BY <3>7, <3>8
  <2>. QED
    BY <2>1, <2>2
<1>4. DOMAIN tail = 1..Len(tail)
  BY <1>3, LenProperties
<1>5. IsInjective(tail)
  BY <1>1, <1>3, <1>4 DEF IsInjective
<1>6. Range(tail) \subseteq 1..recCalls
  BY <1>1, <1>3, <1>4 DEF Range
<1>7. ASSUME NEW x \in (recCalls - Len(tail) + 1)..recCalls PROVE x \in Range(tail)
  <2>1. x - (recCalls - Len(tail)) \in 1..Len(tail)
    BY <1>1, <1>3
  <2>2. tail[x - (recCalls - Len(tail))] = x
    <3>1. tail[x - (recCalls - Len(tail))] = recCalls - Len(tail) + (x - (recCalls - Len(tail)))
      BY <1>3, <2>1
    <3>. QED
      BY <1>1, <1>3, <3>1
  <2>. QED
    BY <1>4, <2>1, <2>2 DEF Range
<1>. QED
  BY <1>3, <1>5, <1>6, <1>7 DEF m

(* A step of one subscription leaves the goroutines and the others alone.  *)
Alone(t) ==
  /\ UNCHANGED <<recBuf, recPushing, recCalls, recPanicked>>
  /\ \A s \in Sub \ {t} :
       /\ recGot'[s] = recGot[s] /\ recQueue'[s] = recQueue[s] /\ recReplay'[s] = recReplay[s]
       /\ recFirst'[s] = recFirst[s] /\ recDropped'[s] = recDropped[s] /\ recPlace'[s] = recPlace[s]
       /\ s \in recRegistered' <=> s \in recRegistered

LEMMA AloneStep ==
  ASSUME RecInv, NEW t \in Sub, Alone(t), RecTypes', Stream(t)',
         t \in recRegistered' <=> recPlace'[t] \in {"replay", "read"}, recPlace'[t] # "new"
  PROVE  RecInv'
<1>1. Flight' /\ RingIsRecent'
  BY DEF RecInv, Alone, Flight, RingIsRecent
<1>2. Places'
  BY DEF RecInv, Alone, Places
<1>3. ASSUME NEW s \in Sub, s # t PROVE Stream(s)'
  <2>1. ComingTo(s)' = ComingTo(s)
    BY SameComing DEF Alone
  <2>2. Quiet(s)
    BY <1>3, <2>1 DEF Quiet, Alone
  <2>. QED
    BY <2>2, QuietStream DEF RecInv
<1>. QED
  BY <1>1, <1>2, <1>3 DEF RecInv

LEMMA SubscribeStep ==
  ASSUME RecInv, NEW t \in Sub, Subscribe(t)
  PROVE  RecInv'
<1>. USE DEF RecInv
<1>1. PICK n \in Replays : /\ recReplay' = [recReplay EXCEPT ![t] = Recent(n)]
                           /\ recFirst' = [recFirst EXCEPT ![t] = recCalls - Len(Recent(n)) + 1]
  BY DEF Subscribe
<1>2. /\ recPlace[t] = "new" /\ recPlace' = [recPlace EXCEPT ![t] = "replay"]
      /\ recRegistered' = recRegistered \cup {t}
      /\ UNCHANGED <<recBuf, recQueue, recPushing, recCalls, recGot, recDropped, recPanicked>>
  BY DEF Subscribe
<1>. DEFINE tail == Recent(n)
<1>3. n \in Nat
  BY RecorderAssumption DEF RecorderAssumption
<1>4. /\ tail \in Seq(Nat) /\ IsInjective(tail) /\ Range(tail) \subseteq 1..recCalls
      /\ (recCalls - Len(tail) + 1)..recCalls \subseteq Range(tail)
  BY <1>3, RecentCalls
<1>. HIDE DEF tail
<1>5. RecTypes'
  BY <1>1, <1>2, <1>4 DEF RecTypes, tail
<1>6. /\ recReplay'[t] = tail /\ recFirst'[t] = recCalls - Len(tail) + 1 /\ recPlace'[t] = "replay"
      /\ recGot'[t] = <<>> /\ recQueue'[t] = <<>>
  BY <1>1, <1>2 DEF RecTypes, Places, tail
<1>7. Alone(t)
  BY <1>1, <1>2 DEF Alone, RecTypes
<1>8. ComingTo(t)' = {}
  <2>1. ComingTo(t)' = ComingTo(t)
    BY <1>2, SameComing
  <2>2. \A x : x \notin ComingTo(t)
    BY <1>2, Coming DEF Places
  <2>. QED
    BY <2>1, <2>2
<1>9. Arrived(t)' = Range(tail)
  BY <1>6, EmptyOnce DEF Arrived
<1>10. Once(t)' /\ Known(t)' /\ Apart(t)'
  BY <1>2, <1>4, <1>6, <1>8, <1>9, EmptyOnce DEF Once, Known, Apart
<1>11. Accounted(t)'
  BY <1>2, <1>4, <1>6, <1>9 DEF Accounted
<1>. QED
  BY <1>2, <1>5, <1>6, <1>7, <1>10, <1>11, AloneStep DEF Stream

LEMMA ReplayOneStep ==
  ASSUME RecInv, NEW t \in Sub, ReplayOne(t)
  PROVE  RecInv'
<1>. USE DEF RecInv
<1>. DEFINE c == Head(recReplay[t])
<1>1. /\ recPlace[t] = "replay" /\ recReplay[t] # <<>> /\ TrySend(t, c)
      /\ recReplay' = [recReplay EXCEPT ![t] = Tail(recReplay[t])]
      /\ UNCHANGED <<recBuf, recRegistered, recPushing, recPlace, recGot, recFirst, recCalls,
                     recPanicked>>
  BY DEF ReplayOne, recRing
<1>2. \/ recQueue' = [recQueue EXCEPT ![t] = Append(recQueue[t], c)] /\ recDropped' = recDropped
      \/ recDropped' = [recDropped EXCEPT ![t] = recDropped[t] \cup {c}] /\ recQueue' = recQueue
  BY <1>1 DEF TrySend
<1>3. /\ recReplay[t] \in Seq(Nat) /\ recQueue[t] \in Seq(Nat) /\ recDropped[t] \in SUBSET Nat
  BY DEF RecTypes
<1>4. /\ Tail(recReplay[t]) \in Seq(Nat) /\ c \in Nat /\ c \in Range(recReplay[t])
      /\ Range(recReplay[t]) = Range(Tail(recReplay[t])) \cup {c}
      /\ IsInjective(Tail(recReplay[t])) /\ c \notin Range(Tail(recReplay[t]))
  BY <1>1, <1>3, TailOnce DEF Stream, Once
<1>. HIDE DEF c
<1>5. /\ Append(recQueue[t], c) \in Seq(Nat)
      /\ Range(Append(recQueue[t], c)) = Range(recQueue[t]) \cup {c}
      /\ IsInjective(Append(recQueue[t], c))
  <2>1. c \notin Range(recQueue[t]) /\ IsInjective(recQueue[t])
    BY <1>4 DEF Stream, Once
  <2>. QED
    BY <1>3, <1>4, <2>1, AppendOnce
<1>6. RecTypes'
  <2>1. recReplay' \in [Sub -> Seq(Nat)]
    BY <1>1, <1>4 DEF RecTypes
  <2>2. recQueue' \in [Sub -> Seq(Nat)]
    BY <1>2, <1>5 DEF RecTypes
  <2>3. recDropped' \in [Sub -> SUBSET Nat]
    <3>1. recDropped[t] \cup {c} \in SUBSET Nat /\ recDropped \in [Sub -> SUBSET Nat]
      BY <1>3, <1>4 DEF RecTypes
    <3>2. CASE recDropped' = [recDropped EXCEPT ![t] = recDropped[t] \cup {c}]
      BY ONLY <3>1, <3>2, t \in Sub
    <3>. QED
      BY <1>2, <3>1, <3>2
  <2>. QED
    BY <1>1, <2>1, <2>2, <2>3 DEF RecTypes
<1>7. Alone(t)
  BY <1>1, <1>2 DEF Alone, RecTypes
<1>8. /\ recReplay'[t] = Tail(recReplay[t]) /\ recGot'[t] = recGot[t]
      /\ \/ recQueue'[t] = Append(recQueue[t], c) /\ recDropped'[t] = recDropped[t]
         \/ recQueue'[t] = recQueue[t] /\ recDropped'[t] = recDropped[t] \cup {c}
  BY <1>1, <1>2 DEF RecTypes
<1>9. ComingTo(t)' = ComingTo(t)
  BY <1>1, SameComing
<1>10. Once(t)'
  BY <1>4, <1>5, <1>8 DEF Stream, Once
<1>11. /\ Arrived(t)' \subseteq Arrived(t)
       /\ Arrived(t) \cup recDropped[t] \subseteq Arrived(t)' \cup recDropped'[t]
  BY <1>4, <1>5, <1>8 DEF Arrived
<1>12. Known(t)' /\ Apart(t)'
  BY <1>1, <1>9, <1>11 DEF Stream, Known, Apart
<1>13. Accounted(t)'
  BY <1>1, <1>9, <1>11 DEF Stream, Accounted
<1>14. t \in recRegistered' /\ recPlace'[t] = "replay"
  BY <1>1 DEF Places
<1>. QED
  BY <1>6, <1>7, <1>10, <1>12, <1>13, <1>14, AloneStep DEF Stream

LEMMA ReceiveStep ==
  ASSUME RecInv, NEW t \in Sub, Receive(t)
  PROVE  RecInv'
<1>. USE DEF RecInv
<1>. DEFINE c == Head(recQueue[t])
<1>1. /\ recPlace[t] = "read" /\ recQueue[t] # <<>>
      /\ recQueue' = [recQueue EXCEPT ![t] = Tail(recQueue[t])]
      /\ recGot' = [recGot EXCEPT ![t] = Append(recGot[t], c)]
      /\ UNCHANGED <<recBuf, recRegistered, recPushing, recPlace, recReplay, recFirst, recCalls,
                     recDropped, recPanicked>>
  BY DEF Receive, recRing
<1>2. recQueue[t] \in Seq(Nat) /\ recGot[t] \in Seq(Nat)
  BY DEF RecTypes
<1>3. /\ Tail(recQueue[t]) \in Seq(Nat) /\ c \in Nat /\ c \in Range(recQueue[t])
      /\ Range(recQueue[t]) = Range(Tail(recQueue[t])) \cup {c}
      /\ IsInjective(Tail(recQueue[t])) /\ c \notin Range(Tail(recQueue[t]))
  BY <1>1, <1>2, TailOnce DEF Stream, Once
<1>. HIDE DEF c
<1>4. /\ Append(recGot[t], c) \in Seq(Nat)
      /\ Range(Append(recGot[t], c)) = Range(recGot[t]) \cup {c}
      /\ IsInjective(Append(recGot[t], c))
  <2>1. c \notin Range(recGot[t]) /\ IsInjective(recGot[t])
    BY <1>3 DEF Stream, Once
  <2>. QED
    BY <1>2, <1>3, <2>1, AppendOnce
<1>5. RecTypes'
  <2>1. recQueue' \in [Sub -> Seq(Nat)]
    BY <1>1, <1>3 DEF RecTypes
  <2>2. recGot' \in [Sub -> Seq(Nat)]
    BY <1>1, <1>4 DEF RecTypes
  <2>. QED
    BY <1>1, <2>1, <2>2 DEF RecTypes
<1>6. Alone(t)
  BY <1>1 DEF Alone, RecTypes
<1>7. /\ recQueue'[t] = Tail(recQueue[t]) /\ recGot'[t] = Append(recGot[t], c)
      /\ recReplay'[t] = recReplay[t]
  BY <1>1 DEF RecTypes
<1>8. ComingTo(t)' = ComingTo(t)
  BY <1>1, SameComing
<1>9. Once(t)'
  BY <1>3, <1>4, <1>7 DEF Stream, Once
<1>10. Arrived(t)' = Arrived(t)
  BY <1>3, <1>4, <1>7 DEF Arrived
<1>11. Known(t)' /\ Apart(t)'
  BY <1>1, <1>8, <1>10 DEF Stream, Known, Apart
<1>12. Accounted(t)'
  BY <1>1, <1>8, <1>10 DEF Stream, Accounted
<1>13. t \in recRegistered' /\ recPlace'[t] = "read"
  BY <1>1 DEF Places
<1>. QED
  BY <1>5, <1>6, <1>9, <1>11, <1>12, <1>13, AloneStep DEF Stream

LEMMA HandlerStep ==
  ASSUME RecInv, NEW t \in Sub, ReplayDone(t) \/ Leave(t)
  PROVE  RecInv'
<1>. USE DEF RecInv
<1>1. /\ recPlace[t] \in {"replay", "read"}
      /\ UNCHANGED <<recBuf, recPushing, recQueue, recReplay, recGot, recFirst, recCalls, recDropped,
                     recPanicked>>
      /\ \/ recRegistered' = recRegistered /\ recPlace' = [recPlace EXCEPT ![t] = "read"]
         \/ recRegistered' = recRegistered \ {t} /\ recPlace' = [recPlace EXCEPT ![t] = "left"]
  BY DEF ReplayDone, Leave, recRing
<1>2. RecTypes' /\ Alone(t)
  BY <1>1 DEF RecTypes, Alone
<1>3. /\ t \in recRegistered' <=> recPlace'[t] \in {"replay", "read"}
      /\ recPlace'[t] # "new"
  BY <1>1 DEF RecTypes, Places
<1>4. Quiet(t)
  <2>1. ComingTo(t)' = ComingTo(t)
    BY <1>1, SameComing
  <2>. QED
    BY <1>1, <2>1 DEF Quiet
<1>. QED
  BY <1>2, <1>3, <1>4, QuietStream, AloneStep

-----------------------------------------------------------------------------
(* The recorder under the page.                                            *)

RecStep ==
  \/ \E p \in Producer : Push(p) \/ Deliveries(p)
  \/ \E s \in Sub : Subscribe(s) \/ ReplayOne(s) \/ ReplayDone(s) \/ Receive(s) \/ Leave(s)
  \/ UNCHANGED recVars

LEMMA MonitorSteps ==
  ASSUME monOpened \in Sub, [MonitorNext]_monitorVars
  PROVE  RecStep /\ monOpened' \in Sub
<1>. USE MonitorAssumption DEF MonitorAssumption
<1>1. 1..monOpened \subseteq Sub
  OBVIOUS
<1>2. CASE \E p \in Producer : (Push(p) \/ Deliveries(p)) /\ UNCHANGED monPage
  BY <1>2 DEF RecStep, monPage
<1>3. CASE \E s \in 1..monOpened : \/ (Subscribe(s) \/ ReplayOne(s) \/ ReplayDone(s)) /\ UNCHANGED monPage
                                   \/ ServeCall(s) \/ StreamEnds(s)
  BY <1>1, <1>3 DEF RecStep, monPage, ServeCall, StreamEnds
<1>4. CASE \E f \in MonitorFilters : ChangeFilter(f)
  BY <1>4 DEF RecStep, ChangeFilter
<1>5. CASE \/ TakeCall \/ TogglePause \/ ClearTable \/ CloseSheet
           \/ \E i \in DOMAIN monEvents : SelectRow(i)
  BY <1>5 DEF RecStep, TakeCall, TogglePause, ClearTable, CloseSheet, SelectRow
<1>6. CASE UNCHANGED monitorVars
  BY <1>6 DEF RecStep, monitorVars, monPage
<1>. QED
  BY <1>2, <1>3, <1>4, <1>5, <1>6 DEF MonitorNext

LEMMA RecInvStep ==
  ASSUME RecInv, RecStep
  PROVE  RecInv'
<1>1. ASSUME NEW p \in Producer, Push(p) PROVE RecInv'
  BY <1>1, PushStep
<1>2. ASSUME NEW p \in Producer, Deliveries(p) PROVE RecInv'
  BY <1>2, DeliverStep, PushEndsStep DEF Deliveries
<1>3. ASSUME NEW s \in Sub,
             Subscribe(s) \/ ReplayOne(s) \/ ReplayDone(s) \/ Receive(s) \/ Leave(s)
      PROVE  RecInv'
  BY <1>3, SubscribeStep, ReplayOneStep, ReceiveStep, HandlerStep
<1>4. CASE UNCHANGED recVars
  <2>1. RecTypes' /\ Flight' /\ Places' /\ RingIsRecent'
    BY <1>4 DEF recVars, RecInv, RecTypes, Flight, Places, RingIsRecent
  <2>2. ASSUME NEW s \in Sub PROVE Stream(s)'
    <3>1. ComingTo(s)' = ComingTo(s)
      BY <1>4, SameComing DEF recVars
    <3>2. Quiet(s)
      BY <1>4, <3>1 DEF recVars, Quiet
    <3>. QED
      BY <3>2, QuietStream DEF RecInv
  <2>. QED
    BY <2>1, <2>2 DEF RecInv
<1>. QED
  BY <1>1, <1>2, <1>3, <1>4 DEF RecStep

(* Every subscription gets an exact copy of the calls from its first one   *)
(* on, but for those dropped at a full channel and those lost when a Push  *)
(* panicked: nothing twice, and no gap between replay and live calls;      *)
(* however many goroutines push, subscribe and leave (recorder.go).        *)
THEOREM RecorderExactHolds == MonitorSpec => []RecorderExact
<1>. DEFINE Inv == RecInv /\ monOpened \in Sub
<1>1. MonitorInit => Inv
  <2>1. 1 \in Sub
    BY MonitorAssumption DEF MonitorAssumption
  <2>2. MonitorInit => RecInit /\ monOpened = 1
    BY DEF MonitorInit
  <2>. QED
    BY <2>1, <2>2, RecInvInit
<1>2. Inv /\ [MonitorNext]_monitorVars => Inv'
  BY MonitorSteps, RecInvStep
<1>3. Inv => RecorderExact
  <2> SUFFICES ASSUME RecInv PROVE RecorderExact
    OBVIOUS
  <2>1. ASSUME NEW s \in Sub
        PROVE  IsInjective(StreamOf(s)) /\ Range(StreamOf(s)) = Arrived(s)
    <3>1. /\ recGot[s] \in Seq(Nat) /\ recQueue[s] \in Seq(Nat) /\ recReplay[s] \in Seq(Nat)
          /\ Once(s)
      BY DEF RecInv, RecTypes, Stream
    <3>2. /\ recGot[s] \o recQueue[s] \in Seq(Nat) /\ IsInjective(recGot[s] \o recQueue[s])
          /\ Range(recGot[s] \o recQueue[s]) = Range(recGot[s]) \cup Range(recQueue[s])
      BY <3>1, JoinOnce DEF Once
    <3>3. Range(recGot[s] \o recQueue[s]) \cap Range(recReplay[s]) = {}
      BY <3>1, <3>2 DEF Once
    <3>. QED
      BY <3>1, <3>2, <3>3, JoinOnce DEF StreamOf, Arrived, Once
  <2>2. AtMostOnce
    BY <2>1 DEF AtMostOnce, RecInv, Stream, Apart
  <2>3. NoGap
    BY <2>1 DEF NoGap, RecInv, Stream, Accounted
  <2>. QED
    BY <2>2, <2>3 DEF RecorderExact, RecInv
<1>. QED
  BY <1>1, <1>2, <1>3, PTL DEF MonitorSpec

-----------------------------------------------------------------------------
(* The table.                                                              *)

Event == [id : Nat, call : Nat]

(* The new row is on top, and at most one is pushed out: the last of all.  *)
RowOnTop(events, e, next, t) ==
  /\ t \in Seq(Event) /\ Len(t) <= BufferSize
  /\ \A i \in DOMAIN t : \/ i = 1 /\ t[i] = e
                         \/ i > 1 /\ i - 1 \in DOMAIN events /\ t[i] = events[i - 1]
  /\ Len(next) > BufferSize =>
       /\ Last(next).call \in CallsOf(events) \cup {e.call}
       /\ CallsOf(events) \cup {e.call} \subseteq CallsOf(t) \cup {Last(next).call}
  /\ Len(next) <= BufferSize => CallsOf(events) \cup {e.call} \subseteq CallsOf(t)

LEMMA TableStep ==
  ASSUME NEW events \in Seq(Event), Len(events) <= BufferSize, NEW e \in Event,
         NEW next, next = <<e>> \o events, NEW t, t = Capped(next)
  PROVE  RowOnTop(events, e, next, t)
<1>. USE MonitorAssumption DEF MonitorAssumption
<1>. DEFINE n == Len(events)
<1>1. n \in Nat /\ DOMAIN events = 1..n /\ \A i \in 1..n : events[i] \in Event
  BY LenProperties, ElementOfSeq
<1>2. <<e>> \in Seq(Event) /\ Len(<<e>>) = 1 /\ <<e>>[1] = e
  OBVIOUS
<1>3. /\ next \in Seq(Event) /\ Len(next) = n + 1 /\ next[1] = e
      /\ \A i \in 1..n : next[i + 1] = events[i]
  <2>1. /\ next \in Seq(Event) /\ Len(next) = 1 + n
        /\ \A i \in 1..1 + n : next[i] = IF i <= 1 THEN <<e>>[i] ELSE events[i - 1]
    BY <1>2, ConcatProperties
  <2>2. next[1] = e
    BY <1>1, <1>2, <2>1
  <2>3. ASSUME NEW i \in 1..n PROVE next[i + 1] = events[i]
    <3>1. i + 1 \in 1..1 + n /\ ~(i + 1 <= 1) /\ (i + 1) - 1 = i
      BY <1>1
    <3>2. next[i + 1] = events[(i + 1) - 1]
      BY <2>1, <3>1
    <3>. QED
      BY <3>1, <3>2
  <2>. QED
    BY <1>1, <2>1, <2>2, <2>3
<1>. DEFINE m == IF n + 1 <= BufferSize THEN n + 1 ELSE BufferSize
<1>4. m \in 1..n + 1 /\ m <= BufferSize /\ m \in Nat
  BY <1>1
<1>5. t \in Seq(Event) /\ Len(t) = m /\ \A i \in 1..m : t[i] = next[i]
  <2>1. CASE n + 1 <= BufferSize
    BY <1>3, <2>1 DEF Capped
  <2>2. CASE ~(n + 1 <= BufferSize)
    <3>1. t = SubSeq(next, 1, BufferSize) /\ m = BufferSize
      BY <1>3, <2>2 DEF Capped
    <3>2. \A i \in 1..BufferSize : next[i] \in Event
      <4>1. \A i \in 1..BufferSize : i \in 1..Len(next)
        BY <1>1, <1>3, <2>2
      <4>. QED
        BY <1>3, <4>1, ElementOfSeq
    <3>3. /\ SubSeq(next, 1, BufferSize) \in Seq(Event)
          /\ Len(SubSeq(next, 1, BufferSize)) = IF 1 <= BufferSize THEN BufferSize - 1 + 1 ELSE 0
          /\ \A i \in 1..BufferSize - 1 + 1 : SubSeq(next, 1, BufferSize)[i] = next[1 + i - 1]
      <4>1. 1 \in Int /\ BufferSize \in Int
        OBVIOUS
      <4>. HIDE DEF MonitorAssumption
      <4>. QED
        BY ONLY <3>2, <4>1, SubSeqProperties
    <3>6. 1 <= BufferSize /\ BufferSize - 1 + 1 = BufferSize
      OBVIOUS
    <3>4. Len(t) = BufferSize /\ t \in Seq(Event)
      BY ONLY <3>1, <3>3, <3>6
    <3>5. ASSUME NEW i \in 1..BufferSize PROVE t[i] = next[i]
      <4>1. i \in 1..BufferSize - 1 + 1 /\ 1 + i - 1 = i
        OBVIOUS
      <4>. QED
        BY <3>1, <3>3, <4>1
    <3>. QED
      BY <3>1, <3>4, <3>5
  <2>. QED
    BY <2>1, <2>2
<1>6. DOMAIN t = 1..m
  BY <1>5, LenProperties
<1>. HIDE DEF m
<1>7. ASSUME NEW i \in DOMAIN t
      PROVE  \/ i = 1 /\ t[i] = e
             \/ i > 1 /\ i - 1 \in DOMAIN events /\ t[i] = events[i - 1]
  <2>1. CASE i = 1
    <3>1. t[1] = next[1]
      BY <1>4, <1>5
    <3>. QED
      BY <1>3, <2>1, <3>1
  <2>2. CASE i # 1
    <3>1. i > 1 /\ i - 1 \in 1..n /\ (i - 1) + 1 = i
      BY <1>1, <1>4, <1>6, <2>2
    <3>2. next[(i - 1) + 1] = events[i - 1]
      BY <1>3, <3>1
    <3>. QED
      BY <1>1, <1>5, <1>6, <3>1, <3>2
  <2>. QED
    BY <2>1, <2>2
<1>8. ASSUME NEW c \in CallsOf(events) \cup {e.call}
      PROVE  \E i \in 1..n + 1 : next[i].call = c
  <2>1. CASE c = e.call
    BY <1>1, <1>3, <2>1
  <2>2. CASE c \in CallsOf(events)
    <3>1. PICK i \in 1..n : events[i].call = c
      BY <1>1, <2>2 DEF CallsOf
    <3>2. i + 1 \in 1..n + 1 /\ next[i + 1] = events[i]
      BY <1>1, <1>3
    <3>. QED
      BY <3>1, <3>2
  <2>. QED
    BY <2>1, <2>2
<1>9. Last(next) = next[n + 1]
  BY <1>3 DEF Last
<1>10. ASSUME Len(next) > BufferSize
       PROVE  /\ Last(next).call \in CallsOf(events) \cup {e.call}
              /\ CallsOf(events) \cup {e.call} \subseteq CallsOf(t) \cup {Last(next).call}
  <2>5. n + 1 > BufferSize /\ n <= BufferSize /\ n \in Nat /\ BufferSize \in Nat
    BY <1>1, <1>3, <1>10
  <2>6. n = BufferSize
    BY ONLY <2>5
  <2>1. n = BufferSize /\ m = n
    BY <2>5, <2>6 DEF m
  <2>2. n \in 1..n /\ next[n + 1] = events[n]
    BY <1>1, <1>3, <2>1
  <2>3. Last(next).call \in CallsOf(events)
    BY <1>1, <1>9, <2>2 DEF CallsOf
  <2>4. ASSUME NEW c \in CallsOf(events) \cup {e.call} PROVE c \in CallsOf(t) \cup {Last(next).call}
    <3>1. PICK i \in 1..n + 1 : next[i].call = c
      BY <1>8
    <3>2. i \in 1..m \/ i = n + 1
      BY <1>1, <2>1
    <3>. QED
      BY <1>5, <1>6, <1>9, <3>1, <3>2 DEF CallsOf
  <2>. QED
    BY <2>3, <2>4
<1>11. ASSUME Len(next) <= BufferSize PROVE CallsOf(events) \cup {e.call} \subseteq CallsOf(t)
  <2>1. m = n + 1
    BY <1>3, <1>11 DEF m
  <2>. QED
    BY <1>5, <1>6, <1>8, <2>1 DEF CallsOf
<1>. QED
  BY <1>4, <1>5, <1>7, <1>10, <1>11 DEF RowOnTop
-----------------------------------------------------------------------------
(* The page over it: the invariant.                                        *)

MonTypes ==
  /\ monOpened \in Sub /\ monSub \in {0, monOpened}
  /\ monFilter \in MonitorFilters \cup {""}
  /\ monWire \in Seq(Nat)
  /\ monPaused \in BOOLEAN /\ monIds \in Nat
  /\ monEvents \in Seq(Event) /\ Len(monEvents) <= BufferSize
  /\ monSheet \in Event
  /\ monError \in {"none", "error", "crashed"}
  /\ monError = "crashed" => monSub = 0

(* A subscription the page has not opened is not served.                   *)
Fresh == \A s \in Sub : s > monOpened => recPlace[s] = "new"

(* Where a call of the page's subscription is, once it has been sent.      *)
Taken == CallsOf(monEvents) \cup Range(monWire) \cup monGone

Rows ==
  /\ Taken \subseteq 1..recCalls
  /\ \A i \in DOMAIN monEvents : monEvents[i].id < monIds
  /\ \A i, k \in DOMAIN monEvents : i < k =>
       monEvents[i].id > monEvents[k].id /\ monEvents[i].call # monEvents[k].call

Wire ==
  /\ IsInjective(monWire)
  /\ Range(monWire) \cap CallsOf(monEvents) = {}
  /\ monSub = 0 => monWire = <<>>

Asked == MonitorUp => \A c \in CallsOf(monEvents) \cup Range(monWire) : RpcFilter(monFilter, c)

(* What is taken was received, and what was received and asked for is      *)
(* taken.                                                                  *)
Served ==
  monSub # 0 => /\ Taken \subseteq Range(recGot[monSub])
                /\ \A c \in Range(recGot[monSub]) : RpcFilter(monFilter, c) => c \in Taken

(* An open sheet is that of the row with its key, as long as that is there. *)
Sheet ==
  monSheet # NoEvent =>
    /\ monSheet.id < monIds /\ monSheet.call \in 1..recCalls
    /\ \A i \in DOMAIN monEvents : monEvents[i].id = monSheet.id => monEvents[i] = monSheet

MonInv == MonTypes /\ Fresh /\ Rows /\ Wire /\ Asked /\ Served /\ Sheet

(* What the recorder holds is bounded, by its capacities and by the calls  *)
(* made so far.                                                            *)
RecBounds ==
  /\ recCalls <= MaxCalls
  /\ \A s \in Sub : /\ Len(recQueue[s]) <= ChanSize /\ Len(recReplay[s]) <= Cap
                    /\ recDropped[s] \subseteq 1..recCalls
  /\ recClosed \subseteq {s \in Sub : recPlace[s] = "left"}
  /\ recPanicked \subseteq 1..recCalls

LEMMA RecBoundsStep ==
  ASSUME RecInv, RecBounds, RecStep
  PROVE  RecBounds' /\ recCalls \in Nat /\ recCalls' \in Nat /\ recCalls <= recCalls'
<1>. USE RecorderAssumption DEF RecorderAssumption
<1>1. /\ recCalls \in Nat
      /\ \A s \in Sub : /\ recQueue[s] \in Seq(Nat) /\ recReplay[s] \in Seq(Nat)
                        /\ Len(recQueue[s]) \in Nat /\ Len(recReplay[s]) \in Nat
  BY LenProperties DEF RecInv, RecTypes
<1>2. ASSUME NEW p \in Producer, Push(p) PROVE RecBounds' /\ recCalls' = recCalls + 1
  BY <1>1, <1>2 DEF Push, recSubs, RecBounds
<1>3. ASSUME NEW s \in Sub, NEW c \in 1..recCalls, TrySend(s, c)
      PROVE  \A t \in Sub : /\ Len(recQueue'[t]) <= ChanSize
                            /\ recDropped'[t] \subseteq 1..recCalls
  <2>1. CASE /\ Len(recQueue[s]) < ChanSize /\ recDropped' = recDropped
             /\ recQueue' = [recQueue EXCEPT ![s] = Append(recQueue[s], c)]
    <3>1. Len(Append(recQueue[s], c)) = Len(recQueue[s]) + 1
      BY <1>1, AppendProperties
    <3>2. ASSUME NEW t \in Sub PROVE Len(recQueue'[t]) <= ChanSize
      <4>1. CASE t = s
        BY <1>1, <2>1, <3>1, <4>1 DEF RecInv, RecTypes
      <4>2. CASE t # s
        BY <2>1, <4>2 DEF RecInv, RecTypes, RecBounds
      <4>. QED
        BY <4>1, <4>2
    <3>. QED
      BY <2>1, <3>2 DEF RecBounds
  <2>2. CASE /\ recQueue' = recQueue
             /\ recDropped' = [recDropped EXCEPT ![s] = recDropped[s] \cup {c}]
    BY <1>1, <2>2 DEF RecBounds, RecInv, RecTypes
  <2>. QED
    BY <1>3, <2>1, <2>2 DEF TrySend
<1>4. ASSUME NEW p \in Producer, Deliveries(p) PROVE RecBounds' /\ recCalls' = recCalls
  <2>1. recPushing[p].call \in Nat /\ recPushing[p].call <= recCalls
    BY DEF RecInv, RecTypes, Flight
  <2>2. CASE PushDone(p)
    BY <2>2 DEF PushDone, recSubs, recRing, RecBounds
  <2>3. ASSUME NEW s \in Sub, s \in recPushing[p].to PROVE recPushing[p].call \in 1..recCalls
    BY <1>1, <2>1, <2>3 DEF RecInv, Flight
  <2>4. ASSUME NEW s \in Sub, Deliver(p, s) PROVE RecBounds' /\ recCalls' = recCalls
    <3>1. /\ s \in recPushing[p].to /\ TrySend(s, recPushing[p].call)
          /\ UNCHANGED <<recClosed, recPlace, recReplay, recCalls, recPanicked>>
      BY <2>4 DEF Deliver, recSubs
    <3>2. \A t \in Sub : Len(recQueue'[t]) <= ChanSize /\ recDropped'[t] \subseteq 1..recCalls
      BY <1>3, <2>3, <3>1
    <3>. QED
      BY <3>1, <3>2 DEF RecBounds
  <2>5. ASSUME NEW s \in Sub, SendOnClosed(p, s) PROVE RecBounds' /\ recCalls' = recCalls
    BY <2>3, <2>5 DEF SendOnClosed, recSubs, recRing, RecBounds
  <2>. QED
    BY <1>4, <2>2, <2>4, <2>5 DEF Deliveries
<1>5. ASSUME NEW t \in Sub, Subscribe(t) PROVE RecBounds' /\ recCalls' = recCalls
  <2>1. PICK n \in Replays : recReplay' = [recReplay EXCEPT ![t] = Recent(n)]
    BY <1>5 DEF Subscribe
  <2>2. /\ recPlace[t] = "new" /\ recPlace' = [recPlace EXCEPT ![t] = "replay"]
        /\ UNCHANGED <<recQueue, recClosed, recCalls, recDropped, recPanicked>>
    BY <1>5 DEF Subscribe
  <2>3. Len(Recent(n)) <= Cap
    <3>1. n \in Nat
      OBVIOUS
    <3>2. Recent(n) \in Seq(Nat) /\ Len(Recent(n)) <= Len(recBuf)
      BY <3>1, RecentCalls DEF RecInv
    <3>3. Len(recBuf) \in Nat /\ Len(recBuf) <= Cap
      BY <1>1, LenProperties DEF RecInv, RecTypes, RingIsRecent
    <3>4. Len(Recent(n)) \in Nat
      BY <3>2, LenProperties
    <3>. QED
      BY <3>2, <3>3, <3>4
  <2>4. \A s \in Sub : Len(recReplay'[s]) <= Cap
    BY <2>1, <2>3 DEF RecBounds, RecInv, RecTypes
  <2>5. \A s \in Sub : recPlace[s] = "left" => recPlace'[s] = "left"
    BY <2>2 DEF RecInv, RecTypes
  <2>. QED
    BY <2>2, <2>4, <2>5 DEF RecBounds
<1>6. ASSUME NEW t \in Sub, ReplayOne(t) PROVE RecBounds' /\ recCalls' = recCalls
  <2>1. /\ recReplay[t] # <<>> /\ TrySend(t, Head(recReplay[t]))
        /\ recReplay' = [recReplay EXCEPT ![t] = Tail(recReplay[t])]
        /\ UNCHANGED <<recClosed, recPlace, recCalls, recPanicked>>
    BY <1>6 DEF ReplayOne
  <2>2. Head(recReplay[t]) \in 1..recCalls
    BY <1>1, <2>1, TailOnce DEF RecInv, Stream, Known, Arrived
  <2>3. Len(Tail(recReplay[t])) = Len(recReplay[t]) - 1
    BY <1>1, <2>1, HeadTailProperties
  <2>4. ASSUME NEW s \in Sub PROVE Len(recReplay'[s]) <= Cap
    <3>1. CASE s = t
      BY <1>1, <2>1, <2>3, <3>1 DEF RecBounds, RecInv, RecTypes
    <3>2. CASE s # t
      BY <2>1, <3>2 DEF RecBounds, RecInv, RecTypes
    <3>. QED
      BY <3>1, <3>2
  <2>5. \A s \in Sub : Len(recQueue'[s]) <= ChanSize /\ recDropped'[s] \subseteq 1..recCalls
    BY <1>3, <2>1, <2>2
  <2>. QED
    BY <2>1, <2>4, <2>5 DEF RecBounds
<1>7. ASSUME NEW t \in Sub, Receive(t) PROVE RecBounds' /\ recCalls' = recCalls
  <2>1. /\ recQueue[t] # <<>> /\ recQueue' = [recQueue EXCEPT ![t] = Tail(recQueue[t])]
        /\ UNCHANGED <<recClosed, recPlace, recReplay, recCalls, recDropped, recPanicked>>
    BY <1>7 DEF Receive
  <2>2. Len(Tail(recQueue[t])) = Len(recQueue[t]) - 1
    BY <1>1, <2>1, HeadTailProperties
  <2>3. ASSUME NEW s \in Sub PROVE Len(recQueue'[s]) <= ChanSize
    <3>1. CASE s = t
      BY <1>1, <2>1, <2>2, <3>1 DEF RecBounds, RecInv, RecTypes
    <3>2. CASE s # t
      BY <2>1, <3>2 DEF RecBounds, RecInv, RecTypes
    <3>. QED
      BY <3>1, <3>2
  <2>. QED
    BY <2>1, <2>3 DEF RecBounds
<1>8. ASSUME NEW t \in Sub, ReplayDone(t) \/ Leave(t) PROVE RecBounds' /\ recCalls' = recCalls
  BY <1>8 DEF ReplayDone, Leave, recRing, RecBounds, RecInv, RecTypes
<1>9. ASSUME UNCHANGED recVars PROVE RecBounds' /\ recCalls' = recCalls
  BY <1>9 DEF recVars, RecBounds
<1>10. RecBounds' /\ recCalls' \in {recCalls, recCalls + 1}
  BY <1>2, <1>4, <1>5, <1>6, <1>7, <1>8, <1>9 DEF RecStep
<1>. QED
  BY <1>1, <1>10

LEMMA Opened ==
  ASSUME monOpened \in Sub
  PROVE  /\ Sub \subseteq Nat \ {0}
         /\ \A s \in 1..monOpened : s \in Sub /\ s # 0 /\ s \in Nat /\ s <= monOpened
BY MonitorAssumption DEF MonitorAssumption

LEMMA RowsFollow ==
  ASSUME Rows, UNCHANGED <<monEvents, monIds>>, Taken' \subseteq 1..recCalls'
  PROVE  Rows'
BY DEF Rows

LEMMA SameTable ==
  /\ UNCHANGED monEvents => CallsOf(monEvents)' = CallsOf(monEvents)
  /\ UNCHANGED monWire => Range(monWire)' = Range(monWire)
  /\ UNCHANGED <<monEvents, monWire, monGone>> => Taken' = Taken
  /\ UNCHANGED monFilter => \A x : RpcFilter(monFilter, x)' = RpcFilter(monFilter, x)
  /\ UNCHANGED monWire /\ IsInjective(monWire) => IsInjective(monWire)'
<1>1. UNCHANGED monEvents => CallsOf(monEvents)' = CallsOf(monEvents)
  BY DEF CallsOf
<1>2. UNCHANGED monWire => Range(monWire)' = Range(monWire)
  BY DEF Range
<1>3. UNCHANGED <<monEvents, monWire, monGone>> => Taken' = Taken
  BY <1>1, <1>2 DEF Taken
<1>4. UNCHANGED monFilter => \A x : RpcFilter(monFilter, x)' = RpcFilter(monFilter, x)
  OBVIOUS
<1>5. UNCHANGED monWire /\ IsInjective(monWire) => IsInjective(monWire)'
  BY DEF IsInjective
<1>. QED
  BY <1>1, <1>2, <1>3, <1>4, <1>5

(* What a step of the recorder does to the page: the calls only grow, and  *)
(* so does what a subscription has received.                               *)
LEMMA PageRests ==
  ASSUME MonInv, UNCHANGED monPage, Fresh', recGot' = recGot,
         recCalls \in Nat, recCalls' \in Nat, recCalls <= recCalls'
  PROVE  MonInv'
<1>1. MonTypes'
  BY DEF MonInv, MonTypes, monPage
<1>2. 1..recCalls \subseteq 1..recCalls'
  OBVIOUS
<1>3. Taken' = Taken
  BY SameTable DEF monPage
<1>4. Rows'
  BY <1>2, <1>3, RowsFollow DEF MonInv, Rows, monPage
<1>5. Wire' /\ Asked'
  BY SameTable DEF MonInv, Wire, Asked, monPage, MonitorUp
<1>6. Served'
  BY <1>3, SameTable DEF MonInv, Served, monPage
<1>7. Sheet'
  BY <1>2 DEF MonInv, Sheet, monPage
<1>. QED
  BY <1>1, <1>4, <1>5, <1>6, <1>7 DEF MonInv

LEMMA ServeStep ==
  ASSUME RecInv, MonInv, NEW s \in 1..monOpened, ServeCall(s)
  PROVE  MonInv'
<1>. DEFINE c == Head(recQueue[s])
<1>1. s \in Sub /\ s # 0
  BY Opened DEF MonInv, MonTypes
<1>2. /\ recPlace[s] = "read" /\ recQueue[s] # <<>>
      /\ recGot' = [recGot EXCEPT ![s] = Append(recGot[s], c)]
      /\ UNCHANGED <<recPlace, recCalls>>
      /\ UNCHANGED <<monSub, monOpened, monFilter, monPaused, monEvents, monIds, monSheet, monError, monGone>>
      /\ monWire' = IF s = monSub /\ RpcFilter(monFilter, c) THEN Append(monWire, c) ELSE monWire
  BY DEF ServeCall, Receive
<1>3. /\ recQueue[s] \in Seq(Nat) /\ recGot[s] \in Seq(Nat) /\ Stream(s)
  BY <1>1 DEF RecInv, RecTypes
<1>4. c \in Nat /\ c \in Range(recQueue[s])
  BY <1>2, <1>3, TailOnce
<1>5. c \in 1..recCalls /\ c \notin Range(recGot[s])
  BY <1>3, <1>4 DEF Stream, Known, Arrived, Once
<1>. HIDE DEF c
<1>6. /\ recGot'[s] = Append(recGot[s], c)
      /\ Range(recGot'[s]) = Range(recGot[s]) \cup {c}
      /\ \A t \in Sub : t # s => recGot'[t] = recGot[t]
  BY <1>1, <1>2, <1>3, <1>4, AppendOnce DEF RecInv, RecTypes
<1>7. monWire \in Seq(Nat)
  BY DEF MonInv, MonTypes
<1>8. Fresh'
  BY <1>2 DEF MonInv, Fresh
<1>9. \A x : RpcFilter(monFilter, x)' = RpcFilter(monFilter, x)
  BY <1>2, SameTable
<1>10. Sheet'
  BY <1>2 DEF MonInv, Sheet
<1>11. CASE s = monSub /\ RpcFilter(monFilter, c)
  <2>1. monWire' = Append(monWire, c)
    BY <1>2, <1>11
  <2>2. c \notin Taken /\ Taken \subseteq Range(recGot[s])
    BY <1>1, <1>5, <1>11 DEF MonInv, Served
  <2>3. /\ monWire' \in Seq(Nat) /\ Range(monWire') = Range(monWire) \cup {c}
        /\ IsInjective(monWire')
    BY <1>4, <1>7, <2>1, <2>2, AppendOnce DEF MonInv, Wire, Taken
  <2>4. Taken' = Taken \cup {c}
    BY <1>2, <2>3 DEF Taken, CallsOf
  <2>5. MonTypes'
    BY <1>2, <2>3 DEF MonInv, MonTypes
  <2>6. Rows'
    BY <1>2, <1>5, <2>4, RowsFollow DEF MonInv, Rows
  <2>7. Wire'
    BY <1>1, <1>2, <1>11, <2>2, <2>3 DEF MonInv, Wire, Taken, CallsOf
  <2>8. Asked'
    BY <1>2, <1>9, <1>11, <2>3 DEF MonInv, Asked, MonitorUp, CallsOf
  <2>9. Served'
    BY <1>2, <1>6, <1>9, <1>11, <2>4 DEF MonInv, Served
  <2>. QED
    BY <1>8, <1>10, <2>5, <2>6, <2>7, <2>8, <2>9 DEF MonInv
<1>12. CASE ~(s = monSub /\ RpcFilter(monFilter, c))
  <2>1. monWire' = monWire
    BY <1>2, <1>12
  <2>2. Taken' = Taken
    BY <1>2, <2>1, SameTable
  <2>3. MonTypes' /\ Rows'
    <3>1. MonTypes'
      BY <1>2, <2>1 DEF MonInv, MonTypes
    <3>2. Rows'
      BY <1>2, <2>2, RowsFollow DEF MonInv, Rows
    <3>. QED
      BY <3>1, <3>2
  <2>4. Wire' /\ Asked'
    BY <1>2, <2>1, SameTable DEF MonInv, Wire, Asked, MonitorUp
  <2>5. Served'
    <3>1. CASE s = monSub
      BY <1>2, <1>6, <1>9, <1>12, <2>2, <3>1 DEF MonInv, Served
    <3>2. CASE s # monSub
      <4>1. monSub # 0 => monSub \in Sub
        BY DEF MonInv, MonTypes
      <4>. QED
        BY <1>2, <1>6, <1>9, <2>2, <3>2, <4>1 DEF MonInv, Served
    <3>. QED
      BY <3>1, <3>2
  <2>. QED
    BY <1>8, <1>10, <2>3, <2>4, <2>5 DEF MonInv
<1>. QED
  BY <1>11, <1>12

LEMMA StreamEndStep ==
  ASSUME RecInv, MonInv, NEW s \in 1..monOpened, StreamEnds(s)
  PROVE  MonInv'
<1>1. /\ s \in Sub /\ s \in Nat /\ s # 0 /\ s <= monOpened
      /\ monOpened \in Nat
  BY Opened DEF MonInv, MonTypes
<1>2. /\ recPlace' = [recPlace EXCEPT ![s] = "left"]
      /\ UNCHANGED <<recGot, recCalls>>
      /\ UNCHANGED <<monOpened, monFilter, monPaused, monEvents, monIds, monSheet, monGone>>
  BY DEF StreamEnds, Leave
<1>3. \/ s = monSub /\ monSub' = 0 /\ monWire' = <<>> /\ monError' \in {"none", "error"}
      \/ UNCHANGED <<monSub, monWire, monError>>
  BY DEF StreamEnds
<1>4. \A x : RpcFilter(monFilter, x)' = RpcFilter(monFilter, x)
  BY <1>2, SameTable
<1>5. Range(monWire') \subseteq Range(monWire) /\ IsInjective(monWire')
  BY <1>3, EmptyOnce DEF MonInv, Wire
<1>6. Taken' \subseteq Taken
  BY <1>2, <1>5 DEF Taken, CallsOf
<1>7. MonTypes'
  BY <1>2, <1>3, EmptyOnce DEF MonInv, MonTypes
<1>8. Fresh'
  <2>1. \A t \in Sub : t # s => recPlace'[t] = recPlace[t]
    BY <1>1, <1>2 DEF RecInv, RecTypes
  <2>2. ASSUME NEW t \in Sub, t > monOpened PROVE recPlace'[t] = "new"
    <3>1. t # s
      BY ONLY <1>1, <2>2
    <3>. QED
      BY <2>1, <2>2, <3>1 DEF MonInv, Fresh
  <2>. QED
    BY <1>2, <2>2 DEF Fresh
<1>9. Rows' /\ Sheet'
  BY <1>2, <1>6, RowsFollow DEF MonInv, Rows, Sheet
<1>10. Wire'
  BY <1>2, <1>3, <1>5 DEF MonInv, Wire, CallsOf
<1>11. Asked'
  BY <1>1, <1>2, <1>3, <1>4, <1>5 DEF MonInv, MonTypes, Asked, MonitorUp, CallsOf
<1>12. Served'
  <2>1. CASE monSub' = 0
    BY <2>1 DEF Served
  <2>2. CASE UNCHANGED <<monSub, monWire, monError>>
    <3>1. Taken' = Taken
      BY <1>2, <2>2, SameTable
    <3>. QED
      BY <1>2, <1>4, <2>2, <3>1 DEF MonInv, Served
  <2>. QED
    BY <1>3, <2>1, <2>2
<1>. QED
  BY <1>7, <1>8, <1>9, <1>10, <1>11, <1>12 DEF MonInv

(* A step of the page alone that keeps the table.                          *)
LEMMA TableRests ==
  ASSUME MonInv, MonTypes', recCalls \in Nat,
         UNCHANGED <<recVars, monSub, monOpened, monFilter, monWire, monEvents, monIds, monError,
                     monGone>>
  PROVE  Fresh' /\ Rows' /\ Wire' /\ Asked' /\ Served'
<1>1. UNCHANGED <<recPlace, recCalls, recGot>>
  BY DEF recVars
<1>2. Taken' = Taken
  BY SameTable
<1>3. Fresh' /\ Rows'
  BY <1>1, <1>2, RowsFollow DEF MonInv, Fresh, Rows
<1>4. Wire' /\ Asked' /\ Served'
  BY <1>1, <1>2, SameTable DEF MonInv, Wire, Asked, Served, MonitorUp
<1>. QED
  BY <1>3, <1>4

LEMMA TakeStep ==
  ASSUME MonInv, recCalls \in Nat, TakeCall
  PROVE  MonInv'
<1>. DEFINE c == Head(monWire)
            e == [id |-> monIds, call |-> c]
            next == <<e>> \o monEvents
<1>1. /\ MonitorUp /\ monWire # <<>> /\ monWire' = Tail(monWire)
      /\ UNCHANGED <<recCalls, recGot, recPlace, monSub, monOpened, monFilter, monPaused, monSheet, monError>>
  BY DEF TakeCall, recVars
<1>2. \/ monGone' = monGone \cup {c} /\ UNCHANGED <<monEvents, monIds>>
      \/ /\ monIds' = monIds + 1 /\ monEvents' = Capped(next)
         /\ monGone' = IF Len(next) > BufferSize THEN monGone \cup {Last(next).call} ELSE monGone
  BY DEF TakeCall
<1>3. monWire \in Seq(Nat) /\ monEvents \in Seq(Event) /\ Len(monEvents) <= BufferSize /\ monIds \in Nat
  BY DEF MonInv, MonTypes
<1>4. /\ monWire' \in Seq(Nat) /\ c \in Nat /\ c \in Range(monWire)
      /\ Range(monWire) = Range(monWire') \cup {c}
      /\ IsInjective(monWire') /\ c \notin Range(monWire')
  BY <1>1, <1>3, TailOnce DEF MonInv, Wire
<1>5. e \in Event /\ e.call = c /\ e.id = monIds
  BY <1>3, <1>4 DEF Event
<1>6. c \in 1..recCalls /\ c \notin CallsOf(monEvents)
  BY <1>4 DEF MonInv, Rows, Wire, Taken
<1>. HIDE DEF c
<1>7. Fresh'
  BY <1>1 DEF MonInv, Fresh
<1>8. monSub # 0
  BY <1>1 DEF MonInv, Wire
<1>9. \A x : RpcFilter(monFilter, x)' = RpcFilter(monFilter, x)
  BY <1>1, SameTable
(* What every turn needs: the table follows, and the calls are kept.       *)
<1>10. ASSUME /\ monEvents' \in Seq(Event) /\ Len(monEvents') <= BufferSize
              /\ monIds' \in Nat /\ monIds <= monIds',
              CallsOf(monEvents)' \subseteq CallsOf(monEvents) \cup {c}, Taken' = Taken,
              \A i \in DOMAIN monEvents' : monEvents'[i].id < monIds',
              \A i, k \in DOMAIN monEvents' : i < k =>
                monEvents'[i].id > monEvents'[k].id /\ monEvents'[i].call # monEvents'[k].call,
              \A i \in DOMAIN monEvents' : monEvents'[i].id < monIds =>
                \E k \in DOMAIN monEvents : monEvents'[i] = monEvents[k]
       PROVE  MonInv'
  <2>1. MonTypes'
    BY <1>1, <1>4, <1>10 DEF MonInv, MonTypes
  <2>2. Rows'
    BY <1>1, <1>10 DEF MonInv, Rows
  <2>3. Wire'
    BY <1>1, <1>4, <1>8, <1>10 DEF MonInv, Wire
  <2>4. Asked'
    BY <1>1, <1>4, <1>9, <1>10 DEF MonInv, Asked, MonitorUp
  <2>5. Served'
    BY <1>1, <1>9, <1>10 DEF MonInv, Served
  <2>6. Sheet'
    <3> SUFFICES ASSUME monSheet # NoEvent
                 PROVE  /\ monSheet.id < monIds' /\ monSheet.call \in 1..recCalls
                        /\ \A i \in DOMAIN monEvents' :
                             monEvents'[i].id = monSheet.id => monEvents'[i] = monSheet
      BY <1>1 DEF Sheet
    <3>1. monSheet.id \in Nat /\ monSheet.id < monIds /\ monSheet.call \in 1..recCalls
      BY DEF MonInv, MonTypes, Sheet, Event
    <3>2. monSheet.id < monIds'
      BY <1>3, <1>10, <3>1
    <3>3. ASSUME NEW i \in DOMAIN monEvents', monEvents'[i].id = monSheet.id
          PROVE  monEvents'[i] = monSheet
      <4>1. PICK k \in DOMAIN monEvents : monEvents'[i] = monEvents[k]
        BY <1>10, <3>1, <3>3
      <4>. QED
        BY <3>3, <4>1 DEF MonInv, Sheet
    <3>. QED
      BY <3>1, <3>2, <3>3
  <2>. QED
    BY <1>7, <2>1, <2>2, <2>3, <2>4, <2>5, <2>6 DEF MonInv
<1>11. CASE monGone' = monGone \cup {c} /\ UNCHANGED <<monEvents, monIds>>
  <2>1. CallsOf(monEvents)' = CallsOf(monEvents)
    BY <1>11, SameTable
  <2>2. Taken' = Taken
    BY <1>4, <1>11, <2>1 DEF Taken
  <2>3. monIds <= monIds'
    BY <1>3, <1>11
  <2>. QED
    BY <1>3, <1>10, <1>11, <2>1, <2>2, <2>3 DEF MonInv, Rows
<1>12. CASE /\ monIds' = monIds + 1 /\ monEvents' = Capped(next)
            /\ monGone' = IF Len(next) > BufferSize THEN monGone \cup {Last(next).call} ELSE monGone
  <2>. HIDE DEF e, next
  <2>1. /\ monEvents' \in Seq(Event) /\ Len(monEvents') <= BufferSize
        /\ \A i \in DOMAIN monEvents' :
             \/ i = 1 /\ monEvents'[i] = e
             \/ i > 1 /\ i - 1 \in DOMAIN monEvents /\ monEvents'[i] = monEvents[i - 1]
        /\ Len(next) > BufferSize =>
             /\ Last(next).call \in CallsOf(monEvents) \cup {e.call}
             /\ CallsOf(monEvents) \cup {e.call} \subseteq CallsOf(monEvents') \cup {Last(next).call}
        /\ Len(next) <= BufferSize => CallsOf(monEvents) \cup {e.call} \subseteq CallsOf(monEvents')
    <3>1. next = <<e>> \o monEvents
      BY DEF next
    <3>2. /\ monEvents \in Seq(Event) /\ Len(monEvents) <= BufferSize /\ e \in Event
          /\ monEvents' = Capped(next)
      BY <1>3, <1>5, <1>12
    <3>3. RowOnTop(monEvents, e, next, monEvents')
      BY ONLY <3>1, <3>2, TableStep
    <3>. QED
      BY ONLY <3>3 DEF RowOnTop
  <2>2. DOMAIN monEvents = 1..Len(monEvents) /\ Len(monEvents) \in Nat /\ DOMAIN monEvents' = 1..Len(monEvents')
    BY <1>3, <2>1, LenProperties
  <2>3. CallsOf(monEvents') \subseteq CallsOf(monEvents) \cup {c}
    BY <1>5, <2>1 DEF CallsOf
  <2>4. Taken' = Taken
    <3>1. Taken' = CallsOf(monEvents') \cup Range(monWire') \cup monGone'
      BY DEF Taken
    <3>2. CASE Len(next) > BufferSize
      BY <1>4, <1>5, <1>12, <2>1, <2>3, <3>1, <3>2 DEF Taken
    <3>3. CASE ~(Len(next) > BufferSize)
      <4>1. Len(next) <= BufferSize /\ monGone' = monGone
        <5>1. next \in Seq(Event)
          BY <1>3, <1>5, ConcatProperties DEF next
        <5>. QED
          BY <1>12, <3>3, <5>1, LenProperties, MonitorAssumption DEF MonitorAssumption
      <4>. QED
        BY <1>4, <1>5, <2>1, <2>3, <3>1, <4>1 DEF Taken
    <3>. QED
      BY <3>2, <3>3
  <2>5. \A k \in DOMAIN monEvents : monEvents[k].id \in Nat /\ monEvents[k].id < monIds
    <3>1. \A k \in 1..Len(monEvents) : monEvents[k] \in Event
      BY <1>3, ElementOfSeq
    <3>. QED
      BY <2>2, <3>1 DEF MonInv, Rows, Event
  <2>6. \A i \in DOMAIN monEvents' : monEvents'[i].id < monIds'
    <3>1. ASSUME NEW i \in DOMAIN monEvents' PROVE monEvents'[i].id < monIds'
      <4>1. CASE monEvents'[i] = e
        BY <1>3, <1>5, <1>12, <4>1
      <4>2. CASE i - 1 \in DOMAIN monEvents /\ monEvents'[i] = monEvents[i - 1]
        BY <1>3, <1>12, <2>5, <4>2
      <4>. QED
        BY <2>1, <4>1, <4>2
    <3>. QED
      BY <3>1
  <2>7. ASSUME NEW i \in DOMAIN monEvents', NEW k \in DOMAIN monEvents', i < k
        PROVE  monEvents'[i].id > monEvents'[k].id /\ monEvents'[i].call # monEvents'[k].call
    <3>1. k > 1 /\ k - 1 \in DOMAIN monEvents /\ monEvents'[k] = monEvents[k - 1]
      BY <2>1, <2>2, <2>7
    <3>2. CASE i = 1 /\ monEvents'[i] = e
      <4>1. monEvents[k - 1].call \in CallsOf(monEvents)
        BY <3>1 DEF CallsOf
      <4>. QED
        BY <1>3, <1>5, <1>6, <2>5, <3>1, <3>2, <4>1
    <3>3. CASE i > 1 /\ i - 1 \in DOMAIN monEvents /\ monEvents'[i] = monEvents[i - 1]
      <4>1. i - 1 < k - 1
        BY <2>2, <2>7
      <4>. QED
        BY <3>1, <3>3, <4>1 DEF MonInv, Rows
    <3>. QED
      BY <2>1, <3>2, <3>3
  <2>8. ASSUME NEW i \in DOMAIN monEvents', monEvents'[i].id < monIds
        PROVE  \E k \in DOMAIN monEvents : monEvents'[i] = monEvents[k]
    BY <1>3, <1>5, <2>1, <2>8
  <2>9. monIds' \in Nat /\ monIds <= monIds'
    BY <1>3, <1>12
  <2>. QED
    BY <1>10, <2>1, <2>3, <2>4, <2>6, <2>7, <2>8, <2>9
<1>. QED
  BY <1>2, <1>11, <1>12

LEMMA EmptyTable ==
  /\ CallsOf(<<>>) = {} /\ DOMAIN <<>> = {}
  /\ <<>> \in Seq(Event) /\ Len(<<>>) <= BufferSize
<1>1. BufferSize \in Nat
  BY MonitorAssumption DEF MonitorAssumption
<1>. QED
  BY <1>1 DEF CallsOf

(* The other steps of the page.                                            *)
LEMMA UserStep ==
  ASSUME RecInv, MonInv,
         \/ \E f \in MonitorFilters : ChangeFilter(f)
         \/ TogglePause \/ ClearTable \/ CloseSheet
         \/ \E i \in DOMAIN monEvents : SelectRow(i)
  PROVE  MonInv'
<1>1. /\ recCalls \in Nat /\ MonTypes /\ DOMAIN monEvents = 1..Len(monEvents)
  BY LenProperties DEF RecInv, RecTypes, MonInv, MonTypes
<1>2. ASSUME NEW f \in MonitorFilters, ChangeFilter(f) PROVE MonInv'
  <2>1. /\ monFilter' = f /\ monWire' = <<>>
        /\ UNCHANGED <<recCalls, recGot, recPlace, monPaused, monIds, monSheet>>
        /\ NextSub \in Sub
    BY <1>2 DEF ChangeFilter, recVars
  <2>2. \/ /\ monError' = "crashed" /\ monSub' = 0
           /\ UNCHANGED <<monOpened, monEvents, monGone>>
        \/ /\ monError' = "none" /\ monSub' = monOpened + 1 /\ monOpened' = monOpened + 1
           /\ monEvents' = <<>> /\ monGone' = {}
    BY <1>2 DEF ChangeFilter, NextSub
  <2>3. /\ monOpened \in Nat /\ monOpened # 0 /\ monOpened' >= monOpened
        /\ \A s \in Sub : s \in Nat
    <3>1. monOpened \in Nat /\ monOpened # 0 /\ \A s \in Sub : s \in Nat
      BY <1>1, Opened DEF MonTypes
    <3>. QED
      BY ONLY <2>2, <3>1
  <2>4. /\ CallsOf(<<>>) = {} /\ Range(monWire') = {} /\ IsInjective(monWire')
        /\ DOMAIN <<>> = {} /\ <<>> \in Seq(Event) /\ Len(<<>>) <= BufferSize
    BY <2>1, EmptyOnce, EmptyTable
  <2>5. Fresh'
    <3>1. ASSUME NEW s \in Sub, s > monOpened' PROVE s > monOpened
      <4>1. monOpened' \in Nat
        BY <2>2, <2>3
      <4>. QED
        BY ONLY <2>3, <3>1, <4>1
    <3>. QED
      BY <2>1, <3>1 DEF MonInv, Fresh
  <2>6. CASE /\ monError' = "crashed" /\ monSub' = 0
             /\ UNCHANGED <<monOpened, monEvents, monGone>>
    <3>1. CallsOf(monEvents)' = CallsOf(monEvents)
      BY <2>6, SameTable
    <3>2. Taken' \subseteq 1..recCalls'
      BY <2>1, <2>4, <2>6, <3>1 DEF MonInv, Rows, Taken
    <3>3. MonTypes'
      BY <1>1, <2>1, <2>6, EmptyOnce DEF MonTypes
    <3>4. Rows'
      BY <2>1, <2>6, <3>2, RowsFollow DEF MonInv
    <3>5. Wire' /\ Asked' /\ Served'
      BY <2>1, <2>4, <2>6 DEF Wire, Asked, Served, MonitorUp
    <3>6. Sheet'
      BY <2>1, <2>6 DEF MonInv, Sheet
    <3>. QED
      BY <2>5, <3>3, <3>4, <3>5, <3>6 DEF MonInv
  <2>7. CASE /\ monError' = "none" /\ monSub' = monOpened + 1 /\ monOpened' = monOpened + 1
             /\ monEvents' = <<>> /\ monGone' = {}
    <3>1. CallsOf(monEvents)' = {} /\ Taken' = {}
      BY <2>4, <2>7 DEF Taken
    <3>2. MonTypes'
      BY <1>1, <2>1, <2>4, <2>7, EmptyOnce DEF MonTypes, NextSub
    <3>3. Rows'
      BY <2>1, <2>4, <2>7, <3>1 DEF Rows
    <3>4. Wire' /\ Asked'
      BY <2>1, <2>3, <2>4, <2>7, <3>1 DEF Wire, Asked
    <3>5. Served'
      <4>1. recPlace[monOpened + 1] = "new"
        BY <1>1, <2>1, <2>3 DEF MonInv, Fresh, NextSub
      <4>2. Range(recGot[monOpened + 1]) = {}
        BY <2>1, <4>1, EmptyOnce DEF RecInv, Places, NextSub
      <4>. QED
        BY <2>1, <2>7, <3>1, <4>2 DEF Served
    <3>6. Sheet'
      BY <2>1, <2>4, <2>7 DEF MonInv, Sheet
    <3>. QED
      BY <2>5, <3>2, <3>3, <3>4, <3>5, <3>6 DEF MonInv
  <2>. QED
    BY <2>2, <2>6, <2>7
<1>3. ASSUME TogglePause PROVE MonInv'
  <2>1. MonTypes' /\ Sheet'
    BY <1>3 DEF MonInv, MonTypes, Sheet, TogglePause, recVars
  <2>2. UNCHANGED <<recVars, monSub, monOpened, monFilter, monWire, monEvents, monIds, monError, monGone>>
    BY <1>3 DEF TogglePause
  <2>. QED
    BY <1>1, <2>1, <2>2, TableRests DEF MonInv
<1>4. ASSUME ClearTable PROVE MonInv'
  <2>1. /\ monEvents' = <<>> /\ monGone' = monGone \cup CallsOf(monEvents)
        /\ UNCHANGED <<recCalls, recGot, recPlace, monSub, monOpened, monFilter, monWire, monPaused,
                       monIds, monSheet, monError>>
    BY <1>4 DEF ClearTable, recVars
  <2>2. /\ CallsOf(<<>>) = {} /\ DOMAIN <<>> = {}
        /\ <<>> \in Seq(Event) /\ Len(<<>>) <= BufferSize
    BY EmptyTable
  <2>3. CallsOf(monEvents)' = {} /\ Range(monWire)' = Range(monWire)
    BY <2>1, <2>2, SameTable
  <2>4. Taken' = Taken
    BY <2>1, <2>3 DEF Taken
  <2>5. MonTypes'
    BY <1>1, <2>1, <2>2 DEF MonTypes
  <2>6. Fresh' /\ Rows'
    BY <2>1, <2>2, <2>4 DEF MonInv, Fresh, Rows
  <2>7. Wire' /\ Asked'
    BY <2>1, <2>3, SameTable DEF MonInv, Wire, Asked, MonitorUp
  <2>8. Served'
    BY <2>1, <2>4, SameTable DEF MonInv, Served
  <2>9. Sheet'
    BY <2>1, <2>2 DEF MonInv, Sheet
  <2>. QED
    BY <2>5, <2>6, <2>7, <2>8, <2>9 DEF MonInv
<1>5. ASSUME NEW i \in DOMAIN monEvents, SelectRow(i) PROVE MonInv'
  <2>1. /\ monSheet' = monEvents[i]
        /\ UNCHANGED <<recVars, monSub, monOpened, monFilter, monWire, monEvents, monIds, monError,
                       monGone, monPaused>>
    BY <1>5 DEF SelectRow
  <2>2. /\ monEvents[i] \in Event
        /\ monEvents[i].call \in CallsOf(monEvents)
        /\ \A k \in DOMAIN monEvents : monEvents[k].id \in Nat
    <3>1. \A k \in 1..Len(monEvents) : monEvents[k] \in Event
      BY <1>1, ElementOfSeq DEF MonTypes
    <3>. QED
      BY <1>1, <3>1 DEF Event, CallsOf
  <2>3. MonTypes'
    BY <1>1, <2>1, <2>2 DEF MonTypes
  <2>4. ASSUME NEW k \in DOMAIN monEvents, monEvents[k].id = monEvents[i].id PROVE k = i
    <3>1. ~(k < i) /\ ~(i < k)
      BY <2>2, <2>4 DEF MonInv, Rows
    <3>. QED
      BY <1>1, <3>1
  <2>5. Sheet'
    <3>1. monEvents[i].id < monIds /\ monEvents[i].call \in 1..recCalls
      BY <2>2 DEF MonInv, Rows, Taken
    <3>. QED
      BY <2>1, <2>4, <3>1 DEF Sheet, recVars
  <2>. QED
    BY <1>1, <2>1, <2>3, <2>5, TableRests DEF MonInv
<1>6. ASSUME CloseSheet PROVE MonInv'
  <2>1. /\ monSheet' = NoEvent
        /\ UNCHANGED <<recVars, monSub, monOpened, monFilter, monWire, monEvents, monIds, monError,
                       monGone, monPaused>>
    BY <1>6 DEF CloseSheet
  <2>2. MonTypes' /\ Sheet'
    BY <1>1, <2>1 DEF MonTypes, Sheet, NoEvent, Event
  <2>. QED
    BY <1>1, <2>1, <2>2, TableRests DEF MonInv
<1>. QED
  BY <1>2, <1>3, <1>4, <1>5, <1>6

MonitorInv == RecInv /\ RecBounds /\ MonInv

LEMMA MonitorInvInit == MonitorInit => MonitorInv
<1> SUFFICES ASSUME MonitorInit PROVE MonitorInv
  OBVIOUS
<1>1. RecInit /\ RecInv
  BY RecInvInit DEF MonitorInit
<1>2. RecBounds
  BY <1>1, RecorderAssumption DEF RecInit, RecBounds, RecorderAssumption
<1>3. 1 \in Sub /\ Sub \subseteq Nat
  BY MonitorAssumption DEF MonitorAssumption
<1>4. /\ CallsOf(<<>>) = {} /\ DOMAIN <<>> = {}
      /\ <<>> \in Seq(Event) /\ Len(<<>>) <= BufferSize
  BY EmptyTable
<1>5. MonTypes
  BY <1>3, <1>4, EmptyOnce DEF MonitorInit, MonTypes, NoEvent, Event
<1>6. Taken = {}
  BY <1>4, EmptyOnce DEF MonitorInit, Taken
<1>7. recPlace = [s \in Sub |-> "new"] /\ recGot[1] = <<>>
  BY <1>1, <1>3 DEF RecInit
<1>8. Fresh /\ Rows /\ Wire /\ Asked /\ Served /\ Sheet
  BY <1>4, <1>6, <1>7, EmptyOnce DEF MonitorInit, Fresh, Rows, Wire, Asked, Served, Sheet
<1>. QED
  BY <1>1, <1>2, <1>5, <1>8 DEF MonitorInv, MonInv

LEMMA MonitorInvStep ==
  ASSUME MonitorInv, [MonitorNext]_monitorVars
  PROVE  MonitorInv'
<1>1. RecInv /\ RecBounds /\ MonInv
  BY DEF MonitorInv
<1>2. monOpened \in Sub
  BY <1>1 DEF MonInv, MonTypes
<1>3. RecStep
  BY <1>2, MonitorSteps
<1>4. RecInv' /\ RecBounds' /\ recCalls \in Nat /\ recCalls' \in Nat /\ recCalls <= recCalls'
  BY <1>1, <1>3, RecInvStep, RecBoundsStep
<1>5. ASSUME NEW p \in Producer, Push(p) \/ Deliveries(p), UNCHANGED monPage PROVE MonInv'
  <2>1. recGot' = recGot /\ recPlace' = recPlace
    BY <1>5 DEF Push, Deliveries, PushDone, Deliver, SendOnClosed, recSubs
  <2>2. Fresh'
    BY <1>1, <1>5, <2>1 DEF MonInv, Fresh, monPage
  <2>. QED
    BY <1>1, <1>4, <1>5, <2>1, <2>2, PageRests
<1>6. ASSUME NEW s \in 1..monOpened, Subscribe(s) \/ ReplayOne(s) \/ ReplayDone(s), UNCHANGED monPage
      PROVE  MonInv'
  <2>1. /\ recGot' = recGot
        /\ \/ recPlace' = recPlace
           \/ \E w \in {"replay", "read"} : recPlace' = [recPlace EXCEPT ![s] = w]
    BY <1>6 DEF Subscribe, ReplayOne, ReplayDone
  <2>2. s \in Sub /\ s \in Nat /\ s <= monOpened /\ monOpened \in Nat
    BY <1>2, Opened
  <2>3. ASSUME NEW t \in Sub, t > monOpened PROVE recPlace'[t] = "new"
    <3>1. t # s
      BY ONLY <2>2, <2>3
    <3>2. recPlace'[t] = recPlace[t]
      BY <1>1, <2>1, <3>1 DEF RecInv, RecTypes
    <3>. QED
      BY <1>1, <2>3, <3>2 DEF MonInv, Fresh
  <2>4. Fresh'
    BY <1>6, <2>3 DEF Fresh, monPage
  <2>. QED
    BY <1>1, <1>4, <1>6, <2>1, <2>4, PageRests
<1>7. ASSUME NEW s \in 1..monOpened, ServeCall(s) \/ StreamEnds(s) PROVE MonInv'
  BY <1>1, <1>7, ServeStep, StreamEndStep
<1>8. ASSUME TakeCall PROVE MonInv'
  BY <1>1, <1>4, <1>8, TakeStep
<1>9. ASSUME \/ \E f \in MonitorFilters : ChangeFilter(f)
             \/ TogglePause \/ ClearTable \/ CloseSheet
             \/ \E i \in DOMAIN monEvents : SelectRow(i)
      PROVE  MonInv'
  BY <1>1, <1>9, UserStep
<1>10. ASSUME UNCHANGED monitorVars PROVE MonInv'
  <2>1. UNCHANGED monPage /\ UNCHANGED <<recGot, recPlace>>
    BY <1>10 DEF monitorVars, recVars
  <2>2. Fresh'
    BY <1>1, <2>1 DEF MonInv, Fresh, monPage
  <2>. QED
    BY <1>1, <1>4, <2>1, <2>2, PageRests
<1>11. MonInv'
  BY <1>5, <1>6, <1>7, <1>8, <1>9, <1>10 DEF MonitorNext
<1>. QED
  BY <1>4, <1>11 DEF MonitorInv

LEMMA MonitorInvHolds == MonitorSpec => []MonitorInv
BY MonitorInvInit, MonitorInvStep, PTL DEF MonitorSpec

-----------------------------------------------------------------------------
(* What the invariant says of the page and of the recorder.                *)

LEMMA SeqOver ==
  ASSUME NEW s \in Seq(Nat), NEW S, Range(s) \subseteq S
  PROVE  /\ s \in Seq(S)
         /\ \A n \in Nat : Len(s) <= n => s \in BoundedSeq(S, n)
<1>1. DOMAIN s = 1..Len(s) /\ Len(s) \in Nat /\ s = [i \in 1..Len(s) |-> s[i]]
  BY LenProperties
<1>2. \A i \in 1..Len(s) : s[i] \in S
  BY <1>1 DEF Range
<1>3. s \in [1..Len(s) -> S]
  BY <1>1, <1>2
<1>4. s \in Seq(S)
  BY <1>1, <1>3, SeqDef
<1>5. ASSUME NEW n \in Nat, Len(s) <= n PROVE s \in BoundedSeq(S, n)
  <2>1. Len(s) \in 0..n
    BY <1>1, <1>5
  <2>. QED
    BY <1>3, <2>1 DEF BoundedSeq, SeqOf
<1>. QED
  BY <1>4, <1>5

LEMMA RecorderTyped ==
  ASSUME RecInv, RecBounds
  PROVE  RecTypeOK /\ 1..recCalls \subseteq 1..MaxCalls
<1>. USE RecorderAssumption DEF RecorderAssumption
<1>1. RecTypes /\ Flight /\ Places /\ RingIsRecent /\ recCalls \in Nat /\ recCalls <= MaxCalls
  BY DEF RecInv, RecTypes, RecBounds
<1>2. 1..recCalls \subseteq 1..MaxCalls
  BY <1>1
<1>3. recBuf \in Seq(1..MaxCalls)
  <2>1. DOMAIN recBuf = 1..Len(recBuf) /\ Len(recBuf) \in Nat /\ Len(recBuf) <= recCalls
    BY <1>1, LenProperties DEF RecTypes, RingIsRecent
  <2>2. ASSUME NEW i \in DOMAIN recBuf PROVE recBuf[i] \in 1..recCalls
    <3>1. recBuf[i] = recCalls - Len(recBuf) + i
      BY <1>1 DEF RingIsRecent
    <3>. QED
      BY <1>1, <2>1, <3>1
  <2>3. Range(recBuf) \subseteq 1..MaxCalls
    BY <1>2, <2>2 DEF Range
  <2>. QED
    BY <1>1, <2>3, SeqOver DEF RecTypes
<1>4. ASSUME NEW s \in Sub
      PROVE  /\ recQueue[s] \in BoundedSeq(1..MaxCalls, ChanSize)
             /\ recReplay[s] \in BoundedSeq(1..MaxCalls, Cap)
             /\ recGot[s] \in Seq(1..MaxCalls)
  <2>1. /\ Range(recQueue[s]) \subseteq 1..MaxCalls /\ Range(recReplay[s]) \subseteq 1..MaxCalls
        /\ Range(recGot[s]) \subseteq 1..MaxCalls
    BY <1>2 DEF RecInv, Stream, Known, Arrived
  <2>2. recQueue[s] \in Seq(Nat) /\ recReplay[s] \in Seq(Nat) /\ recGot[s] \in Seq(Nat)
    BY <1>1 DEF RecTypes
  <2>3. Len(recQueue[s]) <= ChanSize /\ Len(recReplay[s]) <= Cap
    BY DEF RecBounds
  <2>. QED
    BY <2>1, <2>2, <2>3, SeqOver
<1>5. /\ recQueue \in [Sub -> BoundedSeq(1..MaxCalls, ChanSize)]
      /\ recReplay \in [Sub -> BoundedSeq(1..MaxCalls, Cap)]
      /\ recGot \in [Sub -> Seq(1..MaxCalls)]
  BY <1>1, <1>4 DEF RecTypes
<1>6. recPushing \in [Producer -> [call : 0..MaxCalls, to : SUBSET Sub]]
  <2>1. ASSUME NEW p \in Producer PROVE recPushing[p] \in [call : 0..MaxCalls, to : SUBSET Sub]
    <3>1. recPushing[p] \in [call : Nat, to : SUBSET Sub] /\ recPushing[p].call <= recCalls
      BY <1>1 DEF RecTypes, Flight
    <3>2. recPushing[p].call \in 0..MaxCalls
      BY <1>1, <3>1
    <3>. QED
      BY <3>1, <3>2
  <2>. QED
    BY <1>1, <2>1 DEF RecTypes
<1>7. recDropped \in [Sub -> SUBSET (1..MaxCalls)] /\ recPanicked \subseteq 1..MaxCalls
  BY <1>1, <1>2 DEF RecTypes, RecBounds
<1>8. recRegistered \subseteq {s \in Sub : recPlace[s] \in {"replay", "read"}}
  BY <1>1 DEF RecTypes, Places
<1>9. recClosed \subseteq {s \in Sub : recPlace[s] = "left"}
  BY DEF RecBounds
<1>10. recCalls \in 0..MaxCalls /\ recPlace \in [Sub -> {"new", "replay", "read", "left"}]
  BY <1>1 DEF RecTypes
<1>. QED
  BY <1>2, <1>3, <1>5, <1>6, <1>7, <1>8, <1>9, <1>10 DEF RecTypeOK

(* The recorder and the page stay in their sets: no channel over its       *)
(* capacity, only open ones registered, no row under a key not yet given   *)
(* out (recorder.go, rpc-monitor.tsx).                                     *)
THEOREM MonitorTypeHolds == MonitorSpec => []MonitorTypeOK
<1>1. MonitorInv => MonitorTypeOK
  <2> SUFFICES ASSUME MonitorInv PROVE MonitorTypeOK
    OBVIOUS
  <2>1. RecTypeOK /\ 1..recCalls \subseteq 1..MaxCalls
    BY RecorderTyped DEF MonitorInv
  <2>2. MonTypes /\ Rows /\ Sheet /\ Taken \subseteq 1..MaxCalls
    BY <2>1 DEF MonitorInv, MonInv, Rows
  <2>3. monWire \in Seq(1..MaxCalls) /\ monGone \subseteq 1..MaxCalls
    BY <2>2, SeqOver DEF MonTypes, Taken
  <2>4. monEvents \in Seq([id : 0..monIds, call : 1..MaxCalls])
    <3>1. /\ DOMAIN monEvents = 1..Len(monEvents) /\ Len(monEvents) \in Nat
          /\ \A i \in 1..Len(monEvents) : monEvents[i] \in Event
          /\ monEvents = [i \in 1..Len(monEvents) |-> monEvents[i]]
      BY <2>2, LenProperties, ElementOfSeq DEF MonTypes
    <3>2. ASSUME NEW i \in 1..Len(monEvents)
          PROVE  monEvents[i] \in [id : 0..monIds, call : 1..MaxCalls]
      <4>1. monEvents[i].call \in 1..MaxCalls
        BY <2>2, <3>1 DEF Taken, CallsOf
      <4>2. monEvents[i].id \in Nat /\ monEvents[i].id < monIds /\ monIds \in Nat
        BY <2>2, <3>1 DEF MonTypes, Rows, Event
      <4>3. monEvents[i].id \in 0..monIds
        BY <4>2
      <4>. QED
        BY <3>1, <4>1, <4>3 DEF Event
    <3>3. monEvents \in [1..Len(monEvents) -> [id : 0..monIds, call : 1..MaxCalls]]
      BY <3>1, <3>2
    <3>. QED
      BY <3>1, <3>3, SeqDef
  <2>5. monSheet \in [id : Nat, call : 0..MaxCalls]
    <3>1. monSheet \in Event /\ MaxCalls \in Nat
      BY <2>2, RecorderAssumption DEF MonTypes, RecorderAssumption
    <3>2. CASE monSheet = NoEvent
      BY <3>1, <3>2 DEF NoEvent
    <3>3. CASE monSheet # NoEvent
      <4>1. monSheet.call \in 1..MaxCalls
        BY <2>1, <2>2, <3>3 DEF Sheet
      <4>. QED
        BY <3>1, <4>1 DEF Event
    <3>. QED
      BY <3>2, <3>3
  <2>. QED
    BY <2>1, <2>2, <2>3, <2>4, <2>5 DEF MonitorTypeOK, MonTypes
<1>. QED
  BY <1>1, MonitorInvHolds, PTL

(* The table shows what the filters ask for, once each, and nothing of a   *)
(* subscription given up; and every call asked for is in it or on its way, *)
(* unless it was dropped, paused away, cleared or pushed out; whatever is  *)
(* typed, clicked, pushed and dropped meanwhile (rpc-monitor.tsx over      *)
(* recorder.go).                                                           *)
THEOREM MonitorShowsItHolds == MonitorSpec => []MonitorShowsIt
<1>1. MonitorInv => MonitorShowsIt
  <2> SUFFICES ASSUME MonitorInv PROVE MonitorShowsIt
    OBVIOUS
  <2>1. RecInv /\ MonInv
    BY DEF MonitorInv
  <2>2. TableFollowsFilter
    <3> SUFFICES ASSUME MonitorUp PROVE TableFollowsFilter
      BY DEF TableFollowsFilter
    <3>1. \A e \in Range(monEvents) : e.call \in CallsOf(monEvents)
      BY DEF Range, CallsOf
    <3>2. \A e \in Range(monEvents) : RpcFilter(monFilter, e.call)
      BY <2>1, <3>1 DEF MonInv, Asked
    <3>3. \A i, k \in DOMAIN monEvents : i < k =>
            monEvents[i].id > monEvents[k].id /\ monEvents[i].call # monEvents[k].call
      BY <2>1 DEF MonInv, Rows
    <3>4. ASSUME NEW i \in DOMAIN monEvents, RpcRow(i).selected
          PROVE  EventDetails = [call |-> RpcRow(i).call, error |-> RpcRow(i).failed]
      <4>1. monSheet = monEvents[i]
        BY <2>1, <3>4 DEF MonInv, Sheet, RpcRow
      <4>. QED
        BY <4>1 DEF RpcRow, EventDetails
    <3>. QED
      BY <3>2, <3>3, <3>4 DEF TableFollowsFilter
  <2>3. ASSUME monSub # 0, NEW c \in recFirst[monSub]..recCalls,
               recPlace[monSub] \in {"replay", "read"}, RpcFilter(monFilter, c)
        PROVE  \/ c \in Taken
               \/ c \in Range(recQueue[monSub]) \cup Range(recReplay[monSub]) \cup ComingTo(monSub)
               \/ c \in recDropped[monSub] \cup recPanicked
    <3>1. monSub \in Sub
      BY <2>1, <2>3 DEF MonInv, MonTypes
    <3>2. c \in Arrived(monSub) \cup ComingTo(monSub) \cup recDropped[monSub] \cup recPanicked
      BY <2>1, <2>3, <3>1 DEF RecInv, Stream, Accounted
    <3>. QED
      BY <2>1, <2>3, <3>2 DEF Arrived, MonInv, Served
  <2>4. MonitorMissesNothing
    BY <2>3 DEF MonitorMissesNothing, Taken
  <2>. QED
    BY <2>2, <2>4 DEF MonitorShowsIt
<1>. QED
  BY <1>1, MonitorInvHolds, PTL
=============================================================================
