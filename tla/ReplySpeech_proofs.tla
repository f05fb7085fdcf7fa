-------------------------- MODULE ReplySpeech_proofs --------------------------
(***************************************************************************)
(* Proofs about ReplySpeech: its types, whose turn the voice has, and who  *)
(* answers for a temporary audio file.                                     *)
(*                                                                         *)
(* The handlers are functions of the record ui that call each other, so    *)
(* the invariant is stated of any record u and any queue of signals ev,    *)
(* and each function has lemmas that say what it does to that invariant.   *)
(***************************************************************************)
EXTENDS ReplySpeech, SequenceTheorems, WellFoundedInduction, TLAPS

(* Where the work on a segment may be: the request queue, the thread, a result
   that is signalled, a handle, the play list, the player. *)
Working(u) == IF u.stage \in {"begin", "made"} THEN {u.active} \ {None} ELSE {}

Coming(ev) == {s \in Segment : \E i \in DOMAIN ev : ev[i] \in {<<"audio", s>>, <<"ahead", s>>}}

Playing(u) == {u.audio} \ {None}

Live(u, ev) ==
  Range(u.requests) \cup Working(u) \cup Coming(ev) \cup u.ready \cup Range(u.list) \cup Playing(u)

(* The segments whose work has failed, was skipped or is over *)
Signalled(ev) ==
  {s \in Segment : \E i \in DOMAIN ev :
     ev[i] \in {<<"aheadFailed", s>>, <<"aheadSkipped", s>>, <<"finished", s>>}}

Over(u, ev) ==
  Signalled(ev) \cup u.failed \cup (IF u.stage = "none" THEN {u.active} \ {None} ELSE {})

Touched(u, ev) == Live(u, ev) \cup Over(u, ev) \cup u.ahead

Batched(u) == UNION {Range(u.batches[b]) : b \in DOMAIN u.batches}

(* What will be spoken: neither prepared only nor given up. *)
Bound(u, ev) == {s \in Live(u, ev) : s \in u.ahead => s \in u.wanted}

-----------------------------------------------------------------------------
(* The parts of the inductive invariant. *)

(* A segment is at one place only. *)
Places(u, ev) ==
  /\ IsInjective(u.requests) /\ IsInjective(u.list)
  /\ Range(u.requests) \cap (Working(u) \cup Coming(ev) \cup u.ready \cup Range(u.list) \cup Playing(u)) = {}
  /\ Working(u) \cap (Coming(ev) \cup u.ready \cup Range(u.list) \cup Playing(u)) = {}
  /\ Coming(ev) \cap (u.ready \cup Range(u.list) \cup Playing(u)) = {}
  /\ u.ready \cap (Range(u.list) \cup Playing(u)) = {}
  /\ Range(u.list) \cap Playing(u) = {}
  /\ Live(u, ev) \cap Over(u, ev) = {}

(* A result is signalled once, and as what it was asked for. *)
Results(u, ev) ==
  \A i \in DOMAIN ev :
    /\ ev[i][1] = "audio" => ev[i][2] \notin u.ahead
    /\ ev[i][1] \in {"ahead", "aheadFailed", "aheadSkipped"} => ev[i][2] \in u.ahead
    /\ \A j \in DOMAIN ev :
         /\ ev[i][1] \in {"audio", "ahead"} /\ ev[j][1] \in {"audio", "ahead"}
         /\ ev[i][2] = ev[j][2]
         => i = j

(* The segments that wait for their turn are different ones. *)
Order(u) ==
  /\ IsInjective(u.pending)
  /\ Range(u.pending) \cap Batched(u) = {}
  /\ u.current \notin Range(u.pending) \cup Batched(u)
  /\ Range(u.pending) \cup Batched(u) \subseteq 1 .. u.shown
  /\ u.current <= u.shown
  /\ \A b \in DOMAIN u.batches : u.batches[b] # <<>> /\ IsInjective(u.batches[b])
  /\ \A b, c \in DOMAIN u.batches : b # c => Range(u.batches[b]) \cap Range(u.batches[c]) = {}

(* Nothing was asked for a segment before its turn, the next one excepted. *)
Fresh(u, ev) ==
  /\ Touched(u, ev) \subseteq 1 .. u.shown
  /\ Batched(u) \cap Touched(u, ev) = {}
  /\ \A i \in DOMAIN u.pending : i # 1 => u.pending[i] \notin Touched(u, ev)

(* A handle that is not cancelled is the one the controller holds until it is
   asked to be played. *)
Handles(u, ev) ==
  /\ u.wanted \cup u.cancelled \cup u.failed \cup u.ready \subseteq u.ahead
  /\ u.handle # None => u.handle \in u.ahead \ (u.wanted \cup u.cancelled)
  /\ u.wanted \cap u.cancelled = {}
  /\ (Live(u, ev) \cap u.ahead) \ u.wanted \subseteq u.cancelled \cup {u.handle}
  /\ Range(u.list) \cup Playing(u) \subseteq Bound(u, ev)

(* What will be spoken is the segment in the bubble, which waits for it. *)
Turn(u, ev) ==
  /\ \A s \in Bound(u, ev) : s \in u.stale \/ (s = u.current /\ ~u.ttsDone)
  /\ (u.current = None \/ u.advancing) => u.ttsDone
  /\ u.begun => u.audio # None

(* Whose a file is, of any record and queue; X is what a handler has at hand. *)
FilesBut(u, ev, X) ==
  \A s \in u.files \ X :
    \/ u.active = s /\ u.stage = "made"
    \/ \E i \in DOMAIN ev : ev[i] \in {<<"audio", s>>, <<"ahead", s>>, <<"cleanup", s>>}
    \/ s \in u.ready /\ u.handle = s
    \/ s \in Range(u.list)
    \/ u.audio = s

Sound(u, ev) ==
  /\ u \in UiState /\ ev \in Seq(Signals \X Segment)
  /\ Places(u, ev) /\ Results(u, ev) /\ Order(u) /\ Fresh(u, ev)
  /\ Handles(u, ev) /\ Turn(u, ev)

Core(u, ev) == Sound(u, ev) /\ FilesBut(u, ev, {})

(* The handle is that of the next segment, *)
HandleNext(u) == u.handle # None => u.pending # <<>> /\ u.handle = Head(u.pending)

(* which has not been touched otherwise, while the provider is in use. *)
NextFresh(u, ev) ==
  u.pending # <<>> => \/ Head(u.pending) \notin Touched(u, ev)
                      \/ Head(u.pending) = u.handle
                      \/ u.voice = "off"

Whole(u, ev) == Core(u, ev) /\ HandleNext(u) /\ NextFresh(u, ev)

IInv == Whole(ui, events)

-----------------------------------------------------------------------------
(* Two records that agree on all that Core speaks of *)
Alike(u, v) ==
  /\ v.pending = u.pending /\ v.batches = u.batches /\ v.current = u.current
  /\ v.shown = u.shown /\ v.ttsDone = u.ttsDone /\ v.advancing = u.advancing
  /\ v.handle = u.handle /\ v.ahead = u.ahead /\ v.wanted = u.wanted
  /\ v.cancelled = u.cancelled /\ v.failed = u.failed /\ v.ready = u.ready
  /\ v.requests = u.requests /\ v.active = u.active /\ v.stage = u.stage
  /\ v.list = u.list /\ v.audio = u.audio /\ v.begun = u.begun
  /\ v.files = u.files /\ v.stale = u.stale

(* What a function leaves alone. *)
SameText(u, v) ==
  /\ v.shown = u.shown /\ v.pending = u.pending /\ v.batches = u.batches
  /\ v.current = u.current /\ v.stale = u.stale /\ v.voice = u.voice

(* What a function that may go on to another segment keeps. *)
Onward(u, v, ev) ==
  /\ Core(v, ev) /\ HandleNext(v) /\ (NextFresh(u, ev) => NextFresh(v, ev))
  /\ v.shown = u.shown /\ v.stale = u.stale /\ v.voice = u.voice

-----------------------------------------------------------------------------
(* Sequences without repetition. *)

LEMMA HeadTail ==
  ASSUME NEW S, NEW q \in Seq(S), q # <<>>
  PROVE  /\ Head(q) \in S /\ Tail(q) \in Seq(S)
         /\ Range(q) = {Head(q)} \cup Range(Tail(q))
         /\ IsInjective(q) => IsInjective(Tail(q)) /\ Head(q) \notin Range(Tail(q))
<1>1. /\ Head(q) = q[1] /\ Tail(q) \in Seq(S) /\ Len(Tail(q)) = Len(q) - 1
      /\ \A i \in 1 .. Len(Tail(q)) : Tail(q)[i] = q[i + 1]
      /\ Len(q) \in Nat \ {0} /\ DOMAIN q = 1 .. Len(q) /\ DOMAIN Tail(q) = 1 .. Len(q) - 1
  BY HeadTailProperties, EmptySeq, LenProperties
<1>2. \A i \in 1 .. Len(q) : i = 1 \/ i - 1 \in 1 .. Len(q) - 1
  BY <1>1
<1>3. Range(q) = {Head(q)} \cup Range(Tail(q))
  <2>1. ASSUME NEW i \in DOMAIN q
        PROVE  q[i] = Head(q) \/ \E j \in DOMAIN Tail(q) : q[i] = Tail(q)[j]
    <3>1. CASE i = 1
      BY <1>1, <3>1
    <3>2. CASE i # 1
      <4>1. i - 1 \in 1 .. Len(q) - 1 /\ (i - 1) + 1 = i
        BY <1>1, <1>2, <3>2
      <4> QED
        BY <1>1, <4>1
    <3> QED
      BY <3>1, <3>2
  <2>2. {Head(q)} \cup Range(Tail(q)) \subseteq Range(q)
    BY <1>1 DEF Range
  <2> QED
    BY <2>1, <2>2 DEF Range
<1>4. ASSUME IsInjective(q)
      PROVE  IsInjective(Tail(q)) /\ Head(q) \notin Range(Tail(q))
  BY <1>1, <1>4 DEF IsInjective, Range
<1> QED
  BY <1>1, <1>3, <1>4, HeadTailProperties

LEMMA AppendOne ==
  ASSUME NEW S, NEW q \in Seq(S), NEW e \in S
  PROVE  /\ Append(q, e) \in Seq(S)
         /\ Range(Append(q, e)) = Range(q) \cup {e}
         /\ IsInjective(q) /\ e \notin Range(q) => IsInjective(Append(q, e))
<1> DEFINE a == Append(q, e)
<1>1. /\ a \in Seq(S) /\ Len(a) = Len(q) + 1
      /\ \A i \in 1 .. Len(q) : a[i] = q[i]
      /\ a[Len(q) + 1] = e
      /\ Len(q) \in Nat /\ DOMAIN q = 1 .. Len(q) /\ DOMAIN a = 1 .. Len(q) + 1
  BY AppendProperties, LenProperties
<1> HIDE DEF a
<1>2. Range(a) = Range(q) \cup {e}
  <2>1. Range(a) \subseteq Range(q) \cup {e}
    BY <1>1 DEF Range
  <2>2. Range(q) \cup {e} \subseteq Range(a)
    BY <1>1 DEF Range
  <2> QED
    BY <2>1, <2>2
<1>3. IsInjective(q) /\ e \notin Range(q) => IsInjective(a)
  BY <1>1 DEF IsInjective, Range
<1> QED
  BY <1>1, <1>2, <1>3 DEF a

LEMMA InsertOne ==
  ASSUME NEW S, NEW q \in Seq(S), NEW k \in 1 .. Len(q), NEW e \in S
  PROVE  /\ InsertAt(q, k, e) \in Seq(S)
         /\ Range(InsertAt(q, k, e)) = Range(q) \cup {e}
         /\ IsInjective(q) /\ e \notin Range(q) => IsInjective(InsertAt(q, k, e))
<1> DEFINE a == InsertAt(q, k, e)
<1>1. /\ a \in Seq(S) /\ Len(a) = Len(q) + 1
      /\ \A i \in 1 .. Len(q) + 1 : a[i] = IF i < k THEN q[i] ELSE IF i = k THEN e ELSE q[i - 1]
  BY DEF InsertAt
<1>2. Len(q) \in Nat /\ DOMAIN q = 1 .. Len(q) /\ DOMAIN a = 1 .. Len(q) + 1
  BY <1>1, LenProperties
<1> HIDE DEF a
<1>3. Range(a) = Range(q) \cup {e}
  <2>1. Range(a) \subseteq Range(q) \cup {e}
    BY <1>1, <1>2 DEF Range
  <2>2. \A i \in 1 .. Len(q) : q[i] = IF i < k THEN a[i] ELSE a[i + 1]
    BY <1>1, <1>2
  <2>3. \A i \in DOMAIN q : i \in DOMAIN a /\ i + 1 \in DOMAIN a
    BY <1>2
  <2>4. Range(q) \subseteq Range(a)
    BY <1>2, <2>2, <2>3 DEF Range
  <2>5. a[k] = e /\ k \in DOMAIN a
    BY <1>1, <1>2
  <2> QED
    BY <2>1, <2>4, <2>5 DEF Range
<1>4. ASSUME IsInjective(q), e \notin Range(q)
      PROVE  IsInjective(a)
  <2> SUFFICES ASSUME NEW i \in DOMAIN a, NEW j \in DOMAIN a, a[i] = a[j]
               PROVE  i = j
    BY DEF IsInjective
  <2>1. \A n \in DOMAIN q : q[n] # e
    BY <1>4 DEF Range
  <2>2. \A m, n \in DOMAIN q : q[m] = q[n] => m = n
    BY <1>4 DEF IsInjective
  <2> DEFINE at(n) == IF n < k THEN n ELSE n - 1
  <2>3. ASSUME NEW n \in DOMAIN a, n # k
        PROVE  at(n) \in DOMAIN q /\ a[n] = q[at(n)]
    BY <1>1, <1>2, <2>3
  <2>4. a[k] = e
    BY <1>1, <1>2
  <2>5. CASE i = k \/ j = k
    BY <2>1, <2>3, <2>4, <2>5
  <2>6. CASE i # k /\ j # k
    <3>1. at(i) = at(j)
      BY <2>2, <2>3, <2>6
    <3> QED
      BY <1>2, <2>6, <3>1
  <2> QED
    BY <2>5, <2>6
<1> QED
  BY <1>1, <1>3, <1>4 DEF a

LEMMA RemoveOne ==
  ASSUME NEW S, NEW q \in Seq(S), NEW e, IsInjective(q)
  PROVE  /\ RemoveFirst(q, e) \in Seq(S)
         /\ Range(RemoveFirst(q, e)) = Range(q) \ {e}
         /\ IsInjective(RemoveFirst(q, e))
<1>1. CASE ~\E i \in 1 .. Len(q) : q[i] = e
  BY <1>1, LenProperties DEF RemoveFirst, Range
<1>2. CASE \E i \in 1 .. Len(q) : q[i] = e
  <2>1. PICK k \in 1 .. Len(q) : q[k] = e
    BY <1>2
  <2>2. /\ Len(q) \in Nat /\ DOMAIN q = 1 .. Len(q)
        /\ \A m, n \in DOMAIN q : q[m] = q[n] => m = n
    BY LenProperties DEF IsInjective
  <2>3. SelectInSeq(q, LAMBDA v : v = e) = k
    <3>1. {i \in 1 .. Len(q) : q[i] = e} = {k}
      BY <2>1, <2>2
    <3>2. Min({k}) = k
      BY <2>1 DEF Min
    <3> QED
      BY <3>1, <3>2 DEF SelectInSeq
  <2> DEFINE a == RemoveAt(q, k)
  <2>4. RemoveFirst(q, e) = a
    BY <1>2, <2>3 DEF RemoveFirst
  <2>5. /\ a \in Seq(S) /\ Len(a) = Len(q) - 1
        /\ \A i \in 1 .. Len(q) - 1 : a[i] = IF i < k THEN q[i] ELSE q[i + 1]
    <3> DEFINE l == SubSeq(q, 1, k - 1)
               r == SubSeq(q, k + 1, Len(q))
    <3>1. /\ l \in Seq(S) /\ Len(l) = k - 1
          /\ \A i \in 1 .. k - 1 : l[i] = q[i]
      BY <2>1, <2>2, SubSeqProperties, ElementOfSeq
    <3>2. /\ r \in Seq(S) /\ Len(r) = Len(q) - k
          /\ \A i \in 1 .. Len(q) - k : r[i] = q[k + i]
      <4>1. k + 1 \in Int /\ Len(q) \in Int /\ \A i \in k + 1 .. Len(q) : q[i] \in S
        BY <2>1, <2>2, ElementOfSeq
      <4>2. /\ r \in Seq(S)
            /\ Len(r) = IF k + 1 <= Len(q) THEN Len(q) - (k + 1) + 1 ELSE 0
            /\ \A i \in 1 .. Len(q) - (k + 1) + 1 : r[i] = q[(k + 1) + i - 1]
        BY <4>1, SubSeqProperties
      <4>3. Len(q) - (k + 1) + 1 = Len(q) - k /\ \A i \in 1 .. Len(q) - k : (k + 1) + i - 1 = k + i
        BY <2>1, <2>2
      <4> HIDE DEF r
      <4>4. Len(r) = Len(q) - k
        <5>1. k \in Nat /\ Len(q) \in Nat /\ k <= Len(q)
          BY <2>1, <2>2
        <5>2. Len(r) = IF k + 1 <= Len(q) THEN Len(q) - (k + 1) + 1 ELSE 0
          BY <4>2
        <5> QED
          BY <5>1, <5>2
      <4>5. ASSUME NEW i \in 1 .. Len(q) - k
            PROVE  r[i] = q[k + i]
        BY <4>2, <4>3
      <4> QED
        BY <4>2, <4>4, <4>5
    <3> HIDE DEF l, r
    <3>3. /\ l \o r \in Seq(S) /\ Len(l \o r) = Len(q) - 1
          /\ \A i \in 1 .. Len(q) - 1 : (l \o r)[i] = IF i <= k - 1 THEN l[i] ELSE r[i - (k - 1)]
      <4>1. /\ l \o r \in Seq(S) /\ Len(l \o r) = Len(l) + Len(r)
            /\ \A i \in 1 .. Len(l) + Len(r) : (l \o r)[i] = IF i <= Len(l) THEN l[i] ELSE r[i - Len(l)]
        BY <3>1, <3>2, ConcatProperties
      <4>2. Len(l) + Len(r) = Len(q) - 1
        BY <2>1, <2>2, <3>1, <3>2
      <4> QED
        BY <3>1, <4>1, <4>2
    <3>4. a = l \o r
      BY DEF RemoveAt, l, r
    <3>5. ASSUME NEW i \in 1 .. Len(q) - 1
          PROVE  (l \o r)[i] = IF i < k THEN q[i] ELSE q[i + 1]
      <4>1. CASE i < k
        BY <2>1, <2>2, <3>1, <3>3, <4>1
      <4>2. CASE ~(i < k)
        <5>1. i - (k - 1) \in 1 .. Len(q) - k /\ k + (i - (k - 1)) = i + 1
          BY <2>1, <2>2, <4>2
        <5> QED
          BY <2>1, <2>2, <3>2, <3>3, <4>2, <5>1
      <4> QED
        BY <4>1, <4>2
    <3> QED
      BY <3>3, <3>4, <3>5
  <2>6. DOMAIN a = 1 .. Len(q) - 1
    BY <2>2, <2>5, LenProperties
  <2> HIDE DEF a
  <2>7. Range(a) = Range(q) \ {e}
    <3>5. \A i \in DOMAIN a : (IF i < k THEN i ELSE i + 1) \in DOMAIN q \ {k}
                              /\ a[i] = q[IF i < k THEN i ELSE i + 1]
      BY <2>1, <2>2, <2>5, <2>6
    <3>6. \A j \in DOMAIN q \ {k} : q[j] # e
      BY <2>1, <2>2
    <3>1. Range(a) \subseteq Range(q) \ {e}
      BY <3>5, <3>6 DEF Range
    <3>2. \A i \in DOMAIN q \ {k} : q[i] = IF i < k THEN a[i] ELSE a[i - 1]
      BY <2>1, <2>2, <2>5
    <3>3. \A i \in DOMAIN q \ {k} : IF i < k THEN i \in DOMAIN a ELSE i - 1 \in DOMAIN a
      BY <2>1, <2>2, <2>6
    <3>4. Range(q) \ {e} \subseteq Range(a)
      BY <2>1, <3>2, <3>3 DEF Range
    <3> QED
      BY <3>1, <3>4
  <2>8. IsInjective(a)
    <3> SUFFICES ASSUME NEW i \in DOMAIN a, NEW j \in DOMAIN a, a[i] = a[j]
                 PROVE  i = j
      BY DEF IsInjective
    <3> DEFINE at(n) == IF n < k THEN n ELSE n + 1
    <3>1. ASSUME NEW n \in DOMAIN a
          PROVE  at(n) \in DOMAIN q /\ a[n] = q[at(n)]
      BY <2>1, <2>2, <2>5, <2>6
    <3>2. at(i) = at(j)
      BY <2>2, <3>1
    <3> QED
      BY <2>1, <2>2, <2>6, <3>2
  <2> QED
    BY <2>4, <2>5, <2>7, <2>8
<1> QED
  BY <1>1, <1>2

(* A set of places has a first one. *)
LEMMA FirstPlace ==
  ASSUME NEW n \in Nat, NEW I \in SUBSET (1 .. n), I # {}
  PROVE  Min(I) \in I
<1>1. I \subseteq Nat
  OBVIOUS
<1>2. PICK m \in I : \A k \in I : <<k, m>> \notin OpToRel(<, Nat)
  BY <1>1, NatLessThanWellFounded, WFMin
<1>3. m \in Nat /\ \A k \in I : k \in Nat
  BY <1>1
<1>4. \A k \in I : ~(k < m)
  BY <1>1, <1>2 DEF OpToRel
<1>5. \A k \in I : m <= k
  BY <1>3, <1>4
<1> QED
  BY <1>5 DEF Min

-----------------------------------------------------------------------------
(* Functions that none of the parts depends on. *)

(* A part of the record that no invariant speaks of *)
LEMMA Unseen ==
  ASSUME NEW u, NEW ev, NEW v \in UiState, Core(u, ev), Alike(u, v)
  PROVE  /\ Core(v, ev)
         /\ Live(v, ev) = Live(u, ev) /\ Over(v, ev) = Over(u, ev)
<1>1. /\ Live(v, ev) = Live(u, ev) /\ Over(v, ev) = Over(u, ev)
      /\ Working(v) = Working(u) /\ Playing(v) = Playing(u) /\ Batched(v) = Batched(u)
  BY DEF Alike, Live, Over, Working, Playing, Batched
<1>2. /\ ev \in Seq(Signals \X Segment)
      /\ Places(u, ev) /\ Results(u, ev) /\ Order(u) /\ Fresh(u, ev)
      /\ Handles(u, ev) /\ Turn(u, ev) /\ FilesBut(u, ev, {})
  BY DEF Core, Sound
<1>3. Bound(v, ev) = Bound(u, ev) /\ Touched(v, ev) = Touched(u, ev)
  BY <1>1 DEF Alike, Bound, Touched
<1>4. Places(v, ev)
  BY <1>1, <1>2 DEF Alike, Places
<1>5. Results(v, ev) /\ Order(v)
  BY <1>1, <1>2 DEF Alike, Results, Order
<1>6. Fresh(v, ev) /\ Handles(v, ev) /\ Turn(v, ev)
  BY <1>1, <1>2, <1>3 DEF Alike, Fresh, Handles, Turn
<1>7. FilesBut(v, ev, {})
  BY <1>2 DEF Alike, FilesBut
<1> QED
  BY <1>1, <1>2, <1>4, <1>5, <1>6, <1>7 DEF Core, Sound

-----------------------------------------------------------------------------
(* The synthesis queue. *)

(* The next request goes to the thread. *)
LEMMA StartNextCore ==
  ASSUME NEW u, NEW ev, Core(u, ev)
  PROVE  /\ Core(StartNext(u), ev)
         /\ Live(StartNext(u), ev) = Live(u, ev)
         /\ Over(StartNext(u), ev) \subseteq Over(u, ev)
         /\ SameText(u, StartNext(u))
         /\ StartNext(u).handle = u.handle /\ StartNext(u).ahead = u.ahead
<1> DEFINE v == StartNext(u)
<1>0. ev \in Seq(Signals \X Segment)
  BY DEF Core, Sound
<1>1. CASE u.active # None \/ u.requests = <<>> \/ u.voice # "on"
  BY <1>1 DEF StartNext, SameText
<1>2. CASE ~(u.active # None \/ u.requests = <<>> \/ u.voice # "on")
  <2> DEFINE h == Head(u.requests)
             t == Tail(u.requests)
  <2>1. v = [u EXCEPT !.active = h, !.stage = "begin", !.requests = t]
    BY <1>2 DEF StartNext
  <2>2. /\ u \in UiState /\ u.requests \in Seq(Segment) /\ u.requests # <<>> /\ u.active = None
        /\ u.stage \in {"begin", "made", "none", "end"}
    BY <1>2 DEF Core, Sound, UiState
  <2>3. /\ h \in Segment /\ t \in Seq(Segment)
        /\ Range(u.requests) = {h} \cup Range(t)
        /\ IsInjective(t) /\ h \notin Range(t)
    BY <2>2, HeadTail DEF Core, Sound, Places
  <2> HIDE DEF h, t, v
  <2>4. v \in UiState
    <3>1. u \in UiState /\ h \in Segment /\ t \in Seq(Segment)
      BY <2>2, <2>3
    <3> QED
      BY <2>1, <3>1 DEF UiState
  <2>5. Working(v) = {h} /\ Working(u) = {} /\ v.requests = t
    BY <2>1, <2>2, <2>3 DEF UiState, Working, Segment, None
  <2>6. Live(v, ev) = Live(u, ev)
    BY <2>1, <2>2, <2>3, <2>5 DEF UiState, Live, Playing
  <2>7. Over(v, ev) = Signalled(ev) \cup u.failed
    BY <2>1, <2>2, <2>3, <2>5 DEF UiState, Over
  <2>8. Over(v, ev) \subseteq Over(u, ev)
    BY <2>7 DEF Over
  <2>9. Places(v, ev)
    BY <2>1, <2>2, <2>3, <2>5, <2>6, <2>8 DEF UiState, Core, Sound, Places, Playing
  <2>10. Results(v, ev) /\ Order(v)
    BY <2>1, <2>2 DEF UiState, Core, Sound, Results, Order, Batched
  <2>11. Fresh(v, ev)
    BY <2>1, <2>2, <2>6, <2>8 DEF UiState, Core, Sound, Fresh, Touched, Batched
  <2>12. Handles(v, ev)
    BY <2>1, <2>2, <2>6 DEF UiState, Core, Sound, Handles, Bound, Playing
  <2>13. Turn(v, ev)
    BY <2>1, <2>2, <2>6 DEF UiState, Core, Sound, Turn, Bound
  <2>14. FilesBut(v, ev, {})
    BY <2>1, <2>2, <2>3 DEF UiState, Core, FilesBut, Segment, None
  <2>15. SameText(u, v) /\ v.handle = u.handle /\ v.ahead = u.ahead
    BY <2>1, <2>2 DEF UiState, SameText
  <2> QED
    BY <1>0, <2>4, <2>6, <2>8, <2>9, <2>10, <2>11, <2>12, <2>13, <2>14, <2>15 DEF Core, Sound, v
<1> QED
  BY <1>1, <1>2

(* A request that is queued: for the segment in the bubble, or the handle. *)
LEMMA QueuedCore ==
  ASSUME NEW u, NEW ev, Core(u, ev), NEW s \in Segment, NEW q \in Seq(Segment),
         IsInjective(q), Range(q) = Range(u.requests) \cup {s},
         s \notin Live(u, ev) \cup Over(u, ev), s <= u.shown,
         s \notin Batched(u), \A i \in DOMAIN u.pending : i # 1 => u.pending[i] # s,
         IF s \in u.ahead THEN s = u.handle ELSE s = u.current /\ ~u.ttsDone
  PROVE  LET v == [u EXCEPT !.requests = q]
         IN Core(v, ev) /\ Live(v, ev) = Live(u, ev) \cup {s} /\ Over(v, ev) = Over(u, ev)
<1> DEFINE v == [u EXCEPT !.requests = q]
<1>1. u \in UiState /\ ev \in Seq(Signals \X Segment)
  BY DEF Core, Sound
<1>2. v \in UiState
  BY <1>1 DEF UiState
<1>3. /\ Live(v, ev) = Live(u, ev) \cup {s}
      /\ Over(v, ev) = Over(u, ev)
      /\ Working(v) = Working(u) /\ Playing(v) = Playing(u) /\ Batched(v) = Batched(u)
  BY <1>1 DEF UiState, Live, Over, Working, Playing, Batched
<1>4. Places(v, ev)
  <2>1. s \notin Working(u) \cup Coming(ev) \cup u.ready \cup Range(u.list) \cup Playing(u)
    BY DEF Live
  <2>2. v.requests = q /\ v.ready = u.ready /\ v.list = u.list
    BY <1>1 DEF UiState
  <2>3. Places(u, ev) /\ s \notin Over(u, ev)
    BY DEF Core, Sound
  <2> HIDE DEF v
  <2> QED
    BY <1>3, <2>1, <2>2, <2>3 DEF Places
<1>5. Results(v, ev) /\ Order(v)
  BY <1>1, <1>3 DEF UiState, Core, Sound, Results, Order
<1>6. Fresh(v, ev)
  <2>1. s \in 1 .. u.shown
    <3>1. s \in Nat /\ 1 <= s /\ u.shown \in Nat
      BY <1>1 DEF UiState, Segment
    <3> QED
      BY <3>1
  <2>2. Touched(v, ev) = Touched(u, ev) \cup {s}
    BY <1>1, <1>3 DEF UiState, Touched
  <2>3. v.pending = u.pending /\ v.shown = u.shown
    BY <1>1 DEF UiState
  <2> QED
    BY <1>3, <2>1, <2>2, <2>3 DEF Core, Sound, Fresh
<1>7. Handles(v, ev)
  <2>1. Bound(u, ev) \subseteq Bound(v, ev)
    BY <1>1, <1>3 DEF UiState, Bound
  <2>2. s \in u.ahead => s = u.handle
    OBVIOUS
  <2>3. (Live(v, ev) \cap v.ahead) \ v.wanted \subseteq v.cancelled \cup {v.handle}
    BY <1>1, <1>3, <2>2 DEF UiState, Core, Sound, Handles
  <2> QED
    BY <1>1, <1>3, <2>1, <2>3 DEF UiState, Core, Sound, Handles
<1>8. Turn(v, ev)
  <2>1. ASSUME s \in u.ahead
        PROVE  s \notin u.wanted
    BY <2>1 DEF Core, Sound, Handles, Segment, None
  <2> QED
    BY <1>1, <1>3, <2>1 DEF UiState, Core, Sound, Turn, Bound
<1>9. FilesBut(v, ev, {})
  BY <1>1 DEF UiState, Core, FilesBut
<1> QED
  BY <1>1, <1>2, <1>3, <1>4, <1>5, <1>6, <1>7, <1>8, <1>9 DEF Core, Sound

LEMMA SubmitCore ==
  ASSUME NEW u, NEW ev, Core(u, ev), NEW s \in Segment,
         s \notin Live(u, ev) \cup Over(u, ev), s <= u.shown,
         s \notin Batched(u), \A i \in DOMAIN u.pending : i # 1 => u.pending[i] # s,
         IF s \in u.ahead THEN s = u.handle ELSE s = u.current /\ ~u.ttsDone
  PROVE  /\ Core(Submit(u, s), ev)
         /\ Touched(Submit(u, s), ev) \subseteq Touched(u, ev) \cup {s}
         /\ SameText(u, Submit(u, s)) /\ Submit(u, s).handle = u.handle
<1>1. u \in UiState /\ ev \in Seq(Signals \X Segment) /\ u.requests \in Seq(Segment)
  BY DEF Core, Sound, UiState
<1>2. CASE u.voice # "on" /\ s \notin u.ahead
  BY <1>2 DEF Submit, SameText
<1>3. CASE u.voice # "on" /\ s \in u.ahead
  <2> DEFINE v == [u EXCEPT !.failed = @ \cup {s}]
  <2>1. Submit(u, s) = v
    BY <1>3 DEF Submit
  <2>2. v \in UiState
    BY <1>1 DEF UiState
  <2>3. /\ Live(v, ev) = Live(u, ev) /\ Over(v, ev) = Over(u, ev) \cup {s}
        /\ Working(v) = Working(u) /\ Playing(v) = Playing(u) /\ Batched(v) = Batched(u)
    BY <1>1 DEF UiState, Live, Over, Working, Playing, Batched
  <2>4. Places(v, ev)
    <3>1. v.requests = u.requests /\ v.ready = u.ready /\ v.list = u.list
      BY <1>1 DEF UiState
    <3>2. Places(u, ev) /\ s \notin Live(u, ev)
      BY DEF Core, Sound
    <3> HIDE DEF v
    <3> QED
      BY <2>3, <3>1, <3>2 DEF Places
  <2>9. Results(v, ev) /\ Order(v)
    BY <1>1, <2>3 DEF UiState, Core, Sound, Results, Order
  <2>5. Touched(v, ev) = Touched(u, ev)
    BY <1>1, <1>3, <2>3 DEF UiState, Touched
  <2>6. Bound(v, ev) = Bound(u, ev)
    BY <1>1, <2>3 DEF UiState, Bound
  <2>10. Fresh(v, ev) /\ Turn(v, ev)
    BY <1>1, <2>3, <2>5, <2>6 DEF UiState, Core, Sound, Fresh, Turn
  <2>11. Handles(v, ev)
    BY <1>1, <1>3, <2>3, <2>6 DEF UiState, Core, Sound, Handles
  <2>7. FilesBut(v, ev, {})
    BY <1>1 DEF UiState, Core, FilesBut
  <2>8. SameText(u, v) /\ v.handle = u.handle
    BY <1>1 DEF UiState, SameText
  <2> QED
    BY <1>1, <2>1, <2>2, <2>4, <2>5, <2>7, <2>8, <2>9, <2>10, <2>11 DEF Core, Sound
<1>4. CASE u.voice = "on"
  <2> DEFINE first == SelectInSeq(u.requests, LAMBDA r : r \in u.ahead)
             q == IF s \in u.ahead \/ first = 0 THEN Append(u.requests, s)
                  ELSE InsertAt(u.requests, first, s)
             v == [u EXCEPT !.requests = q]
  <2>1. Submit(u, s) = StartNext(v)
    BY <1>4 DEF Submit
  <2>2. first \in 0 .. Len(u.requests)
    <3> DEFINE I == {i \in 1 .. Len(u.requests) : u.requests[i] \in u.ahead}
    <3>1. first = IF I # {} THEN Min(I) ELSE 0
      BY DEF SelectInSeq
    <3>2. Len(u.requests) \in Nat /\ I \in SUBSET (1 .. Len(u.requests))
      BY <1>1, LenProperties
    <3>3. I # {} => Min(I) \in I
      BY <3>2, FirstPlace
    <3> QED
      BY <3>1, <3>2, <3>3
  <2> HIDE DEF first
  <2>3. IsInjective(u.requests) /\ s \notin Range(u.requests)
    BY DEF Core, Sound, Places, Live
  <2>4. q \in Seq(Segment) /\ IsInjective(q) /\ Range(q) = Range(u.requests) \cup {s}
    <3>1. CASE s \in u.ahead \/ first = 0
      BY <1>1, <2>3, <3>1, AppendOne
    <3>2. CASE ~(s \in u.ahead \/ first = 0)
      <4>1. first \in 1 .. Len(u.requests)
        BY <2>2, <3>2
      <4> QED
        BY <1>1, <2>3, <3>2, <4>1, InsertOne
    <3> QED
      BY <3>1, <3>2
  <2> HIDE DEF q
  <2>5. Core(v, ev) /\ Live(v, ev) = Live(u, ev) \cup {s} /\ Over(v, ev) = Over(u, ev)
    BY <2>4, QueuedCore
  <2>6. SameText(u, v) /\ v.handle = u.handle /\ v.ahead = u.ahead
    BY <1>1 DEF UiState, SameText
  <2> HIDE DEF v
  <2>7. /\ Core(StartNext(v), ev)
        /\ Live(StartNext(v), ev) = Live(v, ev) /\ Over(StartNext(v), ev) \subseteq Over(v, ev)
        /\ SameText(v, StartNext(v))
        /\ StartNext(v).handle = v.handle /\ StartNext(v).ahead = v.ahead
    BY <2>5, StartNextCore
  <2> QED
    BY <2>1, <2>5, <2>6, <2>7 DEF Touched, SameText
<1> QED
  BY <1>2, <1>3, <1>4

-----------------------------------------------------------------------------
(* Handles and audio. *)

LEMMA DiscardCore ==
  ASSUME NEW u, NEW ev, Core(u, ev)
  PROVE  /\ Core(Discard(u), ev)
         /\ Touched(Discard(u), ev) \subseteq Touched(u, ev)
         /\ Bound(Discard(u), ev) \subseteq Bound(u, ev)
         /\ SameText(u, Discard(u)) /\ Discard(u).handle = None
         /\ u.handle = None => Discard(u) = u
<1>1. CASE u.handle = None
  BY <1>1 DEF Discard, SameText
<1>2. CASE u.handle # None
  <2> DEFINE h == u.handle
             q == RemoveFirst(u.requests, h)
             l == RemoveFirst(u.list, h)
             f == u.files \ ({h} \cap (u.ready \cup Range(u.list)))
             v == [u EXCEPT !.handle = None, !.cancelled = @ \cup {h}, !.requests = q,
                            !.list = l, !.ready = @ \ {h}, !.files = f]
  <2>1. Discard(u) = v
    BY <1>2 DEF Discard
  <2>2. /\ u \in UiState /\ ev \in Seq(Signals \X Segment) /\ h \in Segment
        /\ u.requests \in Seq(Segment) /\ u.list \in Seq(Segment)
        /\ IsInjective(u.requests) /\ IsInjective(u.list)
    BY <1>2 DEF Core, Sound, Places, UiState
  <2>3. /\ q \in Seq(Segment) /\ IsInjective(q) /\ Range(q) = Range(u.requests) \ {h}
        /\ l \in Seq(Segment) /\ IsInjective(l) /\ Range(l) = Range(u.list) \ {h}
    BY <2>2, RemoveOne
  <2>4. f \subseteq u.files /\ \A s \in f : s = h => s \notin u.ready \cup Range(u.list)
    OBVIOUS
  <2> HIDE DEF q, l, f
  <2>5. v \in UiState
    <3>1. u \in UiState /\ q \in Seq(Segment) /\ l \in Seq(Segment) /\ h \in Segment /\ f \in SUBSET Segment
      BY <2>2, <2>3, <2>4 DEF UiState
    <3> QED
      BY <3>1 DEF UiState
  <2>6. /\ Live(v, ev) \subseteq Live(u, ev) /\ Over(v, ev) = Over(u, ev)
        /\ Working(v) = Working(u) /\ Playing(v) = Playing(u) /\ Batched(v) = Batched(u)
    BY <2>2, <2>3 DEF UiState, Live, Over, Working, Playing, Batched
  <2>7. Places(v, ev)
    BY <2>2, <2>3, <2>6 DEF UiState, Core, Sound, Places
  <2>8. Results(v, ev) /\ Order(v)
    BY <2>2, <2>6 DEF UiState, Core, Sound, Results, Order
  <2>9. Touched(v, ev) \subseteq Touched(u, ev) /\ Bound(v, ev) \subseteq Bound(u, ev)
    BY <2>2, <2>6 DEF UiState, Touched, Bound
  <2>10. Fresh(v, ev) /\ Turn(v, ev)
    BY <2>2, <2>6, <2>9 DEF UiState, Core, Sound, Fresh, Turn
  <2>11. h \in u.ahead \ (u.wanted \cup u.cancelled)
    BY <1>2 DEF Core, Sound, Handles
  <2>12. h \notin Range(u.list) \cup Playing(u)
    BY <2>11 DEF Core, Sound, Handles, Bound
  <2>13. Handles(v, ev)
    <3>1. Range(v.list) \cup Playing(v) \subseteq Bound(v, ev)
      BY <2>2, <2>3, <2>6, <2>12 DEF UiState, Core, Sound, Handles, Bound, Live
    <3> QED
      BY <2>2, <2>6, <2>11, <3>1 DEF UiState, Core, Sound, Handles
  <2>14. FilesBut(v, ev, {})
    BY <1>2, <2>2, <2>3, <2>4 DEF UiState, Core, FilesBut
  <2>15. SameText(u, v) /\ v.handle = None
    BY <2>2 DEF UiState, SameText
  <2> QED
    BY <1>2, <2>1, <2>2, <2>5, <2>7, <2>8, <2>9, <2>10, <2>13, <2>14, <2>15 DEF Core, Sound
<1> QED
  BY <1>1, <1>2

(* An audio that is appended to the play list *)
LEMMA EnqueueCore ==
  ASSUME NEW u, NEW ev, Sound(u, ev), NEW s \in Segment, FilesBut(u, ev, {s}),
         s \notin Over(u, ev) \cup Range(u.requests) \cup Working(u) \cup Coming(ev)
                  \cup Range(u.list) \cup Playing(u),
         s \in u.ahead => s \in u.wanted,
         s \in u.stale \/ (s = u.current /\ ~u.ttsDone),
         s \in 1 .. u.shown, s \notin Batched(u),
         \A i \in DOMAIN u.pending : i # 1 => u.pending[i] # s
  PROVE  /\ Core(Enqueue(u, s), ev)
         /\ Touched(Enqueue(u, s), ev) = Touched(u, ev) \cup {s}
         /\ SameText(u, Enqueue(u, s)) /\ Enqueue(u, s).handle = u.handle
<1> DEFINE l == Append(u.list, s)
           w == u.wake \/ u.audio = None
           v == [u EXCEPT !.list = l, !.ready = @ \ {s}, !.wake = w]
<1>1. Enqueue(u, s) = v
  BY DEF Enqueue
<1>2. /\ u \in UiState /\ ev \in Seq(Signals \X Segment) /\ u.list \in Seq(Segment)
      /\ IsInjective(u.list)
  BY DEF Sound, UiState, Places
<1>3. l \in Seq(Segment) /\ IsInjective(l) /\ Range(l) = Range(u.list) \cup {s}
  BY <1>2, AppendOne
<1>4. w \in BOOLEAN
  BY <1>2 DEF UiState
<1> HIDE DEF l, w
<1>5. v \in UiState
  BY <1>2, <1>3, <1>4 DEF UiState
<1>6. /\ Working(v) = Working(u) /\ Playing(v) = Playing(u) /\ Batched(v) = Batched(u)
      /\ Over(v, ev) = Over(u, ev)
  BY <1>2 DEF UiState, Over, Working, Playing, Batched
<1>7. /\ v.requests = u.requests /\ v.ready = u.ready \ {s} /\ v.list = l
      /\ v.ahead = u.ahead /\ v.wanted = u.wanted /\ v.cancelled = u.cancelled
      /\ v.failed = u.failed /\ v.handle = u.handle /\ v.audio = u.audio
      /\ v.pending = u.pending /\ v.batches = u.batches /\ v.current = u.current
      /\ v.shown = u.shown /\ v.ttsDone = u.ttsDone /\ v.advancing = u.advancing
      /\ v.stale = u.stale /\ v.begun = u.begun /\ v.voice = u.voice
      /\ v.files = u.files /\ v.active = u.active /\ v.stage = u.stage
  BY <1>2 DEF UiState
<1> HIDE DEF v
<1>8. Live(v, ev) = Live(u, ev) \cup {s}
  BY <1>3, <1>6, <1>7 DEF Live
<1>9. Touched(v, ev) = Touched(u, ev) \cup {s}
  BY <1>6, <1>7, <1>8 DEF Touched
<1>10. Bound(v, ev) = Bound(u, ev) \cup {s}
  BY <1>7, <1>8 DEF Bound
<1>11. Places(v, ev)
  BY <1>3, <1>6, <1>7, <1>8 DEF Sound, Places
<1>12. Results(v, ev) /\ Order(v)
  BY <1>6, <1>7 DEF Sound, Results, Order
<1>13. Fresh(v, ev)
  BY <1>6, <1>7, <1>9 DEF Sound, Fresh
<1>14. Handles(v, ev)
  BY <1>3, <1>6, <1>7, <1>8, <1>10 DEF Sound, Handles
<1>15. Turn(v, ev)
  BY <1>7, <1>10 DEF Sound, Turn
<1>16. FilesBut(v, ev, {})
  BY <1>3, <1>7 DEF FilesBut
<1>17. SameText(u, v)
  BY <1>7 DEF SameText
<1> QED
  BY <1>1, <1>2, <1>5, <1>7, <1>9, <1>11, <1>12, <1>13, <1>14, <1>15, <1>16, <1>17 DEF Core, Sound

(* The head of the play list goes to the player. *)
LEMMA PlayNextCore ==
  ASSUME NEW u, NEW ev, Core(u, ev)
  PROVE  /\ Core(PlayNext(u), ev)
         /\ Touched(PlayNext(u), ev) = Touched(u, ev)
         /\ SameText(u, PlayNext(u)) /\ PlayNext(u).handle = u.handle
<1>1. CASE u.audio # None \/ u.list = <<>> \/ u.voice # "on"
  BY <1>1 DEF PlayNext, SameText
<1>2. CASE ~(u.audio # None \/ u.list = <<>> \/ u.voice # "on")
  <2> DEFINE h == Head(u.list)
             t == Tail(u.list)
             v == [u EXCEPT !.audio = h, !.list = t, !.begun = FALSE, !.fallbacks = @ \cup {h}]
  <2>1. PlayNext(u) = v
    BY <1>2 DEF PlayNext
  <2>2. /\ u \in UiState /\ ev \in Seq(Signals \X Segment)
        /\ u.list \in Seq(Segment) /\ u.list # <<>> /\ u.audio = None /\ IsInjective(u.list)
    BY <1>2 DEF Core, Sound, Places, UiState
  <2>3. /\ h \in Segment /\ t \in Seq(Segment)
        /\ Range(u.list) = {h} \cup Range(t) /\ IsInjective(t) /\ h \notin Range(t)
    BY <2>2, HeadTail
  <2> HIDE DEF h, t
  <2>4. v \in UiState
    <3>1. u \in UiState /\ h \in Segment /\ t \in Seq(Segment)
      BY <2>2, <2>3
    <3> QED
      BY <3>1 DEF UiState
  <2>5. /\ v.requests = u.requests /\ v.ready = u.ready /\ v.list = t
        /\ v.ahead = u.ahead /\ v.wanted = u.wanted /\ v.cancelled = u.cancelled
        /\ v.failed = u.failed /\ v.handle = u.handle /\ v.audio = h
        /\ v.pending = u.pending /\ v.batches = u.batches /\ v.current = u.current
        /\ v.shown = u.shown /\ v.ttsDone = u.ttsDone /\ v.advancing = u.advancing
        /\ v.stale = u.stale /\ v.begun = FALSE /\ v.voice = u.voice
        /\ v.files = u.files /\ v.active = u.active /\ v.stage = u.stage
    BY <2>2 DEF UiState
  <2> HIDE DEF v
  <2>6. /\ Working(v) = Working(u) /\ Batched(v) = Batched(u) /\ Over(v, ev) = Over(u, ev)
        /\ Playing(v) = {h} /\ Playing(u) = {}
    BY <2>2, <2>3, <2>5 DEF Over, Working, Playing, Batched, Segment, None
  <2>7. Live(v, ev) = Live(u, ev)
    BY <2>3, <2>5, <2>6 DEF Live
  <2>8. Touched(v, ev) = Touched(u, ev) /\ Bound(v, ev) = Bound(u, ev)
    BY <2>5, <2>6, <2>7 DEF Touched, Bound
  <2>9. Places(v, ev)
    BY <2>3, <2>5, <2>6, <2>7 DEF Core, Sound, Places
  <2>10. Results(v, ev) /\ Order(v)
    BY <2>5, <2>6 DEF Core, Sound, Results, Order
  <2>11. Fresh(v, ev) /\ Turn(v, ev)
    BY <2>5, <2>6, <2>8 DEF Core, Sound, Fresh, Turn
  <2>12. Handles(v, ev)
    BY <2>3, <2>5, <2>6, <2>7, <2>8 DEF Core, Sound, Handles
  <2>13. FilesBut(v, ev, {})
    BY <2>2, <2>3, <2>5 DEF Core, FilesBut, UiState, Segment, None
  <2>14. SameText(u, v)
    BY <2>5 DEF SameText
  <2> QED
    BY <2>1, <2>2, <2>4, <2>5, <2>8, <2>9, <2>10, <2>11, <2>12, <2>13, <2>14 DEF Core, Sound
<1> QED
  BY <1>1, <1>2

(* The handle is asked to be played when its segment comes into the bubble. *)
LEMMA AskCore ==
  ASSUME NEW u, NEW ev, Core(u, ev), u.handle # None, u.handle = u.current, ~u.ttsDone,
         u.handle \notin u.failed
  PROVE  LET v == AskAhead([u EXCEPT !.handle = None], u.current)
         IN /\ Core(v, ev) /\ Touched(v, ev) = Touched(u, ev)
            /\ SameText(u, v) /\ v.handle = None
<1> DEFINE s == u.current
           a == [[u EXCEPT !.handle = None] EXCEPT !.wanted = @ \cup {s}]
<1>1. u \in UiState /\ ev \in Seq(Signals \X Segment) /\ s \in Segment
  BY DEF Core, Sound, UiState
<1>2. a \in UiState
  BY <1>1 DEF UiState
<1>3. /\ a.requests = u.requests /\ a.ready = u.ready /\ a.list = u.list
      /\ a.ahead = u.ahead /\ a.wanted = u.wanted \cup {s} /\ a.cancelled = u.cancelled
      /\ a.failed = u.failed /\ a.handle = None /\ a.audio = u.audio
      /\ a.pending = u.pending /\ a.batches = u.batches /\ a.current = u.current
      /\ a.shown = u.shown /\ a.ttsDone = u.ttsDone /\ a.advancing = u.advancing
      /\ a.stale = u.stale /\ a.begun = u.begun /\ a.voice = u.voice
      /\ a.files = u.files /\ a.active = u.active /\ a.stage = u.stage
  BY <1>1 DEF UiState
<1>4. AskAhead([u EXCEPT !.handle = None], s) = IF s \in u.ready THEN Enqueue(a, s) ELSE a
  BY <1>1 DEF AskAhead, UiState
<1> HIDE DEF a
<1>5. /\ Working(a) = Working(u) /\ Batched(a) = Batched(u) /\ Over(a, ev) = Over(u, ev)
      /\ Playing(a) = Playing(u) /\ Live(a, ev) = Live(u, ev)
  BY <1>3 DEF Over, Working, Playing, Batched, Live
<1>6. Touched(a, ev) = Touched(u, ev) /\ Bound(a, ev) \subseteq Bound(u, ev) \cup {s}
      /\ Bound(u, ev) \subseteq Bound(a, ev)
  BY <1>3, <1>5 DEF Touched, Bound
<1>7. Places(a, ev)
  BY <1>3, <1>5 DEF Core, Sound, Places
<1>8. Results(a, ev) /\ Order(a)
  BY <1>3, <1>5 DEF Core, Sound, Results, Order
<1>9. Fresh(a, ev) /\ Turn(a, ev)
  BY <1>3, <1>5, <1>6 DEF Core, Sound, Fresh, Turn
<1>10. Handles(a, ev)
  BY <1>1, <1>3, <1>5, <1>6 DEF Core, Sound, Handles
<1>11. Sound(a, ev) /\ SameText(u, a)
  BY <1>1, <1>2, <1>3, <1>7, <1>8, <1>9, <1>10 DEF Sound, SameText
<1>12. CASE s \notin u.ready
  <2>1. FilesBut(a, ev, {})
    BY <1>3, <1>12 DEF Core, FilesBut
  <2> QED
    BY <1>3, <1>4, <1>6, <1>11, <1>12, <2>1 DEF Core
<1>13. CASE s \in u.ready
  <2>1. FilesBut(a, ev, {s})
    BY <1>3 DEF Core, FilesBut
  <2>2. s \in Live(u, ev) /\ s \in Touched(u, ev) /\ s \notin Over(u, ev)
    BY <1>13 DEF Core, Sound, Places, Live, Touched
  <2>3. s \notin Range(u.requests) \cup Working(u) \cup Coming(ev) \cup Range(u.list) \cup Playing(u)
    BY <1>13 DEF Core, Sound, Places
  <2>4. /\ s \in 1 .. u.shown /\ s \notin Batched(u)
        /\ \A i \in DOMAIN u.pending : i # 1 => u.pending[i] # s
    BY <2>2 DEF Core, Sound, Fresh
  <2>5. /\ Core(Enqueue(a, s), ev) /\ Touched(Enqueue(a, s), ev) = Touched(a, ev) \cup {s}
        /\ SameText(a, Enqueue(a, s)) /\ Enqueue(a, s).handle = a.handle
    BY <1>1, <1>3, <1>5, <1>11, <2>1, <2>2, <2>3, <2>4, EnqueueCore
  <2> QED
    BY <1>3, <1>4, <1>6, <1>11, <1>13, <2>2, <2>5 DEF SameText
<1> QED
  BY <1>12, <1>13

-----------------------------------------------------------------------------
(* The subtitle controller. *)

(* A segment that is not spoken counts as spoken. *)
LEMMA MuteCore ==
  ASSUME NEW u, NEW ev, Core(u, ev), Bound(u, ev) \subseteq u.stale
  PROVE  /\ Core(Mute(u), ev) /\ Touched(Mute(u), ev) = Touched(u, ev)
         /\ SameText(u, Mute(u)) /\ Mute(u).handle = u.handle
<1> DEFINE v == [u EXCEPT !.typing = TRUE, !.ttsDone = TRUE]
<1>1. u \in UiState /\ ev \in Seq(Signals \X Segment)
  BY DEF Core, Sound
<1>2. v \in UiState /\ Mute(u) = v
  BY <1>1 DEF UiState, Mute
<1>3. /\ v.requests = u.requests /\ v.ready = u.ready /\ v.list = u.list
      /\ v.ahead = u.ahead /\ v.wanted = u.wanted /\ v.cancelled = u.cancelled
      /\ v.failed = u.failed /\ v.handle = u.handle /\ v.audio = u.audio
      /\ v.pending = u.pending /\ v.batches = u.batches /\ v.current = u.current
      /\ v.shown = u.shown /\ v.ttsDone = TRUE /\ v.advancing = u.advancing
      /\ v.stale = u.stale /\ v.begun = u.begun /\ v.voice = u.voice
      /\ v.files = u.files /\ v.active = u.active /\ v.stage = u.stage
  BY <1>1 DEF UiState
<1> HIDE DEF v
<1>4. /\ Working(v) = Working(u) /\ Batched(v) = Batched(u) /\ Over(v, ev) = Over(u, ev)
      /\ Playing(v) = Playing(u) /\ Live(v, ev) = Live(u, ev)
  BY <1>3 DEF Over, Working, Playing, Batched, Live
<1>5. Touched(v, ev) = Touched(u, ev) /\ Bound(v, ev) = Bound(u, ev)
  BY <1>3, <1>4 DEF Touched, Bound
<1>6. Places(v, ev) /\ Results(v, ev) /\ Order(v)
  BY <1>3, <1>4 DEF Core, Sound, Places, Results, Order
<1>7. Fresh(v, ev) /\ Handles(v, ev) /\ Turn(v, ev)
  BY <1>3, <1>4, <1>5 DEF Core, Sound, Fresh, Handles, Turn
<1>8. FilesBut(v, ev, {}) /\ SameText(u, v)
  BY <1>3 DEF Core, FilesBut, SameText
<1> QED
  BY <1>1, <1>2, <1>3, <1>5, <1>6, <1>7, <1>8 DEF Core, Sound

(* The next segment comes into the bubble; what may still be spoken of others
   has been interrupted. *)
LEMMA ShownCore ==
  ASSUME NEW u, NEW ev, Core(u, ev), HandleNext(u), NextFresh(u, ev), u.pending # <<>>,
         Bound(u, ev) \subseteq u.stale
  PROVE  LET v == Shown(u)
         IN /\ Core(v, ev) /\ Touched(v, ev) = Touched(u, ev) /\ Bound(v, ev) \subseteq v.stale
            /\ v.handle \in {None, v.current} /\ v.current # None /\ ~v.ttsDone
            /\ v.current \notin Touched(v, ev) \/ v.current = v.handle \/ v.voice = "off"
            /\ \A i \in DOMAIN v.pending : v.pending[i] \notin Touched(v, ev)
            /\ v.shown = u.shown /\ v.batches = u.batches /\ v.stale = u.stale /\ v.voice = u.voice
<1> DEFINE h == Head(u.pending)
           t == Tail(u.pending)
           v == [u EXCEPT !.current = h, !.pending = t,
                          !.textDone = FALSE, !.ttsDone = FALSE, !.advancing = FALSE]
<1>1. /\ u \in UiState /\ ev \in Seq(Signals \X Segment) /\ u.pending \in Seq(Segment)
      /\ IsInjective(u.pending)
  BY DEF Core, Sound, Order, UiState
<1>2. /\ h \in Segment /\ t \in Seq(Segment)
      /\ Range(u.pending) = {h} \cup Range(t) /\ IsInjective(t) /\ h \notin Range(t)
  BY <1>1, HeadTail
<1>3. \A i \in DOMAIN t : t[i] = u.pending[i + 1] /\ i + 1 \in DOMAIN u.pending /\ i + 1 # 1
  <2>1. /\ Len(t) = Len(u.pending) - 1 /\ Len(u.pending) \in Nat
        /\ DOMAIN u.pending = 1 .. Len(u.pending) /\ DOMAIN t = 1 .. Len(t)
        /\ \A i \in 1 .. Len(t) : t[i] = u.pending[i + 1]
    BY <1>1, <1>2, HeadTailProperties, LenProperties
  <2> HIDE DEF t
  <2> QED
    BY <2>1
<1>4. /\ u.handle # None => u.handle = h
      /\ h \notin Touched(u, ev) \/ h = u.handle \/ u.voice = "off"
  BY DEF HandleNext, NextFresh
<1>5. Shown(u) = v
  BY DEF Shown
<1> HIDE DEF h, t
<1>6. v \in UiState
  <2>1. u \in UiState /\ h \in Segment /\ t \in Seq(Segment)
    BY <1>1, <1>2
  <2> QED
    BY <2>1 DEF UiState
<1>7. /\ v.requests = u.requests /\ v.ready = u.ready /\ v.list = u.list
      /\ v.ahead = u.ahead /\ v.wanted = u.wanted /\ v.cancelled = u.cancelled
      /\ v.failed = u.failed /\ v.handle = u.handle /\ v.audio = u.audio
      /\ v.pending = t /\ v.batches = u.batches /\ v.current = h
      /\ v.shown = u.shown /\ v.ttsDone = FALSE /\ v.advancing = FALSE
      /\ v.stale = u.stale /\ v.begun = u.begun /\ v.voice = u.voice
      /\ v.files = u.files /\ v.active = u.active /\ v.stage = u.stage
  BY <1>1 DEF UiState
<1> HIDE DEF v
<1>8. /\ Working(v) = Working(u) /\ Batched(v) = Batched(u) /\ Over(v, ev) = Over(u, ev)
      /\ Playing(v) = Playing(u) /\ Live(v, ev) = Live(u, ev)
  BY <1>7 DEF Over, Working, Playing, Batched, Live
<1>9. Touched(v, ev) = Touched(u, ev) /\ Bound(v, ev) = Bound(u, ev)
  BY <1>7, <1>8 DEF Touched, Bound
<1>10. Places(v, ev) /\ Results(v, ev)
  BY <1>7, <1>8 DEF Core, Sound, Places, Results
<1>11. Order(v)
  <2>1. h <= v.shown
    BY <1>1, <1>2, <1>7 DEF Core, Sound, Order
  <2> QED
    BY <1>2, <1>7, <1>8, <2>1 DEF Core, Sound, Order
<1>12. \A i \in DOMAIN v.pending : v.pending[i] \notin Touched(v, ev)
  BY <1>3, <1>7, <1>9 DEF Core, Sound, Fresh
<1>13. Fresh(v, ev)
  BY <1>7, <1>8, <1>9, <1>12 DEF Core, Sound, Fresh
<1>14. Handles(v, ev)
  BY <1>7, <1>8, <1>9 DEF Core, Sound, Handles
<1>15. Turn(v, ev)
  BY <1>2, <1>7, <1>9 DEF Core, Sound, Turn, Segment, None
<1>16. FilesBut(v, ev, {})
  BY <1>7 DEF Core, FilesBut
<1>17. Core(v, ev) /\ h # None
  BY <1>1, <1>2, <1>6, <1>10, <1>11, <1>13, <1>14, <1>15, <1>16 DEF Core, Sound, Segment, None
<1> QED
  BY <1>4, <1>5, <1>7, <1>9, <1>12, <1>17

(* The segment in the bubble is spoken, or counts as spoken. *)
LEMMA SpeakCore ==
  ASSUME NEW u, NEW ev, Core(u, ev), u.current # None, ~u.ttsDone,
         Bound(u, ev) \subseteq u.stale, u.handle \in {None, u.current},
         u.current \notin Touched(u, ev) \/ u.current = u.handle \/ u.voice = "off"
  PROVE  /\ Core(Speak(u), ev) /\ Touched(Speak(u), ev) \subseteq Touched(u, ev) \cup {u.current}
         /\ SameText(u, Speak(u)) /\ Speak(u).handle = None
<1> DEFINE s == u.current
<1>1. u \in UiState /\ ev \in Seq(Signals \X Segment) /\ s \in Segment
  BY DEF Core, Sound, UiState
<1>2. CASE u.handle = s /\ s \in u.failed
  <2> DEFINE a == [u EXCEPT !.handle = None]
  <2>1. Speak(u) = Mute(a)
    BY <1>1, <1>2 DEF Speak, UiState
  <2>2. a \in UiState
    BY <1>1 DEF UiState
  <2>3. /\ a.requests = u.requests /\ a.ready = u.ready /\ a.list = u.list
        /\ a.ahead = u.ahead /\ a.wanted = u.wanted /\ a.cancelled = u.cancelled
        /\ a.failed = u.failed /\ a.handle = None /\ a.audio = u.audio
        /\ a.pending = u.pending /\ a.batches = u.batches /\ a.current = u.current
        /\ a.shown = u.shown /\ a.ttsDone = u.ttsDone /\ a.advancing = u.advancing
        /\ a.stale = u.stale /\ a.begun = u.begun /\ a.voice = u.voice
        /\ a.files = u.files /\ a.active = u.active /\ a.stage = u.stage
    BY <1>1 DEF UiState
  <2> HIDE DEF a
  <2>4. /\ Working(a) = Working(u) /\ Batched(a) = Batched(u) /\ Over(a, ev) = Over(u, ev)
        /\ Playing(a) = Playing(u) /\ Live(a, ev) = Live(u, ev)
    BY <2>3 DEF Over, Working, Playing, Batched, Live
  <2>5. Touched(a, ev) = Touched(u, ev) /\ Bound(a, ev) = Bound(u, ev)
    BY <2>3, <2>4 DEF Touched, Bound
  <2>6. s \notin Live(u, ev)
    BY <1>2 DEF Core, Sound, Places, Over
  <2>7. Places(a, ev) /\ Results(a, ev) /\ Order(a)
    BY <2>3, <2>4 DEF Core, Sound, Places, Results, Order
  <2>8. Fresh(a, ev) /\ Turn(a, ev)
    BY <2>3, <2>4, <2>5 DEF Core, Sound, Fresh, Turn
  <2>9. Handles(a, ev)
    BY <1>2, <2>3, <2>4, <2>5, <2>6 DEF Core, Sound, Handles
  <2>10. FilesBut(a, ev, {})
    BY <1>2, <2>3, <2>6 DEF Core, FilesBut, Live
  <2>11. Core(a, ev) /\ SameText(u, a)
    BY <1>1, <2>2, <2>3, <2>7, <2>8, <2>9, <2>10 DEF Core, Sound, SameText
  <2>12. /\ Core(Mute(a), ev) /\ Touched(Mute(a), ev) = Touched(a, ev)
         /\ SameText(a, Mute(a)) /\ Mute(a).handle = a.handle
    BY <2>3, <2>5, <2>11, MuteCore
  <2> QED
    BY <2>1, <2>3, <2>5, <2>11, <2>12 DEF SameText
<1>3. CASE u.handle = s /\ s \notin u.failed
  <2>1. s \notin u.cancelled
    BY <1>3 DEF Core, Sound, Handles
  <2>2. Speak(u) = AskAhead([u EXCEPT !.handle = None], s)
    BY <1>1, <1>3, <2>1 DEF Speak, UiState
  <2> QED
    BY <1>3, <2>2, AskCore
<1>4. CASE u.handle # s /\ (s \in u.silent \/ u.voice = "off")
  <2>1. Speak(u) = Mute(u)
    BY <1>4 DEF Speak
  <2> QED
    BY <1>4, <2>1, MuteCore
<1>5. CASE u.handle # s /\ ~(s \in u.silent \/ u.voice = "off")
  <2>1. Speak(u) = Submit(u, s)
    BY <1>5 DEF Speak
  <2>2. s \notin Touched(u, ev)
    BY <1>5
  <2>3. s \notin Live(u, ev) \cup Over(u, ev) /\ s \notin u.ahead
    BY <2>2 DEF Touched
  <2>4. s <= u.shown /\ s \notin Batched(u) /\ \A i \in DOMAIN u.pending : u.pending[i] # s
    BY DEF Core, Sound, Order, Range
  <2>5. /\ Core(Submit(u, s), ev)
        /\ Touched(Submit(u, s), ev) \subseteq Touched(u, ev) \cup {s}
        /\ SameText(u, Submit(u, s)) /\ Submit(u, s).handle = u.handle
    BY <1>1, <2>3, <2>4, SubmitCore
  <2> QED
    BY <1>5, <2>1, <2>5
<1> QED
  BY <1>2, <1>3, <1>4, <1>5

(* The next segment is prepared, if it is to be spoken. *)
LEMMA PrepareNextCore ==
  ASSUME NEW u, NEW ev, Core(u, ev),
         u.pending # <<>> => Head(u.pending) \notin Touched(u, ev) \/ u.voice = "off"
  PROVE  LET v == PrepareNext(u)
         IN Core(v, ev) /\ HandleNext(v) /\ NextFresh(v, ev) /\ SameText(u, v)
<1> DEFINE f == Discard(u)
           s == Head(u.pending)
<1>1. /\ Core(f, ev) /\ Touched(f, ev) \subseteq Touched(u, ev)
      /\ SameText(u, f) /\ f.handle = None
  BY DiscardCore
<1>2. f \in UiState /\ ev \in Seq(Signals \X Segment) /\ f.pending \in Seq(Segment)
  BY <1>1 DEF Core, Sound, UiState
<1> HIDE DEF f
<1>3. CASE u.pending = <<>> \/ u.voice = "off" \/ s \in u.silent
  <2>1. PrepareNext(u) = f
    BY <1>3 DEF PrepareNext, f
  <2> QED
    BY <1>1, <2>1 DEF HandleNext, NextFresh, SameText
<1>4. CASE ~(u.pending = <<>> \/ u.voice = "off" \/ s \in u.silent)
  <2> DEFINE b == [f EXCEPT !.handle = s, !.ahead = @ \cup {s}]
  <2>1. PrepareNext(u) = Submit(b, s)
    BY <1>4 DEF PrepareNext, f
  <2>2. /\ s = Head(f.pending) /\ f.pending # <<>> /\ f.voice # "off"
        /\ s \notin Touched(f, ev)
    BY <1>1, <1>4 DEF SameText
  <2> HIDE DEF s
  <2>3. /\ s \in Segment /\ s \in Range(f.pending) /\ s = f.pending[1]
        /\ \A i \in DOMAIN f.pending : i # 1 => f.pending[i] # s
    <3>1. IsInjective(f.pending)
      BY <1>1 DEF Core, Sound, Order
    <3>2. s = f.pending[1] /\ 1 \in DOMAIN f.pending
      BY <1>2, <2>2, HeadTailProperties, EmptySeq, LenProperties
    <3> QED
      BY <1>2, <2>2, <3>1, <3>2, HeadTail DEF IsInjective
  <2>4. b \in UiState
    BY <1>2, <2>3 DEF UiState
  <2>5. /\ b.requests = f.requests /\ b.ready = f.ready /\ b.list = f.list
        /\ b.ahead = f.ahead \cup {s} /\ b.wanted = f.wanted /\ b.cancelled = f.cancelled
        /\ b.failed = f.failed /\ b.handle = s /\ b.audio = f.audio
        /\ b.pending = f.pending /\ b.batches = f.batches /\ b.current = f.current
        /\ b.shown = f.shown /\ b.ttsDone = f.ttsDone /\ b.advancing = f.advancing
        /\ b.stale = f.stale /\ b.begun = f.begun /\ b.voice = f.voice
        /\ b.files = f.files /\ b.active = f.active /\ b.stage = f.stage
    BY <1>2 DEF UiState
  <2> HIDE DEF b
  <2>6. /\ Working(b) = Working(f) /\ Batched(b) = Batched(f) /\ Over(b, ev) = Over(f, ev)
        /\ Playing(b) = Playing(f) /\ Live(b, ev) = Live(f, ev)
    BY <2>5 DEF Over, Working, Playing, Batched, Live
  <2>7. /\ Touched(b, ev) = Touched(f, ev) \cup {s}
        /\ s \notin Live(f, ev) \cup Over(f, ev) \cup f.ahead
    BY <2>2, <2>5, <2>6 DEF Touched
  <2>8. Bound(b, ev) = Bound(f, ev)
    BY <2>5, <2>6, <2>7 DEF Bound
  <2>9. Places(b, ev) /\ Order(b)
    BY <1>1, <2>5, <2>6 DEF Core, Sound, Places, Order
  <2>10. Results(b, ev)
    <3>1. ASSUME NEW i \in DOMAIN ev, ev[i][1] = "audio"
          PROVE  ev[i][2] # s
      <4>1. ev[i] = <<"audio", ev[i][2]>> /\ ev[i][2] \in Segment
        BY <1>2, <3>1, LenProperties, ElementOfSeq
      <4>2. ev[i][2] \in Coming(ev)
        BY <4>1 DEF Coming
      <4> QED
        BY <2>7, <4>2 DEF Live
    <3> QED
      BY <1>1, <2>5, <3>1 DEF Core, Sound, Results
  <2>11. s \in 1 .. b.shown /\ s \notin Batched(b)
    BY <1>1, <2>3, <2>5, <2>6 DEF Core, Sound, Order
  <2>12. Fresh(b, ev)
    BY <1>1, <2>3, <2>5, <2>6, <2>7, <2>11 DEF Core, Sound, Fresh
  <2>13. None \notin f.ahead /\ None \notin f.ready
    BY <1>2 DEF UiState, Segment, None
  <2>18. Handles(b, ev)
    <3>1. Handles(f, ev)
      BY <1>1 DEF Core, Sound
    <3>2. s \in b.ahead \ (b.wanted \cup b.cancelled)
      BY <2>5, <2>7, <3>1 DEF Handles
    <3>3. (Live(b, ev) \cap b.ahead) \ b.wanted \subseteq b.cancelled \cup {b.handle}
      BY <1>1, <2>5, <2>6, <2>7, <2>13, <3>1 DEF Handles
    <3> QED
      BY <2>5, <2>6, <2>8, <3>1, <3>2, <3>3 DEF Handles
  <2>14. Turn(b, ev)
    BY <1>1, <2>5, <2>8 DEF Core, Sound, Turn
  <2>19. FilesBut(b, ev, {})
    BY <1>1, <2>5, <2>13 DEF Core, FilesBut
  <2>15. Core(b, ev)
    BY <1>2, <2>4, <2>9, <2>10, <2>12, <2>14, <2>18, <2>19 DEF Core, Sound
  <2>16. s <= b.shown
    BY <1>2, <2>3, <2>5, <2>11 DEF Segment
  <2>17. /\ Core(Submit(b, s), ev) /\ SameText(b, Submit(b, s)) /\ Submit(b, s).handle = b.handle
    BY <2>3, <2>5, <2>6, <2>7, <2>11, <2>15, <2>16, SubmitCore
  <2> QED
    BY <1>1, <2>1, <2>2, <2>5, <2>17 DEF SameText, HandleNext, NextFresh
<1> QED
  BY <1>3, <1>4

LEMMA ShowNextCore ==
  ASSUME NEW u, NEW ev, Core(u, ev), HandleNext(u), NextFresh(u, ev), u.pending # <<>>,
         Bound(u, ev) \subseteq u.stale
  PROVE  LET v == ShowNext(u)
         IN /\ Core(v, ev) /\ HandleNext(v) /\ NextFresh(v, ev)
            /\ v.shown = u.shown /\ v.batches = u.batches /\ v.stale = u.stale /\ v.voice = u.voice
<1> DEFINE a == Shown(u)
           b == Speak(a)
<1>1. /\ Core(a, ev) /\ Bound(a, ev) \subseteq a.stale
      /\ a.handle \in {None, a.current} /\ a.current # None /\ ~a.ttsDone
      /\ a.current \notin Touched(a, ev) \/ a.current = a.handle \/ a.voice = "off"
      /\ \A i \in DOMAIN a.pending : a.pending[i] \notin Touched(a, ev)
      /\ a.shown = u.shown /\ a.batches = u.batches /\ a.stale = u.stale /\ a.voice = u.voice
  BY ShownCore
<1> HIDE DEF a
<1>2. /\ Core(b, ev) /\ Touched(b, ev) \subseteq Touched(a, ev) \cup {a.current}
      /\ SameText(a, b)
  BY <1>1, SpeakCore
<1> HIDE DEF b
<1>3. b.pending # <<>> => Head(b.pending) \notin Touched(b, ev)
  <2> SUFFICES ASSUME b.pending # <<>>
               PROVE  Head(b.pending) \notin Touched(b, ev)
    OBVIOUS
  <2>1. b.pending = a.pending /\ b.current = a.current /\ b.pending \in Seq(Segment)
    BY <1>2 DEF SameText, Core, Sound, UiState
  <2>2. Head(b.pending) = b.pending[1] /\ 1 \in DOMAIN b.pending
    BY <2>1, HeadTailProperties, EmptySeq, LenProperties
  <2>3. b.pending[1] # b.current
    BY <1>2, <2>2 DEF Core, Sound, Order, Range
  <2> QED
    BY <1>1, <1>2, <2>1, <2>2, <2>3
<1>4. LET v == PrepareNext(b)
      IN Core(v, ev) /\ HandleNext(v) /\ NextFresh(v, ev) /\ SameText(b, v)
  BY <1>2, <1>3, PrepareNextCore
<1>5. ShowNext(u) = PrepareNext(b)
  BY DEF ShowNext, a, b
<1> QED
  BY <1>1, <1>2, <1>4, <1>5 DEF SameText

LEMMA ResetCore ==
  ASSUME NEW u, NEW ev, Core(u, ev), Bound(u, ev) \subseteq u.stale
  PROVE  LET v == Reset(u)
         IN /\ Core(v, ev) /\ Touched(v, ev) \subseteq Touched(u, ev)
            /\ Bound(v, ev) \subseteq v.stale /\ v.handle = None /\ v.current = None
            /\ v.pending = u.pending /\ v.batches = u.batches
            /\ v.shown = u.shown /\ v.stale = u.stale /\ v.voice = u.voice
<1> DEFINE f == Discard(u)
           v == [f EXCEPT !.current = None, !.textDone = FALSE, !.ttsDone = TRUE, !.advancing = FALSE]
<1>1. /\ Core(f, ev) /\ Touched(f, ev) \subseteq Touched(u, ev)
      /\ Bound(f, ev) \subseteq f.stale /\ SameText(u, f) /\ f.handle = None
  BY DiscardCore DEF SameText
<1>2. f \in UiState /\ ev \in Seq(Signals \X Segment)
  BY <1>1 DEF Core, Sound
<1>3. Reset(u) = v
  BY DEF Reset
<1> HIDE DEF f
<1>4. v \in UiState
  BY <1>2 DEF UiState
<1>5. /\ v.requests = f.requests /\ v.ready = f.ready /\ v.list = f.list
      /\ v.ahead = f.ahead /\ v.wanted = f.wanted /\ v.cancelled = f.cancelled
      /\ v.failed = f.failed /\ v.handle = f.handle /\ v.audio = f.audio
      /\ v.pending = f.pending /\ v.batches = f.batches /\ v.current = None
      /\ v.shown = f.shown /\ v.ttsDone = TRUE /\ v.advancing = FALSE
      /\ v.stale = f.stale /\ v.begun = f.begun /\ v.voice = f.voice
      /\ v.files = f.files /\ v.active = f.active /\ v.stage = f.stage
  BY <1>2 DEF UiState
<1> HIDE DEF v
<1>6. /\ Working(v) = Working(f) /\ Batched(v) = Batched(f) /\ Over(v, ev) = Over(f, ev)
      /\ Playing(v) = Playing(f) /\ Live(v, ev) = Live(f, ev)
  BY <1>5 DEF Over, Working, Playing, Batched, Live
<1>7. Touched(v, ev) = Touched(f, ev) /\ Bound(v, ev) = Bound(f, ev)
  BY <1>5, <1>6 DEF Touched, Bound
<1>8. Places(v, ev) /\ Results(v, ev)
  BY <1>1, <1>5, <1>6 DEF Core, Sound, Places, Results
<1>9. Order(v)
  <2>1. None \notin Range(f.pending) \cup Batched(f)
    <3>1. Range(f.pending) \cup Batched(f) \subseteq 1 .. f.shown
      BY <1>1 DEF Core, Sound, Order
    <3> QED
      BY <3>1 DEF None
  <2>2. None <= f.shown
    BY <1>2 DEF UiState, None
  <2> QED
    BY <1>1, <1>5, <1>6, <2>1, <2>2 DEF Core, Sound, Order
<1>10. Fresh(v, ev) /\ Handles(v, ev) /\ Turn(v, ev)
  BY <1>1, <1>5, <1>6, <1>7 DEF Core, Sound, Fresh, Handles, Turn
<1>11. FilesBut(v, ev, {})
  BY <1>1, <1>5 DEF Core, FilesBut
<1> QED
  BY <1>1, <1>2, <1>3, <1>4, <1>5, <1>7, <1>8, <1>9, <1>10, <1>11 DEF Core, Sound, SameText

(* A reply is shown from its first segment on. *)
LEMMA ShowReplyCore ==
  ASSUME NEW u, NEW ev, Core(u, ev), Bound(u, ev) \subseteq u.stale,
         NEW reply \in Seq(Segment), reply # <<>>, IsInjective(reply),
         Range(reply) \subseteq 1 .. u.shown,
         Range(reply) \cap (Touched(u, ev) \cup Batched(u)) = {}
  PROVE  LET v == ShowReply(u, reply)
         IN /\ Core(v, ev) /\ HandleNext(v) /\ NextFresh(v, ev)
            /\ v.shown = u.shown /\ v.batches = u.batches /\ v.stale = u.stale /\ v.voice = u.voice
<1> DEFINE r == Reset(u)
           v == [r EXCEPT !.pending = reply]
<1>1. /\ Core(r, ev) /\ Touched(r, ev) \subseteq Touched(u, ev)
      /\ Bound(r, ev) \subseteq r.stale /\ r.handle = None /\ r.current = None
      /\ r.batches = u.batches
      /\ r.shown = u.shown /\ r.stale = u.stale /\ r.voice = u.voice
  BY ResetCore
<1>2. r \in UiState /\ ev \in Seq(Signals \X Segment)
  BY <1>1 DEF Core, Sound
<1>3. ShowReply(u, reply) = ShowNext(v)
  BY DEF ShowReply
<1> HIDE DEF r
<1>4. v \in UiState
  BY <1>2 DEF UiState
<1>5. /\ v.requests = r.requests /\ v.ready = r.ready /\ v.list = r.list
      /\ v.ahead = r.ahead /\ v.wanted = r.wanted /\ v.cancelled = r.cancelled
      /\ v.failed = r.failed /\ v.handle = r.handle /\ v.audio = r.audio
      /\ v.pending = reply /\ v.batches = r.batches /\ v.current = r.current
      /\ v.shown = r.shown /\ v.ttsDone = r.ttsDone /\ v.advancing = r.advancing
      /\ v.stale = r.stale /\ v.begun = r.begun /\ v.voice = r.voice
      /\ v.files = r.files /\ v.active = r.active /\ v.stage = r.stage
  BY <1>2 DEF UiState
<1> HIDE DEF v
<1>6. /\ Working(v) = Working(r) /\ Batched(v) = Batched(r) /\ Over(v, ev) = Over(r, ev)
      /\ Playing(v) = Playing(r) /\ Live(v, ev) = Live(r, ev) /\ Batched(r) = Batched(u)
  BY <1>1, <1>5 DEF Over, Working, Playing, Batched, Live
<1>7. Touched(v, ev) = Touched(r, ev) /\ Bound(v, ev) = Bound(r, ev)
  BY <1>5, <1>6 DEF Touched, Bound
<1>8. Places(v, ev) /\ Results(v, ev)
  BY <1>1, <1>5, <1>6 DEF Core, Sound, Places, Results
<1>9. Order(v)
  <2>1. None \notin Range(reply)
    BY DEF None
  <2> QED
    BY <1>1, <1>5, <1>6, <2>1 DEF Core, Sound, Order
<1>10. Fresh(v, ev)
  <2>1. \A i \in DOMAIN reply : reply[i] \in Range(reply)
    BY DEF Range
  <2> QED
    BY <1>1, <1>5, <1>6, <1>7, <2>1 DEF Core, Sound, Fresh
<1>11. Handles(v, ev) /\ Turn(v, ev)
  BY <1>1, <1>5, <1>6, <1>7 DEF Core, Sound, Handles, Turn
<1>12. FilesBut(v, ev, {})
  BY <1>1, <1>5 DEF Core, FilesBut
<1>13. Core(v, ev)
  BY <1>2, <1>4, <1>8, <1>9, <1>10, <1>11, <1>12 DEF Core, Sound
<1>14. HandleNext(v)
  BY <1>1, <1>5 DEF HandleNext
<1>15. NextFresh(v, ev)
  <2>1. Head(reply) \in Range(reply)
    BY HeadTail
  <2> QED
    BY <1>1, <1>5, <1>7, <2>1 DEF NextFresh
<1> QED
  BY <1>1, <1>3, <1>5, <1>7, <1>13, <1>14, <1>15, ShowNextCore

(* Text and speech of a segment are over: the next one, or the next reply. *)
LEMMA AdvanceCore ==
  ASSUME NEW u, NEW ev, Core(u, ev), HandleNext(u), u.current # None, NEW interacting
  PROVE  Onward(u, Advance(u, interacting), ev)
<1> DEFINE n == Advance(u, interacting)
<1>1. /\ u \in UiState /\ ev \in Seq(Signals \X Segment) /\ u.current \in Segment
      /\ u.batches \in Seq(Seq(Segment))
  BY DEF Core, Sound, UiState
<1>2. Onward(u, u, ev)
  BY DEF Onward
<1>3. CASE \/ ~(u.textDone /\ u.ttsDone)
           \/ u.pending = <<>> /\ ~(interacting /\ u.batches # <<>>)
           \/ u.pending # <<>> /\ u.advancing
  <2>1. n = u
    BY <1>3 DEF Advance
  <2> QED
    BY <1>2, <2>1
<1>4. CASE u.textDone /\ u.ttsDone /\ u.pending = <<>> /\ interacting /\ u.batches # <<>>
  <2> DEFINE reply == Head(u.batches)
             rest == Tail(u.batches)
             a == [u EXCEPT !.batches = rest]
  <2>1. n = ShowReply(a, reply)
    BY <1>4 DEF Advance
  <2>2. /\ reply \in Seq(Segment) /\ rest \in Seq(Seq(Segment))
        /\ reply = u.batches[1] /\ 1 \in DOMAIN u.batches
        /\ \A b \in DOMAIN rest : rest[b] = u.batches[b + 1] /\ b + 1 \in DOMAIN u.batches /\ b + 1 # 1
    <3>1. /\ reply \in Seq(Segment) /\ rest \in Seq(Seq(Segment)) /\ reply = u.batches[1]
          /\ Len(rest) = Len(u.batches) - 1 /\ Len(u.batches) \in Nat \ {0}
          /\ DOMAIN u.batches = 1 .. Len(u.batches) /\ DOMAIN rest = 1 .. Len(rest)
          /\ \A b \in 1 .. Len(rest) : rest[b] = u.batches[b + 1]
      BY <1>1, <1>4, HeadTailProperties, LenProperties, EmptySeq
    <3> HIDE DEF reply, rest
    <3>2. ASSUME NEW b \in DOMAIN rest
          PROVE  rest[b] = u.batches[b + 1] /\ b + 1 \in DOMAIN u.batches /\ b + 1 # 1
      BY <3>1
    <3>3. 1 \in DOMAIN u.batches
      BY <3>1
    <3> QED
      BY <3>1, <3>2, <3>3
  <2> HIDE DEF reply, rest
  <2>3. a \in UiState
    BY <1>1, <2>2 DEF UiState
  <2>4. /\ a.requests = u.requests /\ a.ready = u.ready /\ a.list = u.list
        /\ a.ahead = u.ahead /\ a.wanted = u.wanted /\ a.cancelled = u.cancelled
        /\ a.failed = u.failed /\ a.handle = u.handle /\ a.audio = u.audio
        /\ a.pending = u.pending /\ a.batches = rest /\ a.current = u.current
        /\ a.shown = u.shown /\ a.ttsDone = u.ttsDone /\ a.advancing = u.advancing
        /\ a.stale = u.stale /\ a.begun = u.begun /\ a.voice = u.voice
        /\ a.files = u.files /\ a.active = u.active /\ a.stage = u.stage
    BY <1>1 DEF UiState
  <2> HIDE DEF a
  <2>5. /\ Working(a) = Working(u) /\ Over(a, ev) = Over(u, ev)
        /\ Playing(a) = Playing(u) /\ Live(a, ev) = Live(u, ev)
    BY <2>4 DEF Over, Working, Playing, Live
  <2>6. Touched(a, ev) = Touched(u, ev) /\ Bound(a, ev) = Bound(u, ev)
    BY <2>4, <2>5 DEF Touched, Bound
  <2>7. Order(u) /\ Fresh(u, ev)
    BY DEF Core, Sound
  <2>8. \A b \in DOMAIN u.batches : Range(u.batches[b]) \subseteq Batched(u)
    BY DEF Batched
  <2>9. Batched(a) \subseteq Batched(u)
    BY <2>2, <2>4, <2>8 DEF Batched
  <2>10. /\ Range(reply) \subseteq Batched(u) /\ Range(reply) \cap Batched(a) = {}
         /\ reply # <<>> /\ IsInjective(reply)
    <3>1. \A b \in DOMAIN rest : Range(rest[b]) \cap Range(reply) = {}
      BY <2>2, <2>7 DEF Order
    <3>2. Range(reply) \cap Batched(a) = {}
      BY <2>4, <3>1 DEF Batched
    <3> QED
      BY <2>2, <2>7, <2>8, <3>2 DEF Order
  <2>11. Order(a)
    <3>1. \A b \in DOMAIN a.batches : a.batches[b] # <<>> /\ IsInjective(a.batches[b])
      BY <2>2, <2>4, <2>7 DEF Order
    <3>2. ASSUME NEW b \in DOMAIN a.batches, NEW c \in DOMAIN a.batches, b # c
          PROVE  Range(a.batches[b]) \cap Range(a.batches[c]) = {}
      <4>1. b \in Int /\ c \in Int
        BY <2>2, <2>4, LenProperties
      <4>2. b + 1 # c + 1
        BY <3>2, <4>1
      <4>3. /\ a.batches[b] = u.batches[b + 1] /\ b + 1 \in DOMAIN u.batches
            /\ a.batches[c] = u.batches[c + 1] /\ c + 1 \in DOMAIN u.batches
        BY <2>2, <2>4
      <4>4. \A i, j \in DOMAIN u.batches : i # j => Range(u.batches[i]) \cap Range(u.batches[j]) = {}
        BY <2>7 DEF Order
      <4> QED
        BY <4>2, <4>3, <4>4
    <3> QED
      BY <2>4, <2>7, <2>9, <3>1, <3>2 DEF Order
  <2>12. Places(a, ev) /\ Results(a, ev)
    BY <2>4, <2>5 DEF Core, Sound, Places, Results
  <2>13. Fresh(a, ev) /\ Handles(a, ev) /\ Turn(a, ev)
    BY <2>4, <2>5, <2>6, <2>9 DEF Core, Sound, Fresh, Handles, Turn
  <2>14. FilesBut(a, ev, {})
    BY <2>4 DEF Core, FilesBut
  <2>15. Core(a, ev)
    BY <1>1, <2>3, <2>11, <2>12, <2>13, <2>14 DEF Core, Sound
  <2>16. Bound(a, ev) \subseteq a.stale
    BY <1>4, <2>4, <2>6 DEF Core, Sound, Turn
  <2>17. Range(reply) \subseteq 1 .. a.shown /\ Range(reply) \cap (Touched(a, ev) \cup Batched(a)) = {}
    BY <2>4, <2>6, <2>7, <2>10 DEF Order, Fresh
  <2>18. LET v == ShowReply(a, reply)
         IN /\ Core(v, ev) /\ HandleNext(v) /\ NextFresh(v, ev)
            /\ v.shown = a.shown /\ v.batches = a.batches /\ v.stale = a.stale /\ v.voice = a.voice
    BY <2>2, <2>10, <2>15, <2>16, <2>17, ShowReplyCore
  <2> QED
    BY <2>1, <2>4, <2>18 DEF Onward
<1>5. CASE u.textDone /\ u.ttsDone /\ u.pending # <<>> /\ ~u.advancing
  <2> DEFINE v == [u EXCEPT !.advancing = TRUE, !.timers = @ \cup {u.current}]
  <2>1. n = v
    BY <1>5 DEF Advance
  <2>2. v \in UiState
    BY <1>1 DEF UiState
  <2>3. /\ v.requests = u.requests /\ v.ready = u.ready /\ v.list = u.list
        /\ v.ahead = u.ahead /\ v.wanted = u.wanted /\ v.cancelled = u.cancelled
        /\ v.failed = u.failed /\ v.handle = u.handle /\ v.audio = u.audio
        /\ v.pending = u.pending /\ v.batches = u.batches /\ v.current = u.current
        /\ v.shown = u.shown /\ v.ttsDone = u.ttsDone /\ v.advancing = TRUE
        /\ v.stale = u.stale /\ v.begun = u.begun /\ v.voice = u.voice
        /\ v.files = u.files /\ v.active = u.active /\ v.stage = u.stage
    BY <1>1 DEF UiState
  <2> HIDE DEF v
  <2>4. /\ Working(v) = Working(u) /\ Batched(v) = Batched(u) /\ Over(v, ev) = Over(u, ev)
        /\ Playing(v) = Playing(u) /\ Live(v, ev) = Live(u, ev)
    BY <2>3 DEF Over, Working, Playing, Batched, Live
  <2>5. Touched(v, ev) = Touched(u, ev) /\ Bound(v, ev) = Bound(u, ev)
    BY <2>3, <2>4 DEF Touched, Bound
  <2>6. Places(v, ev) /\ Results(v, ev) /\ Order(v)
    BY <2>3, <2>4 DEF Core, Sound, Places, Results, Order
  <2>7. Fresh(v, ev) /\ Handles(v, ev) /\ Turn(v, ev)
    BY <1>5, <2>3, <2>4, <2>5 DEF Core, Sound, Fresh, Handles, Turn
  <2>8. FilesBut(v, ev, {})
    BY <2>3 DEF Core, FilesBut
  <2>9. HandleNext(v) /\ (NextFresh(u, ev) => NextFresh(v, ev))
    BY <2>3, <2>5 DEF HandleNext, NextFresh
  <2> QED
    BY <1>1, <2>1, <2>2, <2>3, <2>6, <2>7, <2>8, <2>9 DEF Core, Sound, Onward
<1> QED
  BY <1>3, <1>4, <1>5

(* The speech of a segment is over that is not under way any more. *)
LEMMA FinishedCore ==
  ASSUME NEW u, NEW ev, Core(u, ev), HandleNext(u), NEW s \in Segment, s \notin Bound(u, ev),
         NEW interacting
  PROVE  Onward(u, Finished(u, s, interacting), ev)
<1>1. u \in UiState /\ ev \in Seq(Signals \X Segment)
  BY DEF Core, Sound
<1>2. CASE s # u.current
  BY <1>2 DEF Finished, Onward
<1>3. CASE s = u.current
  <2> DEFINE v == [u EXCEPT !.ttsDone = TRUE]
  <2>1. Finished(u, s, interacting) = Advance(v, interacting)
    BY <1>3 DEF Finished
  <2>2. v \in UiState
    BY <1>1 DEF UiState
  <2>3. /\ v.requests = u.requests /\ v.ready = u.ready /\ v.list = u.list
        /\ v.ahead = u.ahead /\ v.wanted = u.wanted /\ v.cancelled = u.cancelled
        /\ v.failed = u.failed /\ v.handle = u.handle /\ v.audio = u.audio
        /\ v.pending = u.pending /\ v.batches = u.batches /\ v.current = u.current
        /\ v.shown = u.shown /\ v.ttsDone = TRUE /\ v.advancing = u.advancing
        /\ v.stale = u.stale /\ v.begun = u.begun /\ v.voice = u.voice
        /\ v.files = u.files /\ v.active = u.active /\ v.stage = u.stage
    BY <1>1 DEF UiState
  <2> HIDE DEF v
  <2>4. /\ Working(v) = Working(u) /\ Batched(v) = Batched(u) /\ Over(v, ev) = Over(u, ev)
        /\ Playing(v) = Playing(u) /\ Live(v, ev) = Live(u, ev)
    BY <2>3 DEF Over, Working, Playing, Batched, Live
  <2>5. Touched(v, ev) = Touched(u, ev) /\ Bound(v, ev) = Bound(u, ev)
    BY <2>3, <2>4 DEF Touched, Bound
  <2>6. Places(v, ev) /\ Results(v, ev) /\ Order(v)
    BY <2>3, <2>4 DEF Core, Sound, Places, Results, Order
  <2>7. Fresh(v, ev) /\ Handles(v, ev) /\ Turn(v, ev)
    BY <1>3, <2>3, <2>4, <2>5 DEF Core, Sound, Fresh, Handles, Turn
  <2>8. FilesBut(v, ev, {})
    BY <2>3 DEF Core, FilesBut
  <2>9. HandleNext(v) /\ (NextFresh(u, ev) => NextFresh(v, ev))
    BY <2>3, <2>5 DEF HandleNext, NextFresh
  <2>10. Core(v, ev) /\ v.current # None
    BY <1>1, <1>3, <2>2, <2>3, <2>6, <2>7, <2>8 DEF Core, Sound, Segment, None
  <2>11. Onward(v, Advance(v, interacting), ev)
    BY <2>9, <2>10, AdvanceCore
  <2> QED
    BY <2>1, <2>3, <2>9, <2>11 DEF Onward
<1> QED
  BY <1>2, <1>3

LEMMA StartedCore ==
  ASSUME NEW u, NEW ev, Core(u, ev), NEW s
  PROVE  /\ Core(Started(u, s), ev)
         /\ Touched(Started(u, s), ev) = Touched(u, ev) /\ Bound(Started(u, s), ev) = Bound(u, ev)
         /\ SameText(u, Started(u, s)) /\ Started(u, s).handle = u.handle
         /\ Started(u, s).audio = u.audio
<1>1. CASE s # u.current
  BY <1>1 DEF Started, SameText
<1>2. CASE s = u.current
  <2> DEFINE v == [u EXCEPT !.typing = TRUE]
  <2>1. Started(u, s) = v
    BY <1>2 DEF Started
  <2>2. u \in UiState
    BY DEF Core, Sound
  <2>3. v \in UiState
    BY <2>2 DEF UiState
  <2>4. /\ v.requests = u.requests /\ v.ready = u.ready /\ v.list = u.list
        /\ v.ahead = u.ahead /\ v.wanted = u.wanted /\ v.cancelled = u.cancelled
        /\ v.failed = u.failed /\ v.handle = u.handle /\ v.audio = u.audio
        /\ v.pending = u.pending /\ v.batches = u.batches /\ v.current = u.current
        /\ v.shown = u.shown /\ v.ttsDone = u.ttsDone /\ v.advancing = u.advancing
        /\ v.stale = u.stale /\ v.begun = u.begun /\ v.voice = u.voice
        /\ v.files = u.files /\ v.active = u.active /\ v.stage = u.stage
    BY <2>2 DEF UiState
  <2> HIDE DEF v
  <2>5. Core(v, ev) /\ Live(v, ev) = Live(u, ev) /\ Over(v, ev) = Over(u, ev)
    BY <2>3, <2>4, Unseen DEF Alike
  <2> QED
    BY <2>1, <2>4, <2>5 DEF SameText, Touched, Bound
<1> QED
  BY <1>1, <1>2

(* Both callbacks of a segment that is not under way *)
LEMMA BothCore ==
  ASSUME NEW u, NEW ev, Core(u, ev), HandleNext(u), NEW s \in Segment, s \notin Bound(u, ev),
         NEW interacting
  PROVE  Onward(u, Both(u, s, interacting), ev)
<1> DEFINE a == Started(u, s)
<1>1. /\ Core(a, ev) /\ Touched(a, ev) = Touched(u, ev) /\ Bound(a, ev) = Bound(u, ev)
      /\ SameText(u, a) /\ a.handle = u.handle
  BY StartedCore
<1>2. Both(u, s, interacting) = Finished(a, s, interacting)
  BY DEF Both
<1> HIDE DEF a
<1>3. HandleNext(a) /\ (NextFresh(u, ev) => NextFresh(a, ev))
  BY <1>1 DEF SameText, HandleNext, NextFresh
<1>4. Onward(a, Finished(a, s, interacting), ev)
  BY <1>1, <1>3, FinishedCore
<1> QED
  BY <1>1, <1>2, <1>3, <1>4 DEF Onward, SameText

-----------------------------------------------------------------------------
(* The end of an audio, and the end of all. *)

LEMMA StoppedCore ==
  ASSUME NEW u, NEW ev, Core(u, ev), u.audio # None
  PROVE  /\ Core(Stopped(u), ev) /\ u.audio \notin Bound(Stopped(u), ev)
         /\ Touched(Stopped(u), ev) \subseteq Touched(u, ev)
         /\ SameText(u, Stopped(u)) /\ Stopped(u).handle = u.handle
<1> DEFINE v == [u EXCEPT !.audio = None, !.begun = FALSE, !.files = @ \ {u.audio}]
<1>1. u \in UiState /\ ev \in Seq(Signals \X Segment) /\ Stopped(u) = v
  BY DEF Core, Sound, Stopped
<1>2. v \in UiState
  BY <1>1 DEF UiState
<1>3. /\ v.requests = u.requests /\ v.ready = u.ready /\ v.list = u.list
      /\ v.ahead = u.ahead /\ v.wanted = u.wanted /\ v.cancelled = u.cancelled
      /\ v.failed = u.failed /\ v.handle = u.handle /\ v.audio = None
      /\ v.pending = u.pending /\ v.batches = u.batches /\ v.current = u.current
      /\ v.shown = u.shown /\ v.ttsDone = u.ttsDone /\ v.advancing = u.advancing
      /\ v.stale = u.stale /\ v.begun = FALSE /\ v.voice = u.voice
      /\ v.files = u.files \ {u.audio} /\ v.active = u.active /\ v.stage = u.stage
  BY <1>1 DEF UiState
<1> HIDE DEF v
<1>4. /\ Working(v) = Working(u) /\ Batched(v) = Batched(u) /\ Over(v, ev) = Over(u, ev)
      /\ Playing(v) = {} /\ Playing(u) = {u.audio}
  BY <1>3 DEF Over, Working, Playing, Batched
<1>5. Live(v, ev) = Live(u, ev) \ {u.audio}
  BY <1>3, <1>4 DEF Core, Sound, Places, Live
<1>6. /\ Touched(v, ev) \subseteq Touched(u, ev)
      /\ Bound(v, ev) \subseteq Bound(u, ev) /\ u.audio \notin Bound(v, ev)
  BY <1>3, <1>4, <1>5 DEF Touched, Bound
<1>7. Places(v, ev)
  BY <1>3, <1>4, <1>5 DEF Core, Sound, Places
<1>8. Results(v, ev) /\ Order(v)
  BY <1>3, <1>4 DEF Core, Sound, Results, Order
<1>9. Fresh(v, ev) /\ Turn(v, ev)
  BY <1>3, <1>4, <1>6 DEF Core, Sound, Fresh, Turn
<1>10. Handles(v, ev)
  <2>1. Range(v.list) \cup Playing(v) \subseteq Bound(v, ev)
    BY <1>3, <1>4, <1>5 DEF Core, Sound, Handles, Places, Bound
  <2> QED
    BY <1>3, <1>5, <2>1 DEF Core, Sound, Handles
<1>11. FilesBut(v, ev, {}) /\ SameText(u, v)
  BY <1>3 DEF Core, FilesBut, SameText
<1> QED
  BY <1>1, <1>2, <1>3, <1>6, <1>7, <1>8, <1>9, <1>10, <1>11 DEF Core, Sound

LEMMA FinishCore ==
  ASSUME NEW u, NEW ev, Core(u, ev), HandleNext(u), NEW interacting
  PROVE  Onward(u, Finish(u, interacting), ev)
<1>1. CASE u.audio = None
  BY <1>1 DEF Finish, Onward
<1>2. CASE u.audio # None
  <2> DEFINE s == u.audio
             a == Started(u, s)
             b == Stopped(a)
  <2>1. /\ Core(a, ev) /\ Touched(a, ev) = Touched(u, ev)
        /\ SameText(u, a) /\ a.handle = u.handle /\ a.audio = s
    BY StartedCore
  <2>2. Finish(u, interacting) = Finished(b, s, interacting) /\ s \in Segment
    BY <1>2 DEF Finish, Core, Sound, UiState
  <2> HIDE DEF a
  <2>3. /\ Core(b, ev) /\ s \notin Bound(b, ev) /\ Touched(b, ev) \subseteq Touched(a, ev)
        /\ SameText(a, b) /\ b.handle = a.handle
    BY <1>2, <2>1, StoppedCore
  <2> HIDE DEF b
  <2>4. HandleNext(b) /\ (NextFresh(u, ev) => NextFresh(b, ev))
    BY <2>1, <2>3 DEF SameText, HandleNext, NextFresh
  <2>5. Onward(b, Finished(b, s, interacting), ev)
    BY <2>2, <2>3, <2>4, FinishedCore
  <2> QED
    BY <2>1, <2>2, <2>3, <2>4, <2>5 DEF Onward, SameText
<1> QED
  BY <1>1, <1>2

(* Requests and audio are dropped; the segment in the bubble goes on. *)
LEMMA SilenceCore ==
  ASSUME NEW u, NEW ev, Core(u, ev), HandleNext(u), NEW interacting
  PROVE  Onward(u, Silence(u, interacting), ev)
<1> DEFINE R == Range(u.requests)
           waits == {s \in R : s \in u.ahead => s \in u.wanted \ u.cancelled}
           heard == (IF u.voice = "on" THEN waits ELSE {}) \cup Range(u.list) \cup {u.audio}
           d == u.dropped \cup R \cup (IF u.voice = "on" THEN {u.active} \ {None} ELSE {})
           v == [u EXCEPT !.dropped = d, !.failed = @ \cup (R \cap u.ahead), !.requests = <<>>,
                          !.files = @ \ (Range(u.list) \cup {u.audio}), !.list = <<>>,
                          !.audio = None, !.begun = FALSE]
<1>1. /\ u \in UiState /\ ev \in Seq(Signals \X Segment) /\ R \subseteq Segment
      /\ u.active \in Segment \cup {None} /\ u.dropped \subseteq Segment
      /\ u.current \in Segment \cup {None}
  <2>1. u \in UiState /\ ev \in Seq(Signals \X Segment)
    BY DEF Core, Sound
  <2>2. /\ u.requests \in Seq(Segment) /\ u.active \in Segment \cup {None}
        /\ u.dropped \subseteq Segment /\ u.current \in Segment \cup {None}
    BY <2>1 DEF UiState
  <2> QED
    BY <2>1, <2>2, RangeOfSeq
<1>2. Silence(u, interacting) = IF u.current \in heard \ {None}
                                THEN Both(v, u.current, interacting) ELSE v
  BY <1>1 DEF Silence, UiState
<1>3. d \subseteq Segment
  BY <1>1
<1>4. heard \subseteq R \cup Range(u.list) \cup {u.audio}
  OBVIOUS
<1> HIDE DEF R, heard, d
<1>5. v \in UiState
  <2>1. <<>> \in Seq(Segment)
    BY EmptySeq
  <2> QED
    BY <1>1, <1>3, <2>1 DEF UiState
<1>6. /\ v.requests = <<>> /\ v.ready = u.ready /\ v.list = <<>>
      /\ v.ahead = u.ahead /\ v.wanted = u.wanted /\ v.cancelled = u.cancelled
      /\ v.failed = u.failed \cup (R \cap u.ahead) /\ v.handle = u.handle /\ v.audio = None
      /\ v.pending = u.pending /\ v.batches = u.batches /\ v.current = u.current
      /\ v.shown = u.shown /\ v.ttsDone = u.ttsDone /\ v.advancing = u.advancing
      /\ v.stale = u.stale /\ v.begun = FALSE /\ v.voice = u.voice
      /\ v.files = u.files \ (Range(u.list) \cup {u.audio}) /\ v.active = u.active /\ v.stage = u.stage
  BY <1>1 DEF UiState
<1> HIDE DEF v
<1>7. Range(<<>>) = {} /\ IsInjective(<<>>)
  BY DEF Range, IsInjective
<1>8. /\ Working(v) = Working(u) /\ Batched(v) = Batched(u) /\ Playing(v) = {}
      /\ Over(v, ev) = Over(u, ev) \cup (R \cap u.ahead)
  BY <1>6 DEF Over, Working, Playing, Batched
<1>9. Live(v, ev) = Working(u) \cup Coming(ev) \cup u.ready
  BY <1>6, <1>7, <1>8 DEF Live
<1>10. Live(v, ev) \subseteq Live(u, ev) /\ Live(v, ev) \cap (R \cup Range(u.list) \cup Playing(u)) = {}
  BY <1>9 DEF Core, Sound, Places, Live, R
<1>11. R \subseteq Live(u, ev)
  BY DEF Live, R
<1>12. Touched(v, ev) \subseteq Touched(u, ev) /\ Bound(v, ev) \subseteq Bound(u, ev)
  BY <1>6, <1>8, <1>10, <1>11 DEF Touched, Bound
<1>13. Places(v, ev)
  BY <1>6, <1>7, <1>8, <1>10 DEF Core, Sound, Places
<1>14. Results(v, ev) /\ Order(v)
  BY <1>6, <1>8 DEF Core, Sound, Results, Order
<1>15. Fresh(v, ev) /\ Turn(v, ev)
  BY <1>6, <1>8, <1>12 DEF Core, Sound, Fresh, Turn
<1>16. Handles(v, ev)
  BY <1>6, <1>7, <1>8, <1>10 DEF Core, Sound, Handles
<1>17. FilesBut(v, ev, {})
  BY <1>6 DEF Core, FilesBut
<1>18. Core(v, ev)
  BY <1>1, <1>5, <1>13, <1>14, <1>15, <1>16, <1>17 DEF Core, Sound
<1>19. HandleNext(v) /\ (NextFresh(u, ev) => NextFresh(v, ev))
  BY <1>6, <1>12 DEF HandleNext, NextFresh
<1>20. CASE u.current \notin heard \ {None}
  BY <1>2, <1>6, <1>18, <1>19, <1>20 DEF Onward
<1>21. CASE u.current \in heard \ {None}
  <2>1. u.current \in R \cup Range(u.list) \cup Playing(u) /\ u.current \in Segment
    BY <1>1, <1>4, <1>21 DEF Playing
  <2>2. u.current \notin Bound(v, ev)
    BY <1>10, <2>1 DEF Bound
  <2>3. Onward(v, Both(v, u.current, interacting), ev)
    BY <1>18, <1>19, <2>1, <2>2, BothCore
  <2> QED
    BY <1>2, <1>6, <1>19, <1>21, <2>3 DEF Onward
<1> QED
  BY <1>20, <1>21

-----------------------------------------------------------------------------
(* The handlers.  Each leaves the invariant as it finds it. *)

(* What is bound stays so when neither the texts nor the handle change. *)
LEMMA WholeKept ==
  ASSUME NEW u, NEW ev, Whole(u, ev), NEW v, NEW e, Core(v, e),
         v.pending = u.pending, v.handle = u.handle, u.voice = "off" => v.voice = "off",
         Touched(v, e) \subseteq Touched(u, ev)
  PROVE  Whole(v, e)
BY DEF Whole, HandleNext, NextFresh

LEMMA OnwardWhole ==
  ASSUME NEW u, NEW v, NEW ev, NextFresh(u, ev), Onward(u, v, ev)
  PROVE  Whole(v, ev)
BY DEF Onward, Whole

LEMMA UnseenWhole ==
  ASSUME NEW u, NEW ev, Whole(u, ev), NEW v \in UiState, Alike(u, v), v.voice = u.voice
  PROVE  Whole(v, ev)
<1>1. Core(u, ev)
  BY DEF Whole
<1>2. Core(v, ev) /\ Live(v, ev) = Live(u, ev) /\ Over(v, ev) = Over(u, ev)
  BY <1>1, Unseen
<1>3. Touched(v, ev) \subseteq Touched(u, ev)
  BY <1>2 DEF Touched, Alike
<1> QED
  BY <1>2, <1>3, WholeKept DEF Alike

LEMMA InitWhole == Init => IInv
<1> SUFFICES ASSUME Init
             PROVE  Whole(ui, events)
  BY DEF IInv
<1>1. /\ ui.silent \in Guards /\ ui.shown = 0 /\ ui.pending = <<>> /\ ui.batches = <<>>
      /\ ui.current = None /\ ui.ttsDone = TRUE /\ ui.advancing = FALSE /\ ui.handle = None
      /\ ui.ahead = {} /\ ui.wanted = {} /\ ui.cancelled = {} /\ ui.failed = {} /\ ui.ready = {}
      /\ ui.requests = <<>> /\ ui.active = None /\ ui.stage = "end" /\ ui.list = <<>>
      /\ ui.audio = None /\ ui.begun = FALSE /\ ui.files = {} /\ ui.stale = {}
      /\ events = <<>>
  BY DEF Init
<1>2. ui \in UiState /\ events \in Seq(Signals \X Segment)
  <2>1. /\ <<>> \in Seq(Segment) /\ <<>> \in Seq(Seq(Segment)) /\ <<>> \in Seq(Signals \X Segment)
        /\ 0 \in 0 .. MaxSegments
    BY EmptySeq, ReplySpeechAssumption
  <2> QED
    BY <2>1 DEF Init, UiState
<1>3. Range(<<>>) = {} /\ IsInjective(<<>>) /\ DOMAIN <<>> = {}
  BY DEF Range, IsInjective
<1>4. /\ Working(ui) = {} /\ Coming(events) = {} /\ Playing(ui) = {} /\ Signalled(events) = {}
      /\ Batched(ui) = {}
  BY <1>1, <1>3 DEF Working, Coming, Playing, Signalled, Batched
<1>5. Live(ui, events) = {} /\ Over(ui, events) = {}
  BY <1>1, <1>3, <1>4 DEF Live, Over
<1>6. Touched(ui, events) = {} /\ Bound(ui, events) = {}
  BY <1>1, <1>5 DEF Touched, Bound
<1>7. Places(ui, events) /\ Results(ui, events)
  BY <1>1, <1>3, <1>4, <1>5 DEF Places, Results
<1>8. Order(ui)
  BY <1>1, <1>3, <1>4 DEF Order, None
<1>9. Fresh(ui, events) /\ Handles(ui, events) /\ Turn(ui, events)
  BY <1>1, <1>3, <1>4, <1>5, <1>6 DEF Fresh, Handles, Turn
<1>10. FilesBut(ui, events, {}) /\ HandleNext(ui) /\ NextFresh(ui, events)
  BY <1>1 DEF FilesBut, HandleNext, NextFresh
<1> QED
  BY <1>2, <1>7, <1>8, <1>9, <1>10 DEF Whole, Core, Sound

(* More segments are handed to the bubble. *)
LEMMA GrownCore ==
  ASSUME NEW u, NEW ev, Core(u, ev), NEW n \in u.shown .. MaxSegments
  PROVE  LET v == [u EXCEPT !.shown = n]
         IN /\ Core(v, ev) /\ Touched(v, ev) = Touched(u, ev) /\ Bound(v, ev) = Bound(u, ev)
            /\ Batched(v) = Batched(u) /\ v.shown = n /\ v.batches = u.batches
            /\ v.pending = u.pending /\ v.handle = u.handle
            /\ v.stale = u.stale /\ v.voice = u.voice
<1> DEFINE v == [u EXCEPT !.shown = n]
<1>1. u \in UiState /\ ev \in Seq(Signals \X Segment) /\ u.shown \in 0 .. MaxSegments
  BY DEF Core, Sound, UiState
<1>2. n \in 0 .. MaxSegments /\ 1 .. u.shown \subseteq 1 .. n
  BY <1>1, ReplySpeechAssumption
<1>3. v \in UiState
  BY <1>1, <1>2 DEF UiState
<1>4. /\ v.requests = u.requests /\ v.ready = u.ready /\ v.list = u.list
      /\ v.ahead = u.ahead /\ v.wanted = u.wanted /\ v.cancelled = u.cancelled
      /\ v.failed = u.failed /\ v.handle = u.handle /\ v.audio = u.audio
      /\ v.pending = u.pending /\ v.batches = u.batches /\ v.current = u.current
      /\ v.shown = n /\ v.ttsDone = u.ttsDone /\ v.advancing = u.advancing
      /\ v.stale = u.stale /\ v.begun = u.begun /\ v.voice = u.voice
      /\ v.files = u.files /\ v.active = u.active /\ v.stage = u.stage
  BY <1>1 DEF UiState
<1> HIDE DEF v
<1>5. /\ Working(v) = Working(u) /\ Batched(v) = Batched(u) /\ Over(v, ev) = Over(u, ev)
      /\ Playing(v) = Playing(u) /\ Live(v, ev) = Live(u, ev)
  BY <1>4 DEF Over, Working, Playing, Batched, Live
<1>6. Touched(v, ev) = Touched(u, ev) /\ Bound(v, ev) = Bound(u, ev)
  BY <1>4, <1>5 DEF Touched, Bound
<1>7. Places(v, ev) /\ Results(v, ev)
  BY <1>4, <1>5 DEF Core, Sound, Places, Results
<1>8. Order(v)
  <2>1. u.current <= n
    <3>1. u.current \in Int /\ u.current <= u.shown
      BY <1>1 DEF Core, Sound, Order, UiState, Segment, None
    <3> QED
      BY <1>1, <3>1
  <2> QED
    BY <1>2, <1>4, <1>5, <2>1 DEF Core, Sound, Order
<1>9. Fresh(v, ev)
  BY <1>2, <1>4, <1>5, <1>6 DEF Core, Sound, Fresh
<1>10. Handles(v, ev) /\ Turn(v, ev) /\ FilesBut(v, ev, {})
  BY <1>4, <1>5, <1>6 DEF Core, Sound, Handles, Turn, FilesBut
<1> QED
  BY <1>1, <1>3, <1>4, <1>5, <1>6, <1>7, <1>8, <1>9, <1>10 DEF Core, Sound, v

(* A reply waits for the one that is shown. *)
LEMMA BatchCore ==
  ASSUME NEW u, NEW ev, Core(u, ev), NEW reply \in Seq(Segment), reply # <<>>, IsInjective(reply),
         Range(reply) \subseteq 1 .. u.shown, u.current \notin Range(reply),
         Range(reply) \cap (Touched(u, ev) \cup Batched(u) \cup Range(u.pending)) = {}
  PROVE  LET v == [u EXCEPT !.batches = Append(@, reply)]
         IN /\ Core(v, ev) /\ Touched(v, ev) = Touched(u, ev)
            /\ v.pending = u.pending /\ v.handle = u.handle /\ v.voice = u.voice
<1> DEFINE q == Append(u.batches, reply)
           v == [u EXCEPT !.batches = q]
<1>1. u \in UiState /\ ev \in Seq(Signals \X Segment) /\ u.batches \in Seq(Seq(Segment))
  BY DEF Core, Sound, UiState
<1>2. /\ q \in Seq(Seq(Segment)) /\ Len(q) = Len(u.batches) + 1
      /\ \A i \in 1 .. Len(u.batches) : q[i] = u.batches[i]
      /\ q[Len(u.batches) + 1] = reply
      /\ Len(u.batches) \in Nat /\ DOMAIN u.batches = 1 .. Len(u.batches)
      /\ DOMAIN q = 1 .. Len(u.batches) + 1
  BY <1>1, AppendProperties, LenProperties
<1> HIDE DEF q
<1>3. v \in UiState
  BY <1>1, <1>2 DEF UiState
<1>4. /\ v.requests = u.requests /\ v.ready = u.ready /\ v.list = u.list
      /\ v.ahead = u.ahead /\ v.wanted = u.wanted /\ v.cancelled = u.cancelled
      /\ v.failed = u.failed /\ v.handle = u.handle /\ v.audio = u.audio
      /\ v.pending = u.pending /\ v.batches = q /\ v.current = u.current
      /\ v.shown = u.shown /\ v.ttsDone = u.ttsDone /\ v.advancing = u.advancing
      /\ v.stale = u.stale /\ v.begun = u.begun /\ v.voice = u.voice
      /\ v.files = u.files /\ v.active = u.active /\ v.stage = u.stage
  BY <1>1 DEF UiState
<1> HIDE DEF v
<1>5. /\ Working(v) = Working(u) /\ Over(v, ev) = Over(u, ev)
      /\ Playing(v) = Playing(u) /\ Live(v, ev) = Live(u, ev)
  BY <1>4 DEF Over, Working, Playing, Live
<1>6. Touched(v, ev) = Touched(u, ev) /\ Bound(v, ev) = Bound(u, ev)
  BY <1>4, <1>5 DEF Touched, Bound
<1>7. Places(v, ev) /\ Results(v, ev)
  BY <1>4, <1>5 DEF Core, Sound, Places, Results
<1>8. \A b \in DOMAIN q : q[b] = reply \/ (b \in DOMAIN u.batches /\ q[b] = u.batches[b])
  <2>1. \A b \in 1 .. Len(u.batches) + 1 : b \in 1 .. Len(u.batches) \/ b = Len(u.batches) + 1
    BY <1>2
  <2> QED
    BY <1>2, <2>1
<1>9. Batched(v) \subseteq Batched(u) \cup Range(reply)
  BY <1>4, <1>8 DEF Batched
<1>10. Order(v)
  <2>1. Order(u)
    BY DEF Core, Sound
  <2>2. \A b \in DOMAIN q : q[b] # <<>> /\ IsInjective(q[b])
    BY <1>8, <2>1 DEF Order
  <2>3. \A b \in DOMAIN u.batches : Range(u.batches[b]) \cap Range(reply) = {}
    BY DEF Batched
  <2>4. ASSUME NEW b \in DOMAIN q, NEW c \in DOMAIN q, b # c
        PROVE  Range(q[b]) \cap Range(q[c]) = {}
    <3> DEFINE n == Len(u.batches)
    <3>5. b \in 1 .. n + 1 /\ c \in 1 .. n + 1 /\ n \in Nat
      BY <1>2
    <3> HIDE DEF n
    <3>6. (b \in 1 .. n \/ b = n + 1) /\ (c \in 1 .. n \/ c = n + 1)
      BY <3>5
    <3>1. b \in 1 .. n \/ c \in 1 .. n
      BY <2>4, <3>6
    <3>2. CASE b \in 1 .. Len(u.batches) /\ c \in 1 .. Len(u.batches)
      BY <1>2, <2>1, <2>4, <3>2 DEF Order
    <3>3. CASE b \notin 1 .. Len(u.batches)
      <4>1. b = Len(u.batches) + 1
        BY <3>3, <3>6 DEF n
      <4> QED
        BY <1>2, <2>3, <3>1, <3>3, <4>1 DEF n
    <3>4. CASE c \notin 1 .. Len(u.batches)
      <4>1. c = Len(u.batches) + 1
        BY <3>4, <3>6 DEF n
      <4> QED
        BY <1>2, <2>3, <3>1, <3>4, <4>1 DEF n
    <3> QED
      BY <3>2, <3>3, <3>4
  <2>5. /\ Range(v.pending) \cap Batched(v) = {} /\ v.current \notin Range(v.pending) \cup Batched(v)
        /\ Range(v.pending) \cup Batched(v) \subseteq 1 .. v.shown
    BY <1>4, <1>9, <2>1 DEF Order
  <2> QED
    BY <1>4, <2>1, <2>2, <2>4, <2>5 DEF Order
<1>11. Fresh(v, ev)
  BY <1>4, <1>6, <1>9 DEF Core, Sound, Fresh
<1>12. Handles(v, ev) /\ Turn(v, ev) /\ FilesBut(v, ev, {})
  BY <1>4, <1>5, <1>6 DEF Core, Sound, Handles, Turn, FilesBut
<1> QED
  BY <1>1, <1>3, <1>4, <1>6, <1>7, <1>10, <1>11, <1>12 DEF Core, Sound, q, v

(* The segments of a reply come after all that were shown. *)
LEMMA ReplyStep ==
  ASSUME IInv, Reply
  PROVE  IInv'
<1>1. /\ Core(ui, events) /\ ui \in UiState /\ ui.shown \in 0 .. MaxSegments
      /\ HandleNext(ui) /\ NextFresh(ui, events) /\ Whole(ui, events)
  BY DEF IInv, Whole, Core, Sound, UiState
<1>2. PICK last \in ui.shown + 1 .. MaxSegments :
        LET reply == [i \in 1 .. last - ui.shown |-> ui.shown + i]
            u == [ui EXCEPT !.shown = last]
        IN ui' = IF Showing(ui) THEN [u EXCEPT !.batches = Append(@, reply)]
                                ELSE ShowReply(u, reply)
  BY DEF Reply
<1> DEFINE k == ui.shown
           n == last - k
           reply == [i \in 1 .. n |-> k + i]
           u == [ui EXCEPT !.shown = last]
<1>3. /\ k \in Nat /\ n \in Nat \ {0} /\ last \in k .. MaxSegments /\ last = k + n
      /\ last \in Nat /\ MaxSegments \in Nat
  BY <1>1, <1>2, ReplySpeechAssumption
<1>4. ui' = (IF Showing(ui) THEN [u EXCEPT !.batches = Append(@, reply)] ELSE ShowReply(u, reply))
  BY <1>2
<1>5. /\ Core(u, events) /\ Touched(u, events) = Touched(ui, events)
      /\ Bound(u, events) = Bound(ui, events) /\ Batched(u) = Batched(ui)
      /\ u.shown = last /\ u.pending = ui.pending /\ u.handle = ui.handle
      /\ u.stale = ui.stale /\ u.voice = ui.voice /\ u.current = ui.current
  BY <1>1, <1>3, GrownCore DEF UiState
<1> HIDE DEF u, k, n
<1>6. reply \in Seq(Segment)
  <2>1. \A i \in 1 .. n : k + i \in Segment
    BY <1>3 DEF Segment
  <2> QED
    BY <1>3, <2>1, IsASeq
<1>7. reply # <<>> /\ Range(reply) \subseteq 1 .. last /\ \A s \in Range(reply) : s > k
  <2>1. \A i \in 1 .. n : k + i \in 1 .. last /\ k + i > k
    BY <1>3
  <2>2. 1 \in DOMAIN reply
    BY <1>3
  <2> QED
    BY <2>1, <2>2 DEF Range
<1>8. IsInjective(reply)
  BY <1>3 DEF IsInjective
<1>9. \A s \in Touched(ui, events) \cup Batched(ui) \cup Range(ui.pending) \cup {ui.current} : ~(s > k)
  <2>1. Touched(ui, events) \cup Batched(ui) \cup Range(ui.pending) \subseteq 1 .. k
    BY <1>1 DEF Core, Sound, Fresh, Order, k
  <2>2. ui.current \in Int /\ ui.current <= k
    BY <1>1 DEF Core, Sound, Order, UiState, Segment, None, k
  <2> QED
    BY <1>3, <2>1, <2>2
<1> HIDE DEF reply
<1>10. Range(reply) \cap (Touched(u, events) \cup Batched(u) \cup Range(u.pending)) = {}
       /\ u.current \notin Range(reply)
  BY <1>5, <1>7, <1>9
<1>11. CASE Showing(ui)
  <2> DEFINE v == [u EXCEPT !.batches = Append(@, reply)]
  <2>1. /\ Core(v, events) /\ Touched(v, events) = Touched(u, events)
        /\ v.pending = u.pending /\ v.handle = u.handle /\ v.voice = u.voice
    BY <1>5, <1>6, <1>7, <1>8, <1>10, BatchCore
  <2> HIDE DEF v
  <2>2. Whole(v, events)
    BY <1>1, <1>5, <2>1, WholeKept
  <2>3. ui' = v /\ events' = events
    BY <1>4, <1>11 DEF Reply, v
  <2> QED
    BY <2>2, <2>3 DEF IInv
<1>12. CASE ~Showing(ui)
  <2>1. ui.ttsDone
    BY <1>1, <1>12 DEF Showing, Core, Sound, Turn
  <2>2. Bound(u, events) \subseteq u.stale
    BY <1>1, <1>5, <2>1 DEF Core, Sound, Turn
  <2>3. Whole(ShowReply(u, reply), events)
    BY <1>5, <1>6, <1>7, <1>8, <1>10, <2>2, ShowReplyCore DEF Whole
  <2>4. ui' = ShowReply(u, reply) /\ events' = events
    BY <1>4, <1>12 DEF Reply
  <2> QED
    BY <2>3, <2>4 DEF IInv
<1> QED
  BY <1>11, <1>12

LEMMA TextEndsStep ==
  ASSUME IInv, TextEnds
  PROVE  IInv'
<1>1. Whole(ui, events) /\ ui \in UiState /\ events' = events
  BY DEF IInv, Whole, Core, Sound, TextEnds
<1>2. PICK interacting \in BOOLEAN :
        LET u == [ui EXCEPT !.typing = FALSE]
        IN ui' = IF u.current = None THEN u ELSE Advance([u EXCEPT !.textDone = TRUE], interacting)
  BY DEF TextEnds
<1>3. CASE ui.current = None
  <2> DEFINE v == [ui EXCEPT !.typing = FALSE]
  <2>1. ui' = v
    BY <1>1, <1>2, <1>3 DEF UiState
  <2>2. v \in UiState
    BY <1>1 DEF UiState
  <2>3. Whole(v, events)
    <3>1. Alike(ui, v) /\ v.voice = ui.voice
      BY <1>1 DEF UiState, Alike
    <3> QED
      BY <1>1, <2>2, <3>1, UnseenWhole
  <2> QED
    BY <1>1, <2>1, <2>3 DEF IInv
<1>4. CASE ui.current # None
  <2> DEFINE v == [ui EXCEPT !.typing = FALSE, !.textDone = TRUE]
  <2>1. ui' = Advance(v, interacting)
    BY <1>1, <1>2, <1>4 DEF UiState
  <2>2. v \in UiState
    BY <1>1 DEF UiState
  <2>3. Whole(v, events) /\ v.current # None
    <3>1. Alike(ui, v) /\ v.voice = ui.voice
      BY <1>1 DEF UiState, Alike
    <3> QED
      BY <1>1, <1>4, <2>2, <3>1, UnseenWhole DEF Alike
  <2> HIDE DEF v
  <2>4. Whole(Advance(v, interacting), events)
    BY <2>3, AdvanceCore, OnwardWhole DEF Whole
  <2> QED
    BY <1>1, <2>1, <2>4 DEF IInv
<1> QED
  BY <1>3, <1>4

(* A text that is typed again calls the timer off. *)
LEMMA RestartTextStep ==
  ASSUME IInv, RestartText
  PROVE  IInv'
<1> DEFINE v == [ui EXCEPT !.textDone = FALSE, !.advancing = FALSE, !.typing = TRUE]
<1>1. Core(ui, events) /\ ui \in UiState /\ Whole(ui, events)
  BY DEF IInv, Whole, Core, Sound
<1>2. v \in UiState
  BY <1>1 DEF UiState
<1>3. /\ v.requests = ui.requests /\ v.ready = ui.ready /\ v.list = ui.list
      /\ v.ahead = ui.ahead /\ v.wanted = ui.wanted /\ v.cancelled = ui.cancelled
      /\ v.failed = ui.failed /\ v.handle = ui.handle /\ v.audio = ui.audio
      /\ v.pending = ui.pending /\ v.batches = ui.batches /\ v.current = ui.current
      /\ v.shown = ui.shown /\ v.ttsDone = ui.ttsDone /\ v.advancing = FALSE
      /\ v.stale = ui.stale /\ v.begun = ui.begun /\ v.voice = ui.voice
      /\ v.files = ui.files /\ v.active = ui.active /\ v.stage = ui.stage
  BY <1>1 DEF UiState
<1>4. ui' = v /\ events' = events
  BY DEF RestartText
<1> HIDE DEF v
<1>5. /\ Working(v) = Working(ui) /\ Batched(v) = Batched(ui) /\ Over(v, events) = Over(ui, events)
      /\ Playing(v) = Playing(ui) /\ Live(v, events) = Live(ui, events)
  BY <1>3 DEF Over, Working, Playing, Batched, Live
<1>6. Touched(v, events) = Touched(ui, events) /\ Bound(v, events) = Bound(ui, events)
  BY <1>3, <1>5 DEF Touched, Bound
<1>7. Places(v, events) /\ Results(v, events) /\ Order(v)
  BY <1>1, <1>3, <1>5 DEF Core, Sound, Places, Results, Order
<1>8. Fresh(v, events) /\ Handles(v, events) /\ Turn(v, events) /\ FilesBut(v, events, {})
  BY <1>1, <1>3, <1>5, <1>6 DEF Core, Sound, Fresh, Handles, Turn, FilesBut
<1>9. Core(v, events)
  BY <1>1, <1>2, <1>7, <1>8 DEF Core, Sound
<1>10. Whole(v, events)
  BY <1>1, <1>3, <1>6, <1>9, WholeKept
<1> QED
  BY <1>4, <1>10 DEF IInv

LEMMA TimerFiresStep ==
  ASSUME IInv, NEW s \in Segment, TimerFires(s)
  PROVE  IInv'
<1> DEFINE v == [ui EXCEPT !.timers = @ \ {s}]
<1>1. Whole(ui, events) /\ ui \in UiState
  BY DEF IInv, Whole, Core, Sound
<1>2. v \in UiState
  BY <1>1 DEF UiState
<1>3. Whole(v, events)
  <2>1. Alike(ui, v) /\ v.voice = ui.voice
    BY <1>1 DEF UiState, Alike
  <2> QED
    BY <1>1, <1>2, <2>1, UnseenWhole
<1>4. /\ ui' = (IF s = v.current /\ v.advancing /\ v.pending # <<>> THEN ShowNext(v) ELSE v)
      /\ events' = events
  BY DEF TimerFires
<1> HIDE DEF v
<1>5. CASE s = v.current /\ v.advancing /\ v.pending # <<>>
  <2>1. Bound(v, events) \subseteq v.stale
    BY <1>3, <1>5 DEF Whole, Core, Sound, Turn
  <2>2. Whole(ShowNext(v), events)
    BY <1>3, <1>5, <2>1, ShowNextCore DEF Whole
  <2> QED
    BY <1>4, <1>5, <2>2 DEF IInv
<1>6. CASE ~(s = v.current /\ v.advancing /\ v.pending # <<>>)
  BY <1>3, <1>4, <1>6 DEF IInv
<1> QED
  BY <1>5, <1>6

LEMMA PlayNextWhole ==
  ASSUME NEW u, NEW ev, Whole(u, ev)
  PROVE  Whole(PlayNext(u), ev)
<1>1. /\ Core(PlayNext(u), ev) /\ Touched(PlayNext(u), ev) = Touched(u, ev)
      /\ SameText(u, PlayNext(u)) /\ PlayNext(u).handle = u.handle
  BY PlayNextCore DEF Whole
<1> QED
  BY <1>1, WholeKept DEF SameText

LEMMA FinishWhole ==
  ASSUME NEW u, NEW ev, Whole(u, ev), NEW interacting
  PROVE  Whole(PlayNext(Finish(u, interacting)), ev)
<1>1. Whole(Finish(u, interacting), ev)
  BY FinishCore, OnwardWhole DEF Whole
<1> QED
  BY <1>1, PlayNextWhole

LEMMA WakeUpStep ==
  ASSUME IInv, WakeUp
  PROVE  IInv'
<1> DEFINE v == [ui EXCEPT !.wake = FALSE]
<1>1. Whole(ui, events) /\ ui \in UiState
  BY DEF IInv, Whole, Core, Sound
<1>2. v \in UiState
  BY <1>1 DEF UiState
<1>3. Whole(v, events)
  <2>1. Alike(ui, v) /\ v.voice = ui.voice
    BY <1>1 DEF UiState, Alike
  <2> QED
    BY <1>1, <1>2, <2>1, UnseenWhole
<1>4. ui' = PlayNext(v) /\ events' = events
  BY DEF WakeUp
<1> QED
  BY <1>3, <1>4, PlayNextWhole DEF IInv

LEMMA AudioEndsStep ==
  ASSUME IInv, AudioEnds
  PROVE  IInv'
BY FinishWhole DEF IInv, AudioEnds

LEMMA FallbackFiresStep ==
  ASSUME IInv, NEW s \in Segment, FallbackFires(s)
  PROVE  IInv'
<1> DEFINE v == [ui EXCEPT !.fallbacks = @ \ {s}]
<1>1. Whole(ui, events) /\ ui \in UiState
  BY DEF IInv, Whole, Core, Sound
<1>2. v \in UiState
  BY <1>1 DEF UiState
<1>3. Whole(v, events)
  <2>1. Alike(ui, v) /\ v.voice = ui.voice
    BY <1>1 DEF UiState, Alike
  <2> QED
    BY <1>1, <1>2, <2>1, UnseenWhole
<1>4. /\ ui' = v \/ \E interacting \in BOOLEAN : ui' = PlayNext(Finish(v, interacting))
      /\ events' = events
  BY DEF FallbackFires
<1> QED
  BY <1>3, <1>4, FinishWhole DEF IInv

LEMMA AudioBeginsStep ==
  ASSUME IInv, AudioBegins
  PROVE  IInv'
<1> DEFINE v == [ui EXCEPT !.begun = TRUE]
<1>1. Core(ui, events) /\ ui \in UiState /\ Whole(ui, events) /\ ui.audio # None
  BY DEF IInv, Whole, Core, Sound, AudioBegins
<1>2. v \in UiState
  BY <1>1 DEF UiState
<1>3. /\ v.requests = ui.requests /\ v.ready = ui.ready /\ v.list = ui.list
      /\ v.ahead = ui.ahead /\ v.wanted = ui.wanted /\ v.cancelled = ui.cancelled
      /\ v.failed = ui.failed /\ v.handle = ui.handle /\ v.audio = ui.audio
      /\ v.pending = ui.pending /\ v.batches = ui.batches /\ v.current = ui.current
      /\ v.shown = ui.shown /\ v.ttsDone = ui.ttsDone /\ v.advancing = ui.advancing
      /\ v.stale = ui.stale /\ v.voice = ui.voice
      /\ v.files = ui.files /\ v.active = ui.active /\ v.stage = ui.stage
  BY <1>1 DEF UiState
<1>4. ui' = Started(v, ui.audio) /\ events' = events
  BY DEF AudioBegins
<1> HIDE DEF v
<1>5. /\ Working(v) = Working(ui) /\ Batched(v) = Batched(ui) /\ Over(v, events) = Over(ui, events)
      /\ Playing(v) = Playing(ui) /\ Live(v, events) = Live(ui, events)
  BY <1>3 DEF Over, Working, Playing, Batched, Live
<1>6. Touched(v, events) = Touched(ui, events) /\ Bound(v, events) = Bound(ui, events)
  BY <1>3, <1>5 DEF Touched, Bound
<1>7. Places(v, events) /\ Results(v, events) /\ Order(v)
  BY <1>1, <1>3, <1>5 DEF Core, Sound, Places, Results, Order
<1>8. Fresh(v, events) /\ Handles(v, events) /\ Turn(v, events) /\ FilesBut(v, events, {})
  BY <1>1, <1>3, <1>5, <1>6 DEF Core, Sound, Fresh, Handles, Turn, FilesBut
<1>9. Core(v, events)
  BY <1>1, <1>2, <1>7, <1>8 DEF Core, Sound
<1> DEFINE w == Started(v, ui.audio)
<1>10. /\ Core(w, events) /\ Touched(w, events) = Touched(v, events)
       /\ SameText(v, w) /\ w.handle = v.handle
  BY <1>9, StartedCore
<1> HIDE DEF w
<1>11. Whole(w, events)
  BY <1>1, <1>3, <1>6, <1>10, WholeKept DEF SameText
<1> QED
  BY <1>4, <1>11 DEF IInv, w

(* After an interruption nothing that is bound is left that was not shown
   before it, and nothing waits. *)
LEMMA InterruptStep ==
  ASSUME IInv, Interrupt
  PROVE  IInv'
<1>1. Core(ui, events) /\ ui \in UiState /\ ui.shown \in 0 .. MaxSegments
  BY DEF IInv, Whole, Core, Sound, UiState
<1>2. PICK interacting \in BOOLEAN, typing \in BOOLEAN :
        LET u == Silence(Discard([ui EXCEPT !.stale = 1 .. ui.shown]), interacting)
        IN ui' = [Reset([u EXCEPT !.pending = <<>>, !.batches = <<>>]) EXCEPT !.typing = typing]
  BY DEF Interrupt
<1> DEFINE a == [ui EXCEPT !.stale = 1 .. ui.shown]
           b == Discard(a)
           c == Silence(b, interacting)
           d == [c EXCEPT !.pending = <<>>, !.batches = <<>>]
           r == Reset(d)
           v == [r EXCEPT !.typing = typing]
<1>3. ui' = v /\ events' = events
  BY <1>2 DEF Interrupt
<1> HIDE DEF v, r, d, c, b
<1>4. Core(a, events)
  <2>1. 1 .. ui.shown \subseteq Segment
    BY <1>1, ReplySpeechAssumption DEF Segment
  <2>2. a \in UiState
    BY <1>1, <2>1 DEF UiState
  <2>3. /\ a.requests = ui.requests /\ a.ready = ui.ready /\ a.list = ui.list
        /\ a.ahead = ui.ahead /\ a.wanted = ui.wanted /\ a.cancelled = ui.cancelled
        /\ a.failed = ui.failed /\ a.handle = ui.handle /\ a.audio = ui.audio
        /\ a.pending = ui.pending /\ a.batches = ui.batches /\ a.current = ui.current
        /\ a.shown = ui.shown /\ a.ttsDone = ui.ttsDone /\ a.advancing = ui.advancing
        /\ a.stale = 1 .. ui.shown /\ a.begun = ui.begun /\ a.voice = ui.voice
        /\ a.files = ui.files /\ a.active = ui.active /\ a.stage = ui.stage
    BY <1>1 DEF UiState
  <2> HIDE DEF a
  <2>4. /\ Working(a) = Working(ui) /\ Batched(a) = Batched(ui) /\ Over(a, events) = Over(ui, events)
        /\ Playing(a) = Playing(ui) /\ Live(a, events) = Live(ui, events)
    BY <2>3 DEF Over, Working, Playing, Batched, Live
  <2>5. Touched(a, events) = Touched(ui, events) /\ Bound(a, events) = Bound(ui, events)
    BY <2>3, <2>4 DEF Touched, Bound
  <2>6. Places(a, events) /\ Results(a, events) /\ Order(a)
    BY <1>1, <2>3, <2>4 DEF Core, Sound, Places, Results, Order
  <2>7. Fresh(a, events) /\ Handles(a, events) /\ FilesBut(a, events, {})
    BY <1>1, <2>3, <2>4, <2>5 DEF Core, Sound, Fresh, Handles, FilesBut
  <2>8. Bound(a, events) \subseteq a.stale
    BY <1>1, <2>3, <2>5 DEF Core, Sound, Fresh, Touched, Bound
  <2>9. Turn(a, events)
    BY <1>1, <2>3, <2>8 DEF Core, Sound, Turn
  <2> QED
    BY <1>1, <2>2, <2>6, <2>7, <2>9 DEF Core, Sound
<1>5. Core(b, events) /\ HandleNext(b) /\ SameText(a, b)
  BY <1>4, DiscardCore DEF HandleNext, b
<1>6. Onward(b, c, events)
  BY <1>5, SilenceCore DEF c
<1>7. /\ Core(c, events) /\ c.stale = 1 .. c.shown /\ c \in UiState
      /\ events \in Seq(Signals \X Segment)
  <2>1. a.stale = 1 .. a.shown
    BY <1>1 DEF UiState
  <2> QED
    BY <1>5, <1>6, <2>1 DEF Onward, SameText, Core, Sound
<1>8. Bound(c, events) \subseteq c.stale
  BY <1>7 DEF Core, Sound, Fresh, Touched, Bound
<1>9. Core(d, events) /\ Bound(d, events) \subseteq d.stale /\ d.pending = <<>>
  <2>1. <<>> \in Seq(Segment) /\ <<>> \in Seq(Seq(Segment))
    BY EmptySeq
  <2>2. d \in UiState
    BY <1>7, <2>1 DEF UiState, d
  <2>3. /\ d.requests = c.requests /\ d.ready = c.ready /\ d.list = c.list
        /\ d.ahead = c.ahead /\ d.wanted = c.wanted /\ d.cancelled = c.cancelled
        /\ d.failed = c.failed /\ d.handle = c.handle /\ d.audio = c.audio
        /\ d.pending = <<>> /\ d.batches = <<>> /\ d.current = c.current
        /\ d.shown = c.shown /\ d.ttsDone = c.ttsDone /\ d.advancing = c.advancing
        /\ d.stale = c.stale /\ d.begun = c.begun /\ d.voice = c.voice
        /\ d.files = c.files /\ d.active = c.active /\ d.stage = c.stage
    BY <1>7 DEF UiState, d
  <2>4. Range(<<>>) = {} /\ IsInjective(<<>>) /\ DOMAIN <<>> = {}
    BY DEF Range, IsInjective
  <2>5. /\ Working(d) = Working(c) /\ Batched(d) = {} /\ Over(d, events) = Over(c, events)
        /\ Playing(d) = Playing(c) /\ Live(d, events) = Live(c, events)
    BY <2>3, <2>4 DEF Over, Working, Playing, Batched, Live
  <2>6. Touched(d, events) = Touched(c, events) /\ Bound(d, events) = Bound(c, events)
    BY <2>3, <2>5 DEF Touched, Bound
  <2>7. Places(d, events) /\ Results(d, events)
    BY <1>7, <2>3, <2>5 DEF Core, Sound, Places, Results
  <2>8. Order(d)
    BY <1>7, <2>3, <2>4, <2>5 DEF Core, Sound, Order
  <2>9. Fresh(d, events)
    BY <1>7, <2>3, <2>4, <2>5, <2>6 DEF Core, Sound, Fresh
  <2>10. Handles(d, events) /\ Turn(d, events) /\ FilesBut(d, events, {})
    BY <1>7, <2>3, <2>5, <2>6 DEF Core, Sound, Handles, Turn, FilesBut
  <2> QED
    BY <1>7, <1>8, <2>2, <2>3, <2>6, <2>7, <2>8, <2>9, <2>10 DEF Core, Sound
<1>10. Core(r, events) /\ r.handle = None /\ r.pending = <<>> /\ r \in UiState
  BY <1>9, ResetCore DEF r, Core, Sound
<1>11. v \in UiState /\ Alike(r, v) /\ v.voice = r.voice
  <2>1. v \in UiState
    <3>1. typing \in BOOLEAN /\ r \in UiState
      BY <1>2, <1>10
    <3> QED
      BY <3>1 DEF v, UiState
  <2>2. Alike(r, v) /\ v.voice = r.voice
    BY <1>10 DEF v, UiState, Alike
  <2> QED
    BY <2>1, <2>2
<1>12. Whole(r, events)
  BY <1>10 DEF Whole, HandleNext, NextFresh
<1> QED
  BY <1>3, <1>11, <1>12, UnseenWhole DEF IInv

LEMMA SwitchVoiceStep ==
  ASSUME IInv, SwitchVoice
  PROVE  IInv'
<1>1. Core(ui, events) /\ ui \in UiState /\ HandleNext(ui)
  BY DEF IInv, Whole, Core, Sound
<1>2. PICK interacting \in BOOLEAN :
        ui' = [Discard(Silence([ui EXCEPT !.voice = "closing"], interacting)) EXCEPT !.voice = "off"]
  BY DEF SwitchVoice
<1> DEFINE a == [ui EXCEPT !.voice = "closing"]
           b == Silence(a, interacting)
           c == Discard(b)
           v == [c EXCEPT !.voice = "off"]
<1>3. ui' = v /\ events' = events
  BY <1>2 DEF SwitchVoice
<1> HIDE DEF b, c
<1>4. Core(a, events) /\ HandleNext(a)
  <2>1. a \in UiState
    BY <1>1 DEF UiState
  <2>2. Alike(ui, a)
    BY <1>1 DEF UiState, Alike
  <2>3. Core(a, events)
    BY <1>1, <2>1, <2>2, Unseen
  <2> QED
    BY <1>1, <2>2, <2>3 DEF HandleNext, Alike
<1>5. Core(b, events)
  BY <1>4, SilenceCore DEF Onward, b
<1>6. Core(c, events) /\ c.handle = None
  BY <1>5, DiscardCore DEF c
<1>7. c \in UiState
  BY <1>6 DEF Core, Sound
<1>8. v \in UiState /\ v.voice = "off" /\ v.handle = c.handle
  BY <1>7 DEF UiState
<1>9. Core(v, events)
  <2>1. Alike(c, v)
    BY <1>7 DEF UiState, Alike
  <2> QED
    BY <1>6, <1>8, <2>1, Unseen
<1> QED
  BY <1>3, <1>6, <1>8, <1>9 DEF IInv, Whole, HandleNext, NextFresh

-----------------------------------------------------------------------------
(* The synthesis thread *)

LEMMA ConcatPlaces ==
  ASSUME NEW S, NEW q \in Seq(S), NEW r \in Seq(S)
  PROVE  /\ q \o r \in Seq(S)
         /\ \A i \in DOMAIN (q \o r) : \/ i \in DOMAIN q /\ (q \o r)[i] = q[i]
                                       \/ i \notin DOMAIN q /\ i - Len(q) \in DOMAIN r
                                          /\ (q \o r)[i] = r[i - Len(q)]
         /\ \A i \in DOMAIN q : i \in DOMAIN (q \o r) /\ (q \o r)[i] = q[i]
         /\ \A j \in DOMAIN r : j + Len(q) \in DOMAIN (q \o r) /\ (q \o r)[j + Len(q)] = r[j]
<1> DEFINE a == q \o r
<1>1. /\ a \in Seq(S) /\ Len(a) = Len(q) + Len(r)
      /\ \A i \in 1 .. Len(q) + Len(r) : a[i] = IF i <= Len(q) THEN q[i] ELSE r[i - Len(q)]
  BY ConcatProperties
<1>2. /\ Len(q) \in Nat /\ Len(r) \in Nat /\ DOMAIN q = 1 .. Len(q) /\ DOMAIN r = 1 .. Len(r)
      /\ DOMAIN a = 1 .. Len(a)
  BY <1>1, LenProperties
<1> HIDE DEF a
<1>3. ASSUME NEW i \in DOMAIN a
      PROVE  \/ i \in DOMAIN q /\ a[i] = q[i]
             \/ i \notin DOMAIN q /\ i - Len(q) \in DOMAIN r /\ a[i] = r[i - Len(q)]
  BY <1>1, <1>2
<1>4. ASSUME NEW i \in DOMAIN q
      PROVE  i \in DOMAIN a /\ a[i] = q[i]
  BY <1>1, <1>2
<1>5. ASSUME NEW j \in DOMAIN r
      PROVE  j + Len(q) \in DOMAIN a /\ a[j + Len(q)] = r[j]
  <2>1. j + Len(q) \in 1 .. Len(q) + Len(r) /\ ~(j + Len(q) <= Len(q)) /\ (j + Len(q)) - Len(q) = j
    BY <1>2
  <2> QED
    BY <1>1, <1>2, <2>1
<1> QED
  BY <1>1, <1>3, <1>4, <1>5 DEF a

(* The thread is done with a step of its request. *)
LEMMA PostedCore ==
  ASSUME NEW u, NEW ev, Core(u, ev), u.active # None, u.stage # "end",
         NEW v \in UiState, NEW e \in Seq(Signals \X Segment), v.stage \in {"none", "end"},
         v = [u EXCEPT !.stage = v.stage, !.files = v.files],
         Results(u, e), Coming(ev) \subseteq Coming(e),
         Coming(e) \subseteq Coming(ev) \cup Working(u),
         Signalled(e) \subseteq Signalled(ev) \cup {u.active},
         u.active \in Coming(e) => u.active \notin Signalled(e) /\ v.stage = "end",
         FilesBut(v, e, {})
  PROVE  Core(v, e) /\ Touched(v, e) \subseteq Touched(u, ev)
<1> DEFINE s == u.active
<1>1. u \in UiState /\ u.stage \in {"begin", "made", "none"}
  BY DEF Core, Sound, UiState
<1>2. /\ v.requests = u.requests /\ v.ready = u.ready /\ v.list = u.list
      /\ v.ahead = u.ahead /\ v.wanted = u.wanted /\ v.cancelled = u.cancelled
      /\ v.failed = u.failed /\ v.handle = u.handle /\ v.audio = u.audio
      /\ v.pending = u.pending /\ v.batches = u.batches /\ v.current = u.current
      /\ v.shown = u.shown /\ v.ttsDone = u.ttsDone /\ v.advancing = u.advancing
      /\ v.stale = u.stale /\ v.begun = u.begun /\ v.voice = u.voice
      /\ v.active = s
  BY <1>1 DEF UiState
<1>3. /\ Working(v) = {} /\ Batched(v) = Batched(u) /\ Playing(v) = Playing(u)
      /\ s \in Working(u) \cup Over(u, ev) /\ Working(u) \subseteq {s}
  BY <1>1, <1>2 DEF Working, Batched, Playing, Over
<1>4. Live(v, e) \subseteq Live(u, ev) /\ Over(v, e) \subseteq Over(u, ev) \cup {s}
  BY <1>2, <1>3 DEF Live, Over
<1>5. Places(u, ev)
  BY DEF Core, Sound
<1>6. s \in Live(v, e) => s \in Coming(e)
  BY <1>2, <1>3, <1>5 DEF Live, Places
<1>7. s \in Coming(e) => s \notin Over(v, e)
  <2>1. ASSUME s \in Coming(e)
        PROVE  s \in Live(u, ev)
    BY <2>1 DEF Live
  <2> QED
    BY <1>2, <1>5, <2>1 DEF Places, Over
<1>8. Live(v, e) \cap Over(v, e) = {}
  BY <1>4, <1>5, <1>6, <1>7 DEF Places
<1>9. Places(v, e)
  BY <1>2, <1>3, <1>5, <1>8 DEF Places
<1>10. /\ Touched(v, e) \subseteq Touched(u, ev) /\ Bound(v, e) \subseteq Bound(u, ev)
  <2>1. s \in Live(u, ev) \cup Over(u, ev)
    BY <1>3 DEF Live
  <2> QED
    BY <1>2, <1>4, <2>1 DEF Touched, Bound
<1>11. Results(v, e) /\ Order(v)
  BY <1>2, <1>3 DEF Core, Sound, Results, Order
<1>12. Fresh(v, e) /\ Turn(v, e)
  BY <1>2, <1>3, <1>10 DEF Core, Sound, Fresh, Turn
<1>13. Handles(v, e)
  <2>1. Range(v.list) \cup Playing(v) \subseteq Bound(v, e)
    BY <1>2, <1>3 DEF Core, Sound, Handles, Bound, Live
  <2> QED
    BY <1>2, <1>4, <2>1 DEF Core, Sound, Handles
<1> QED
  BY <1>9, <1>10, <1>11, <1>12, <1>13 DEF Core, Sound

(* What the thread may signal of a request for s that has no file to play *)
NoFile(s) == {Fails(s), Skips(s), <<<<"cleanup", s>>>> \o Skips(s)}

LEMMA SignalSequences ==
  ASSUME NEW s \in Segment, NEW sig \in NoFile(s)
  PROVE  /\ sig \in Seq(Signals \X Segment)
         /\ \A j \in DOMAIN sig :
              /\ sig[j] \in {"aheadFailed", "aheadSkipped", "started", "finished", "cleanup"} \X {s}
              /\ sig[j][1] \in {"aheadFailed", "aheadSkipped"} => s \in ui.ahead
         /\ sig = <<<<"cleanup", s>>>> \o Skips(s) => 1 \in DOMAIN sig /\ sig[1] = <<"cleanup", s>>
<1> DEFINE N == {"aheadFailed", "aheadSkipped", "started", "finished", "cleanup"} \X {s}
           Good(q) == /\ q \in Seq(Signals \X Segment)
                      /\ \A j \in DOMAIN q :
                           /\ q[j] \in N
                           /\ q[j][1] \in {"aheadFailed", "aheadSkipped"} => s \in ui.ahead
<1>1. \A k \in Signals : <<k, s>> \in Signals \X Segment
  OBVIOUS
<1>2. Good(Fails(s)) /\ Good(Skips(s))
  <2>1. CASE s \in ui.ahead
    <3>1. Good(<<<<"aheadFailed", s>>>>) /\ Good(<<<<"aheadSkipped", s>>>>)
      BY <1>1, <2>1 DEF Signals
    <3> HIDE DEF Good
    <3> QED
      BY <2>1, <3>1 DEF Fails, Skips
  <2>2. CASE s \notin ui.ahead
    <3>1. Good(<<<<"started", s>>, <<"finished", s>>>>)
      BY <1>1 DEF Signals
    <3> HIDE DEF Good
    <3> QED
      BY <2>2, <3>1 DEF Fails, Skips
  <2> QED
    BY <2>1, <2>2
<1>4. Good(<<<<"cleanup", s>>>>) /\ <<<<"cleanup", s>>>>[1] = <<"cleanup", s>> /\ 1 \in DOMAIN <<<<"cleanup", s>>>>
      /\ DOMAIN <<<<"cleanup", s>>>> = {1}
  BY <1>1 DEF Signals
<1> DEFINE c == <<<<"cleanup", s>>>>
           k == Skips(s)
<1> HIDE DEF c, k
<1>5. Good(c) /\ Good(k) /\ c[1] = <<"cleanup", s>> /\ 1 \in DOMAIN c
  BY <1>2, <1>4 DEF c, k
<1>6. Good(c \o k) /\ 1 \in DOMAIN (c \o k) /\ (c \o k)[1] = <<"cleanup", s>>
  BY <1>5, ConcatPlaces
<1> QED
  BY <1>2, <1>6 DEF c, k, NoFile

(* The signals of a request that has no result *)
LEMMA NoResult ==
  ASSUME NEW s \in Segment, NEW sig \in NoFile(s), NEW ev \in Seq(Signals \X Segment), Results(ui, ev)
  PROVE  /\ ev \o sig \in Seq(Signals \X Segment) /\ Results(ui, ev \o sig)
         /\ Coming(ev \o sig) = Coming(ev)
         /\ Signalled(ev \o sig) \subseteq Signalled(ev) \cup {s}
         /\ \A i \in DOMAIN ev : \E j \in DOMAIN (ev \o sig) : (ev \o sig)[j] = ev[i]
<1> DEFINE a == ev \o sig
           N == {"aheadFailed", "aheadSkipped", "started", "finished", "cleanup"}
<1>0. /\ sig \in Seq(Signals \X Segment)
      /\ \A j \in DOMAIN sig : /\ sig[j] \in N \X {s}
                               /\ sig[j][1] \in {"aheadFailed", "aheadSkipped"} => s \in ui.ahead
  BY SignalSequences
<1>1. /\ a \in Seq(Signals \X Segment)
      /\ \A i \in DOMAIN a : \/ i \in DOMAIN ev /\ a[i] = ev[i]
                             \/ i - Len(ev) \in DOMAIN sig /\ a[i] = sig[i - Len(ev)]
      /\ \A i \in DOMAIN ev : i \in DOMAIN a /\ a[i] = ev[i]
  BY <1>0, ConcatPlaces
<1> HIDE DEF a
<1>2. ASSUME NEW i \in DOMAIN a
      PROVE  \/ i \in DOMAIN ev /\ a[i] = ev[i]
             \/ /\ a[i][1] \in N /\ a[i] = <<a[i][1], s>> /\ a[i][2] = s
                /\ a[i][1] \in {"aheadFailed", "aheadSkipped"} => s \in ui.ahead
  BY <1>0, <1>1
<1>3. Coming(a) = Coming(ev)
  <2>1. ASSUME NEW t \in Segment, NEW i \in DOMAIN a, a[i] \in {<<"audio", t>>, <<"ahead", t>>}
        PROVE  i \in DOMAIN ev /\ a[i] = ev[i]
    <3>1. a[i][1] \in {"audio", "ahead"}
      BY <2>1
    <3>2. a[i][1] \notin N
      BY <3>1
    <3> QED
      BY <1>2, <3>2
  <2> QED
    BY <1>1, <2>1 DEF Coming
<1>4. Signalled(a) \subseteq Signalled(ev) \cup {s}
  BY <1>1, <1>2 DEF Signalled
<1>5. Results(ui, a)
  BY <1>1, <1>2 DEF Results
<1> QED
  BY <1>1, <1>3, <1>4, <1>5 DEF a

(* A step of the thread that signals no file *)
LEMMA NoFileStep ==
  ASSUME IInv, ui.active # None, ui.stage # "end", NEW v \in UiState, v.stage \in {"none", "end"},
         v = [ui EXCEPT !.stage = v.stage, !.files = v.files], ui' = v,
         NEW sig \in NoFile(ui.active),
         events' \in {events, events \o sig}, FilesBut(v, events', {})
  PROVE  IInv'
<1> DEFINE s == ui.active
           e == events'
<1>1. /\ Core(ui, events) /\ Whole(ui, events) /\ ui \in UiState /\ s \in Segment
      /\ events \in Seq(Signals \X Segment) /\ Results(ui, events)
      /\ Places(ui, events) /\ ui.stage \in {"begin", "made", "none"}
  BY DEF IInv, Whole, Core, Sound, UiState
<1>2. /\ events \o sig \in Seq(Signals \X Segment) /\ Results(ui, events \o sig)
      /\ Coming(events \o sig) = Coming(events)
      /\ Signalled(events \o sig) \subseteq Signalled(events) \cup {s}
  BY <1>1, NoResult
<1>3. /\ e \in Seq(Signals \X Segment) /\ Results(ui, e) /\ Coming(e) = Coming(events)
      /\ Signalled(e) \subseteq Signalled(events) \cup {s}
  BY <1>1, <1>2
<1> HIDE DEF e
<1>4. s \notin Coming(events)
  BY <1>1 DEF Places, Live, Working, Over
<1>5. Core(v, e) /\ Touched(v, e) \subseteq Touched(ui, events)
  BY <1>1, <1>3, <1>4, PostedCore DEF e
<1>6. v.pending = ui.pending /\ v.handle = ui.handle /\ v.voice = ui.voice
  BY <1>1 DEF UiState
<1>7. Whole(v, e)
  BY <1>1, <1>5, <1>6, WholeKept
<1> QED
  BY <1>7 DEF IInv, e

(* What the files of a request are accounted by after it posts nothing of them *)
LEMMA FilesPosted ==
  ASSUME NEW u \in UiState, NEW ev \in Seq(Signals \X Segment), NEW v, NEW e, NEW X,
         FilesBut(u, ev, X), v.files \subseteq u.files \ X,
         v.ready = u.ready, v.handle = u.handle, v.list = u.list, v.audio = u.audio,
         \A i \in DOMAIN ev : \E j \in DOMAIN e : e[j] = ev[i],
         \A s \in v.files : s = u.active /\ u.stage = "made" =>
                              \E j \in DOMAIN e : e[j] \in {<<"audio", s>>, <<"ahead", s>>, <<"cleanup", s>>}
  PROVE  FilesBut(v, e, {})
<1> SUFFICES ASSUME NEW s \in v.files
             PROVE  \/ \E j \in DOMAIN e : e[j] \in {<<"audio", s>>, <<"ahead", s>>, <<"cleanup", s>>}
                    \/ s \in u.ready /\ u.handle = s
                    \/ s \in Range(u.list)
                    \/ u.audio = s
  BY DEF FilesBut
<1>1. \/ u.active = s /\ u.stage = "made"
      \/ \E i \in DOMAIN ev : ev[i] \in {<<"audio", s>>, <<"ahead", s>>, <<"cleanup", s>>}
      \/ s \in u.ready /\ u.handle = s
      \/ s \in Range(u.list)
      \/ u.audio = s
  BY DEF FilesBut
<1> QED
  BY <1>1

LEMMA EventsKept ==
  ASSUME IInv, ui.active # None,
         NEW sig \in NoFile(ui.active),
         NEW e \in {events, events \o sig}
  PROVE  \A i \in DOMAIN events : \E j \in DOMAIN e : e[j] = events[i]
<1>1. ui.active \in Segment /\ events \in Seq(Signals \X Segment)
  BY DEF IInv, Whole, Core, Sound, UiState
<1>2. sig \in Seq(Signals \X Segment)
  BY <1>1, SignalSequences
<1>3. \A i \in DOMAIN events : i \in DOMAIN (events \o sig) /\ (events \o sig)[i] = events[i]
  BY <1>1, <1>2, ConcatPlaces
<1>4. CASE e = events
  BY <1>4
<1>5. CASE e = events \o sig
  BY <1>3, <1>5
<1> QED
  BY <1>4, <1>5

LEMMA SkipStep ==
  ASSUME IInv, Skip
  PROVE  IInv'
<1> DEFINE v == [ui EXCEPT !.stage = "end"]
           sig == Skips(ui.active)
<1>1. /\ ui \in UiState /\ events \in Seq(Signals \X Segment) /\ FilesBut(ui, events, {})
      /\ ui.active # None /\ ui.stage = "begin" /\ ui' = v /\ events' \in {events, events \o sig}
  BY DEF IInv, Whole, Core, Sound, Skip, Post
<1>2. v \in UiState
  BY <1>1 DEF UiState
<1>3. /\ v.stage = "end" /\ v.files = ui.files /\ v.ready = ui.ready /\ v.handle = ui.handle
      /\ v.list = ui.list /\ v.audio = ui.audio
      /\ v = [ui EXCEPT !.stage = v.stage, !.files = v.files]
  BY <1>1 DEF UiState
<1> HIDE DEF v, sig
<1>6. sig \in NoFile(ui.active)
  BY DEF sig, NoFile
<1>4. \A i \in DOMAIN events : \E j \in DOMAIN events' : events'[j] = events[i]
  BY <1>1, <1>6, EventsKept
<1>5. FilesBut(v, events', {})
  BY <1>1, <1>3, <1>4, FilesPosted
<1> QED
  BY <1>1, <1>2, <1>3, <1>5, <1>6, NoFileStep

LEMMA EngineFailsStep ==
  ASSUME IInv, EngineFails
  PROVE  IInv'
<1> DEFINE v == [ui EXCEPT !.stage = "none"]
<1>1. /\ ui \in UiState /\ events \in Seq(Signals \X Segment) /\ FilesBut(ui, events, {})
      /\ ui.active # None /\ ui.stage = "begin" /\ ui' = v
  BY DEF IInv, Whole, Core, Sound, EngineFails
<1>2. PICK sig \in {Fails(ui.active), Skips(ui.active)} : events' \in {events, events \o sig}
  BY DEF EngineFails, Post
<1>3. v \in UiState
  BY <1>1 DEF UiState
<1>4. /\ v.stage = "none" /\ v.files = ui.files /\ v.ready = ui.ready /\ v.handle = ui.handle
      /\ v.list = ui.list /\ v.audio = ui.audio
      /\ v = [ui EXCEPT !.stage = v.stage, !.files = v.files]
  BY <1>1 DEF UiState
<1> HIDE DEF v
<1> DEFINE e == events'
<1>7. e \in {events, events \o sig} /\ sig \in NoFile(ui.active)
  BY <1>2 DEF NoFile
<1> HIDE DEF e
<1>5. \A i \in DOMAIN events : \E j \in DOMAIN e : e[j] = events[i]
  BY <1>1, <1>2, <1>7, EventsKept
<1>6. FilesBut(v, events', {})
  BY <1>1, <1>4, <1>5, FilesPosted DEF e
<1> QED
  BY <1>1, <1>2, <1>3, <1>4, <1>6, <1>7, NoFileStep

LEMMA EngineRaisesStep ==
  ASSUME IInv, EngineRaises
  PROVE  IInv'
<1> DEFINE v == [ui EXCEPT !.stage = "end"]
<1>1. /\ ui \in UiState /\ events \in Seq(Signals \X Segment) /\ FilesBut(ui, events, {})
      /\ ui.active # None /\ ui.stage = "begin" /\ ui' = v
  BY DEF IInv, Whole, Core, Sound, EngineRaises
<1>2. events' \in {events, events \o Fails(ui.active)}
  BY DEF EngineRaises, Post
<1>3. v \in UiState
  BY <1>1 DEF UiState
<1>4. /\ v.stage = "end" /\ v.files = ui.files /\ v.ready = ui.ready /\ v.handle = ui.handle
      /\ v.list = ui.list /\ v.audio = ui.audio
      /\ v = [ui EXCEPT !.stage = v.stage, !.files = v.files]
  BY <1>1 DEF UiState
<1> HIDE DEF v
<1> DEFINE e == events'
           sig == Fails(ui.active)
<1>7. e \in {events, events \o sig} /\ sig \in NoFile(ui.active)
  BY <1>2 DEF NoFile
<1> HIDE DEF e, sig
<1>5. \A i \in DOMAIN events : \E j \in DOMAIN e : e[j] = events[i]
  BY <1>1, <1>2, <1>7, EventsKept
<1>6. FilesBut(v, events', {})
  BY <1>1, <1>4, <1>5, FilesPosted DEF e
<1> QED
  BY <1>1, <1>2, <1>3, <1>4, <1>6, <1>7, NoFileStep DEF e, sig

LEMMA EngineMakesStep ==
  ASSUME IInv, EngineMakes
  PROVE  IInv'
<1> DEFINE v == [ui EXCEPT !.stage = "made", !.files = @ \cup {ui.active}]
<1>1. /\ Core(ui, events) /\ Whole(ui, events) /\ ui \in UiState /\ ui.active \in Segment
      /\ ui.active # None /\ ui.stage = "begin"
  BY DEF IInv, Whole, Core, Sound, UiState, EngineMakes
<1>2. v \in UiState
  BY <1>1 DEF UiState
<1>3. /\ v.requests = ui.requests /\ v.ready = ui.ready /\ v.list = ui.list
      /\ v.ahead = ui.ahead /\ v.wanted = ui.wanted /\ v.cancelled = ui.cancelled
      /\ v.failed = ui.failed /\ v.handle = ui.handle /\ v.audio = ui.audio
      /\ v.pending = ui.pending /\ v.batches = ui.batches /\ v.current = ui.current
      /\ v.shown = ui.shown /\ v.ttsDone = ui.ttsDone /\ v.advancing = ui.advancing
      /\ v.stale = ui.stale /\ v.begun = ui.begun /\ v.voice = ui.voice
      /\ v.files = ui.files \cup {ui.active} /\ v.active = ui.active /\ v.stage = "made"
  BY <1>1 DEF UiState
<1>4. ui' = v /\ events' = events
  BY DEF EngineMakes
<1> HIDE DEF v
<1>5. /\ Working(v) = Working(ui) /\ Batched(v) = Batched(ui) /\ Over(v, events) = Over(ui, events)
      /\ Playing(v) = Playing(ui) /\ Live(v, events) = Live(ui, events)
  BY <1>1, <1>3 DEF Over, Working, Playing, Batched, Live
<1>6. Touched(v, events) = Touched(ui, events) /\ Bound(v, events) = Bound(ui, events)
  BY <1>3, <1>5 DEF Touched, Bound
<1>7. Places(v, events) /\ Results(v, events) /\ Order(v)
  BY <1>1, <1>3, <1>5 DEF Core, Sound, Places, Results, Order
<1>8. Fresh(v, events) /\ Handles(v, events) /\ Turn(v, events)
  BY <1>1, <1>3, <1>5, <1>6 DEF Core, Sound, Fresh, Handles, Turn
<1>9. FilesBut(v, events, {})
  BY <1>1, <1>3 DEF Core, FilesBut
<1>10. Core(v, events)
  BY <1>1, <1>2, <1>7, <1>8, <1>9 DEF Core, Sound
<1>11. Whole(v, events)
  BY <1>1, <1>3, <1>6, <1>10, WholeKept
<1> QED
  BY <1>4, <1>11 DEF IInv

LEMMA EndRequestStep ==
  ASSUME IInv, EndRequest
  PROVE  IInv'
<1> DEFINE v == [ui EXCEPT !.active = None]
<1>1. /\ Core(ui, events) /\ Whole(ui, events) /\ ui \in UiState
      /\ ui.active # None /\ ui.stage = "end"
  BY DEF IInv, Whole, Core, Sound, EndRequest
<1>2. v \in UiState
  BY <1>1 DEF UiState
<1>3. /\ v.requests = ui.requests /\ v.ready = ui.ready /\ v.list = ui.list
      /\ v.ahead = ui.ahead /\ v.wanted = ui.wanted /\ v.cancelled = ui.cancelled
      /\ v.failed = ui.failed /\ v.handle = ui.handle /\ v.audio = ui.audio
      /\ v.pending = ui.pending /\ v.batches = ui.batches /\ v.current = ui.current
      /\ v.shown = ui.shown /\ v.ttsDone = ui.ttsDone /\ v.advancing = ui.advancing
      /\ v.stale = ui.stale /\ v.begun = ui.begun /\ v.voice = ui.voice
      /\ v.files = ui.files /\ v.active = None /\ v.stage = "end"
  BY <1>1 DEF UiState
<1>4. ui' = StartNext(v) /\ events' = events
  BY DEF EndRequest
<1> HIDE DEF v
<1>5. /\ Working(v) = Working(ui) /\ Batched(v) = Batched(ui) /\ Over(v, events) = Over(ui, events)
      /\ Playing(v) = Playing(ui) /\ Live(v, events) = Live(ui, events)
  BY <1>1, <1>3 DEF Over, Working, Playing, Batched, Live
<1>6. Touched(v, events) = Touched(ui, events) /\ Bound(v, events) = Bound(ui, events)
  BY <1>3, <1>5 DEF Touched, Bound
<1>7. Places(v, events) /\ Results(v, events) /\ Order(v)
  BY <1>1, <1>3, <1>5 DEF Core, Sound, Places, Results, Order
<1>8. Fresh(v, events) /\ Handles(v, events) /\ Turn(v, events)
  BY <1>1, <1>3, <1>5, <1>6 DEF Core, Sound, Fresh, Handles, Turn
<1>9. FilesBut(v, events, {})
  BY <1>1, <1>3 DEF Core, FilesBut
<1>10. Core(v, events)
  BY <1>1, <1>2, <1>7, <1>8, <1>9 DEF Core, Sound
<1> DEFINE w == StartNext(v)
<1>11. /\ Core(w, events) /\ Live(w, events) = Live(v, events)
       /\ Over(w, events) \subseteq Over(v, events) /\ SameText(v, w)
       /\ w.handle = v.handle /\ w.ahead = v.ahead
  BY <1>10, StartNextCore
<1> HIDE DEF w
<1>12. Touched(w, events) \subseteq Touched(v, events)
  BY <1>11 DEF Touched
<1>13. Whole(w, events)
  BY <1>1, <1>3, <1>6, <1>11, <1>12, WholeKept DEF SameText
<1> QED
  BY <1>4, <1>13 DEF IInv, w

(* The result of a request that was not called off *)
LEMMA ResultSignal ==
  ASSUME NEW ev \in Seq(Signals \X Segment), NEW s \in Segment, Results(ui, ev), s \notin Coming(ev),
         s \notin ui.dropped
  PROVE  LET e == ev \o Delivered(s)
         IN /\ e \in Seq(Signals \X Segment) /\ Results(ui, e)
            /\ Coming(e) = Coming(ev) \cup {s} /\ Signalled(e) = Signalled(ev)
            /\ \A i \in DOMAIN ev : \E j \in DOMAIN e : e[j] = ev[i]
            /\ \E j \in DOMAIN e : e[j] \in {<<"audio", s>>, <<"ahead", s>>}
<1> DEFINE k == IF s \in ui.ahead THEN "ahead" ELSE "audio"
           r == <<<<k, s>>>>
           e == ev \o r
<1>0. Delivered(s) = r /\ k \in {"audio", "ahead"} /\ (s \in ui.ahead => k = "ahead")
      /\ (s \notin ui.ahead => k = "audio")
  BY DEF Delivered
<1> HIDE DEF k
<1>1. r \in Seq(Signals \X Segment) /\ DOMAIN r = {1} /\ r[1] = <<k, s>>
  <2>1. <<k, s>> \in Signals \X Segment
    BY <1>0 DEF Signals
  <2> QED
    BY <2>1
<1> HIDE DEF r
<1>2. /\ e \in Seq(Signals \X Segment)
      /\ \A i \in DOMAIN e : \/ i \in DOMAIN ev /\ e[i] = ev[i]
                             \/ i \notin DOMAIN ev /\ i - Len(ev) \in DOMAIN r /\ e[i] = r[i - Len(ev)]
      /\ \A i \in DOMAIN ev : i \in DOMAIN e /\ e[i] = ev[i]
      /\ \A j \in DOMAIN r : j + Len(ev) \in DOMAIN e /\ e[j + Len(ev)] = r[j]
  BY <1>1, ConcatPlaces
<1>3. \A i \in DOMAIN e : \/ i \in DOMAIN ev /\ e[i] = ev[i]
                          \/ i = 1 + Len(ev) /\ e[i] = <<k, s>> /\ e[i][1] = k /\ e[i][2] = s
  <2> SUFFICES ASSUME NEW i \in DOMAIN e, ~(i \in DOMAIN ev /\ e[i] = ev[i])
               PROVE  i = 1 + Len(ev) /\ e[i] = <<k, s>>
    OBVIOUS
  <2>1. i - Len(ev) = 1 /\ e[i] = <<k, s>>
    BY <1>1, <1>2
  <2>2. i \in Int /\ Len(ev) \in Int
    BY <1>2, LenProperties
  <2> QED
    BY <2>1, <2>2
<1>4. 1 + Len(ev) \in DOMAIN e /\ e[1 + Len(ev)] = <<k, s>>
  BY <1>1, <1>2
<1> HIDE DEF e
<1>5. Coming(e) = Coming(ev) \cup {s}
  <2>1. ASSUME NEW t \in Coming(e)
        PROVE  t \in Coming(ev) \cup {s}
    <3>1. PICK i \in DOMAIN e : e[i] \in {<<"audio", t>>, <<"ahead", t>>} /\ t \in Segment
      BY DEF Coming
    <3>2. e[i][2] = t
      BY <3>1
    <3> QED
      BY <1>3, <3>1, <3>2 DEF Coming
  <2>2. Coming(ev) \subseteq Coming(e)
    BY <1>2 DEF Coming
  <2>3. s \in Coming(e)
    BY <1>0, <1>4 DEF Coming
  <2> QED
    BY <2>1, <2>2, <2>3
<1>6. Signalled(e) = Signalled(ev)
  <2>1. ASSUME NEW t \in Signalled(e)
        PROVE  t \in Signalled(ev)
    <3>1. PICK i \in DOMAIN e :
            e[i] \in {<<"aheadFailed", t>>, <<"aheadSkipped", t>>, <<"finished", t>>} /\ t \in Segment
      BY DEF Signalled
    <3>2. e[i][1] # k
      BY <1>0, <3>1
    <3> QED
      BY <1>3, <3>1, <3>2 DEF Signalled
  <2>2. Signalled(ev) \subseteq Signalled(e)
    BY <1>2 DEF Signalled
  <2> QED
    BY <2>1, <2>2
<1>7. \A i \in DOMAIN ev : ev[i][1] \in {"audio", "ahead"} => ev[i][2] # s
  <2> SUFFICES ASSUME NEW i \in DOMAIN ev, ev[i][1] \in {"audio", "ahead"}
               PROVE  ev[i][2] \in Coming(ev)
    OBVIOUS
  <2>1. ev[i] = <<ev[i][1], ev[i][2]>> /\ ev[i][2] \in Segment
    BY LenProperties, ElementOfSeq
  <2> QED
    BY <2>1 DEF Coming
<1>8. Results(ui, e)
  <2> SUFFICES ASSUME NEW i \in DOMAIN e
               PROVE  /\ e[i][1] = "audio" => e[i][2] \notin ui.ahead
                      /\ e[i][1] \in {"ahead", "aheadFailed", "aheadSkipped"} => e[i][2] \in ui.ahead
                      /\ \A j \in DOMAIN e :
                           /\ e[i][1] \in {"audio", "ahead"} /\ e[j][1] \in {"audio", "ahead"}
                           /\ e[i][2] = e[j][2]
                           => i = j
    BY DEF Results
  <2>1. /\ e[i][1] = "audio" => e[i][2] \notin ui.ahead
        /\ e[i][1] \in {"ahead", "aheadFailed", "aheadSkipped"} => e[i][2] \in ui.ahead
    BY <1>0, <1>3 DEF Results
  <2>2. ASSUME NEW j \in DOMAIN e, e[i][1] \in {"audio", "ahead"}, e[j][1] \in {"audio", "ahead"},
               e[i][2] = e[j][2]
        PROVE  i = j
    BY <1>3, <1>7, <2>2 DEF Results
  <2> QED
    BY <2>1, <2>2
<1> QED
  BY <1>0, <1>2, <1>4, <1>5, <1>6, <1>8 DEF e

LEMMA DeliverStep ==
  ASSUME IInv, Deliver
  PROVE  IInv'
<1> DEFINE s == ui.active
           f == IF ui.voice = "on" THEN ui.files ELSE ui.files \ {s}
           v == [ui EXCEPT !.stage = "end", !.files = f]
<1>1. /\ Core(ui, events) /\ Whole(ui, events) /\ ui \in UiState
      /\ events \in Seq(Signals \X Segment) /\ FilesBut(ui, events, {}) /\ Results(ui, events)
      /\ Places(ui, events) /\ s \in Segment /\ s # None /\ ui.stage \in {"made", "none"}
  BY DEF IInv, Whole, Core, Sound, UiState, Deliver
<1>2. ui' = v
  BY <1>1 DEF Deliver, UiState
<1>3. f \subseteq ui.files /\ f \subseteq Segment
  BY <1>1 DEF UiState
<1>4. s \in f => ui.voice = "on"
  OBVIOUS
<1> HIDE DEF f
<1>5. v \in UiState
  BY <1>1, <1>3 DEF UiState
<1>6. /\ v.stage = "end" /\ v.files = f /\ v.ready = ui.ready /\ v.handle = ui.handle
      /\ v.list = ui.list /\ v.audio = ui.audio /\ v.pending = ui.pending /\ v.voice = ui.voice
      /\ v = [ui EXCEPT !.stage = v.stage, !.files = v.files]
  BY <1>1 DEF UiState
<1> HIDE DEF v
<1>7. CASE ui.stage = "made" /\ s \in ui.dropped
  <2> DEFINE sig == <<<<"cleanup", s>>>> \o Skips(s)
             e == events'
  <2>1. sig \in NoFile(s) /\ e = IF ui.voice = "on" THEN events \o sig ELSE events
    BY <1>7 DEF Deliver, Post, Delivered, NoFile
  <2>2. sig \in Seq(Signals \X Segment) /\ 1 \in DOMAIN sig /\ sig[1] = <<"cleanup", s>>
    BY <1>1, <2>1, SignalSequences
  <2> HIDE DEF sig, e
  <2>3. e \in {events, events \o sig}
    BY <2>1
  <2>4. \A i \in DOMAIN events : \E j \in DOMAIN e : e[j] = events[i]
    BY <1>1, <2>1, <2>3, EventsKept
  <2>5. \A t \in v.files : t = s /\ ui.stage = "made" =>
          \E j \in DOMAIN e : e[j] \in {<<"audio", t>>, <<"ahead", t>>, <<"cleanup", t>>}
    <3> SUFFICES ASSUME s \in v.files
                 PROVE  \E j \in DOMAIN e : e[j] = <<"cleanup", s>>
      OBVIOUS
    <3>1. e = events \o sig
      BY <1>4, <1>6, <2>1
    <3>2. \A j \in DOMAIN sig : j + Len(events) \in DOMAIN e /\ e[j + Len(events)] = sig[j]
      BY <1>1, <2>2, <3>1, ConcatPlaces
    <3> QED
      BY <2>2, <3>2
  <2>6. FilesBut(v, e, {})
    BY <1>1, <1>3, <1>6, <2>4, <2>5, FilesPosted
  <2>7. events' \in {events, events \o sig} /\ FilesBut(v, events', {})
    BY <2>3, <2>6 DEF e
  <2> QED
    BY <1>1, <1>2, <1>5, <1>6, <1>7, <2>1, <2>7, NoFileStep
<1>8. CASE ui.stage = "none" \/ (ui.stage = "made" /\ s \notin ui.dropped /\ ui.voice # "on")
  <2> DEFINE sig == Skips(s)
             e == events'
  <2>1. sig \in NoFile(s) /\ e \in {events, events \o sig}
    BY <1>1, <1>8 DEF Deliver, Post, NoFile
  <2> HIDE DEF sig, e
  <2>2. \A i \in DOMAIN events : \E j \in DOMAIN e : e[j] = events[i]
    BY <1>1, <2>1, EventsKept
  <2>3. \A t \in v.files : t = s /\ ui.stage = "made" =>
          \E j \in DOMAIN e : e[j] \in {<<"audio", t>>, <<"ahead", t>>, <<"cleanup", t>>}
    BY <1>4, <1>6, <1>8
  <2>4. FilesBut(v, e, {})
    BY <1>1, <1>3, <1>6, <2>2, <2>3, FilesPosted
  <2>5. events' \in {events, events \o sig} /\ FilesBut(v, events', {})
    BY <2>1, <2>4 DEF e
  <2> QED
    BY <1>1, <1>2, <1>5, <1>6, <1>8, <2>1, <2>5, NoFileStep
<1>9. CASE ui.stage = "made" /\ s \notin ui.dropped /\ ui.voice = "on"
  <2> DEFINE e == events \o Delivered(s)
  <2>1. events' = e
    BY <1>9 DEF Deliver, Post
  <2>3. Working(ui) = {s}
    BY <1>1, <1>9 DEF Working
  <2>4. s \notin Coming(events) /\ s \notin Over(ui, events)
    BY <1>1, <2>3 DEF Places, Live
  <2>5. /\ e \in Seq(Signals \X Segment) /\ Results(ui, e)
        /\ Coming(e) = Coming(events) \cup {s} /\ Signalled(e) = Signalled(events)
        /\ \A i \in DOMAIN events : \E j \in DOMAIN e : e[j] = events[i]
        /\ \E j \in DOMAIN e : e[j] \in {<<"audio", s>>, <<"ahead", s>>}
    BY <1>1, <1>9, <2>4, ResultSignal
  <2> HIDE DEF e
  <2>6. \A t \in v.files : t = s /\ ui.stage = "made" =>
          \E j \in DOMAIN e : e[j] \in {<<"audio", t>>, <<"ahead", t>>, <<"cleanup", t>>}
    BY <2>5
  <2>7. FilesBut(v, e, {})
    BY <1>1, <1>3, <1>6, <2>5, <2>6, FilesPosted
  <2>8. s \notin Signalled(e)
    BY <2>4, <2>5 DEF Over
  <2>9. Core(v, e) /\ Touched(v, e) \subseteq Touched(ui, events)
    BY <1>1, <1>5, <1>6, <2>3, <2>5, <2>7, <2>8, PostedCore
  <2>10. Whole(v, e)
    BY <1>1, <1>6, <2>9, WholeKept
  <2> QED
    BY <1>2, <2>1, <2>10 DEF IInv
<1> QED
  BY <1>1, <1>7, <1>8, <1>9

-----------------------------------------------------------------------------
(* The signals of the thread *)

(* A signal that is taken from the queue: its file is at hand. *)
LEMMA TakenSound ==
  ASSUME NEW u, NEW ev, Core(u, ev), ev # <<>>
  PROVE  LET e == Tail(ev)
             k == Head(ev)[1]
             s == Head(ev)[2]
         IN /\ Sound(u, e) /\ k \in Signals /\ s \in Segment
            /\ FilesBut(u, e, {s})
            /\ k \notin {"audio", "ahead", "cleanup"} => FilesBut(u, e, {})
            /\ Touched(u, e) \subseteq Touched(u, ev)
            /\ k \in {"audio", "ahead"} => s \in Coming(ev) \ Coming(e)
            /\ k \in {"aheadFailed", "aheadSkipped", "finished"} => s \in Signalled(ev)
            /\ k = "audio" => s \notin u.ahead
            /\ k \in {"ahead", "aheadFailed", "aheadSkipped"} => s \in u.ahead
            /\ Over(u, e) \subseteq Over(u, ev) /\ Live(u, e) \subseteq Live(u, ev)
<1> DEFINE e == Tail(ev)
           h == Head(ev)
           k == h[1]
           s == h[2]
<1>1. u \in UiState /\ ev \in Seq(Signals \X Segment)
  BY DEF Core, Sound
<1>2. /\ h \in Signals \X Segment /\ e \in Seq(Signals \X Segment)
      /\ h = ev[1] /\ 1 \in DOMAIN ev
      /\ \A i \in DOMAIN e : e[i] = ev[i + 1] /\ i + 1 \in DOMAIN ev /\ i \in Int /\ i + 1 # 1
      /\ \A i \in DOMAIN ev : i = 1 \/ \E j \in DOMAIN e : ev[i] = e[j]
  <2>1. /\ h \in Signals \X Segment /\ e \in Seq(Signals \X Segment)
        /\ h = ev[1] /\ Len(e) = Len(ev) - 1 /\ Len(ev) \in Nat \ {0}
        /\ DOMAIN ev = 1 .. Len(ev) /\ DOMAIN e = 1 .. Len(e)
        /\ \A i \in 1 .. Len(e) : e[i] = ev[i + 1]
    BY <1>1, HeadTailProperties, LenProperties, EmptySeq
  <2> HIDE DEF e, h
  <2>2. ASSUME NEW i \in DOMAIN ev, i # 1
        PROVE  \E j \in DOMAIN e : ev[i] = e[j]
    <3>1. i - 1 \in DOMAIN e /\ (i - 1) + 1 = i
      BY <2>1, <2>2
    <3> QED
      BY <2>1, <3>1
  <2> QED
    BY <2>1, <2>2
<1> HIDE DEF e, h
<1>3. k \in Signals /\ s \in Segment /\ h = <<k, s>>
  BY <1>2
<1>4. /\ Coming(e) \subseteq Coming(ev) /\ Signalled(e) \subseteq Signalled(ev)
  BY <1>2 DEF Coming, Signalled
<1>5. Results(u, ev)
  BY DEF Core, Sound
<1>6. Results(u, e)
  <2>1. \A i \in DOMAIN e : /\ e[i][1] = "audio" => e[i][2] \notin u.ahead
                            /\ e[i][1] \in {"ahead", "aheadFailed", "aheadSkipped"} => e[i][2] \in u.ahead
    BY <1>2, <1>5 DEF Results
  <2>2. ASSUME NEW i \in DOMAIN e, NEW j \in DOMAIN e,
               e[i][1] \in {"audio", "ahead"}, e[j][1] \in {"audio", "ahead"}, e[i][2] = e[j][2]
        PROVE  i = j
    <3>1. i + 1 = j + 1
      BY <1>2, <1>5, <2>2 DEF Results
    <3> QED
      BY <1>2, <3>1
  <2> QED
    BY <2>1, <2>2 DEF Results
<1>7. k \in {"audio", "ahead"} => s \in Coming(ev) \ Coming(e)
  <2> SUFFICES ASSUME k \in {"audio", "ahead"}
               PROVE  s \in Coming(ev) /\ s \notin Coming(e)
    OBVIOUS
  <2>1. s \in Coming(ev)
    BY <1>2, <1>3 DEF Coming
  <2>2. ASSUME NEW i \in DOMAIN e, e[i] \in {<<"audio", s>>, <<"ahead", s>>}
        PROVE  FALSE
    <3>1. e[i][1] \in {"audio", "ahead"} /\ e[i][2] = s
      BY <2>2
    <3>2. i + 1 = 1
      BY <1>2, <1>3, <1>5, <3>1 DEF Results
    <3> QED
      BY <1>2, <3>2
  <2> QED
    BY <2>1, <2>2 DEF Coming
<1>8. k \in {"aheadFailed", "aheadSkipped", "finished"} => s \in Signalled(ev)
  BY <1>2, <1>3 DEF Signalled
<1>9. /\ k = "audio" => s \notin u.ahead
      /\ k \in {"ahead", "aheadFailed", "aheadSkipped"} => s \in u.ahead
  BY <1>2, <1>5 DEF Results
<1>10. /\ Over(u, e) \subseteq Over(u, ev) /\ Live(u, e) \subseteq Live(u, ev)
  BY <1>4 DEF Over, Live
<1>11. Touched(u, e) \subseteq Touched(u, ev) /\ Bound(u, e) \subseteq Bound(u, ev)
  BY <1>10 DEF Touched, Bound
<1>12. Places(u, e)
  BY <1>4, <1>10 DEF Core, Sound, Places
<1>13. Fresh(u, e) /\ Turn(u, e)
  BY <1>11 DEF Core, Sound, Fresh, Turn
<1>14. Handles(u, e)
  <2>1. Range(u.list) \cup Playing(u) \subseteq Bound(u, e)
    BY DEF Core, Sound, Handles, Bound, Live
  <2> QED
    BY <1>10, <2>1 DEF Core, Sound, Handles
<1>15. Sound(u, e)
  BY <1>1, <1>2, <1>6, <1>12, <1>13, <1>14 DEF Core, Sound
<1>16. ASSUME NEW t \in u.files, t # s \/ k \notin {"audio", "ahead", "cleanup"}
       PROVE  \/ u.active = t /\ u.stage = "made"
              \/ \E i \in DOMAIN e : e[i] \in {<<"audio", t>>, <<"ahead", t>>, <<"cleanup", t>>}
              \/ t \in u.ready /\ u.handle = t
              \/ t \in Range(u.list)
              \/ u.audio = t
  <2>1. CASE \E i \in DOMAIN ev : ev[i] \in {<<"audio", t>>, <<"ahead", t>>, <<"cleanup", t>>}
    <3>1. PICK i \in DOMAIN ev : ev[i] \in {<<"audio", t>>, <<"ahead", t>>, <<"cleanup", t>>}
      BY <2>1
    <3>2. i # 1
      BY <1>2, <1>3, <1>16, <3>1
    <3> QED
      BY <1>2, <3>1, <3>2
  <2> QED
    BY <2>1 DEF Core, FilesBut
<1>17. /\ FilesBut(u, e, {s})
       /\ k \notin {"audio", "ahead", "cleanup"} => FilesBut(u, e, {})
  BY <1>16 DEF FilesBut
<1> QED
  BY <1>3, <1>7, <1>8, <1>9, <1>10, <1>11, <1>15, <1>17 DEF e, h

(* The file at hand is given up. *)
LEMMA DeletedCore ==
  ASSUME NEW u, NEW ev, Sound(u, ev), NEW s, FilesBut(u, ev, {s})
  PROVE  /\ Core(Deleted(u, s), ev) /\ Touched(Deleted(u, s), ev) = Touched(u, ev)
         /\ SameText(u, Deleted(u, s)) /\ Deleted(u, s).handle = u.handle
<1> DEFINE v == [u EXCEPT !.files = @ \ {s}]
<1>1. u \in UiState /\ ev \in Seq(Signals \X Segment) /\ Deleted(u, s) = v
  BY DEF Sound, Deleted
<1>2. v \in UiState
  BY <1>1 DEF UiState
<1>3. /\ v.requests = u.requests /\ v.ready = u.ready /\ v.list = u.list
      /\ v.ahead = u.ahead /\ v.wanted = u.wanted /\ v.cancelled = u.cancelled
      /\ v.failed = u.failed /\ v.handle = u.handle /\ v.audio = u.audio
      /\ v.pending = u.pending /\ v.batches = u.batches /\ v.current = u.current
      /\ v.shown = u.shown /\ v.ttsDone = u.ttsDone /\ v.advancing = u.advancing
      /\ v.stale = u.stale /\ v.begun = u.begun /\ v.voice = u.voice
      /\ v.files = u.files \ {s} /\ v.active = u.active /\ v.stage = u.stage
  BY <1>1 DEF UiState
<1> HIDE DEF v
<1>4. /\ Working(v) = Working(u) /\ Batched(v) = Batched(u) /\ Over(v, ev) = Over(u, ev)
      /\ Playing(v) = Playing(u) /\ Live(v, ev) = Live(u, ev)
  BY <1>3 DEF Over, Working, Playing, Batched, Live
<1>5. Touched(v, ev) = Touched(u, ev) /\ Bound(v, ev) = Bound(u, ev)
  BY <1>3, <1>4 DEF Touched, Bound
<1>6. Places(v, ev) /\ Results(v, ev) /\ Order(v)
  BY <1>3, <1>4 DEF Sound, Places, Results, Order
<1>7. Fresh(v, ev) /\ Handles(v, ev) /\ Turn(v, ev)
  BY <1>3, <1>4, <1>5 DEF Sound, Fresh, Handles, Turn
<1>8. FilesBut(v, ev, {}) /\ SameText(u, v)
  BY <1>3 DEF FilesBut, SameText
<1> QED
  BY <1>1, <1>2, <1>3, <1>5, <1>6, <1>7, <1>8 DEF Core, Sound

(* An audio that is ready before its turn is kept with the handle. *)
LEMMA ReadyCore ==
  ASSUME NEW u, NEW ev, Sound(u, ev), NEW s \in Segment, FilesBut(u, ev, {s}),
         s = u.handle, s \notin Live(u, ev) \cup Over(u, ev)
  PROVE  LET v == [u EXCEPT !.ready = @ \cup {s}]
         IN /\ Core(v, ev) /\ Touched(v, ev) = Touched(u, ev)
            /\ SameText(u, v) /\ v.handle = u.handle
<1> DEFINE v == [u EXCEPT !.ready = @ \cup {s}]
<1>1. u \in UiState /\ ev \in Seq(Signals \X Segment) /\ s # None
  BY DEF Sound, Segment, None
<1>2. v \in UiState
  BY <1>1 DEF UiState
<1>3. /\ v.requests = u.requests /\ v.ready = u.ready \cup {s} /\ v.list = u.list
      /\ v.ahead = u.ahead /\ v.wanted = u.wanted /\ v.cancelled = u.cancelled
      /\ v.failed = u.failed /\ v.handle = u.handle /\ v.audio = u.audio
      /\ v.pending = u.pending /\ v.batches = u.batches /\ v.current = u.current
      /\ v.shown = u.shown /\ v.ttsDone = u.ttsDone /\ v.advancing = u.advancing
      /\ v.stale = u.stale /\ v.begun = u.begun /\ v.voice = u.voice
      /\ v.files = u.files /\ v.active = u.active /\ v.stage = u.stage
  BY <1>1 DEF UiState
<1> HIDE DEF v
<1>4. s \in u.ahead /\ s \notin u.wanted
  BY <1>1 DEF Sound, Handles
<1>5. /\ Working(v) = Working(u) /\ Batched(v) = Batched(u) /\ Over(v, ev) = Over(u, ev)
      /\ Playing(v) = Playing(u)
  BY <1>3 DEF Over, Working, Playing, Batched
<1>6. Live(v, ev) = Live(u, ev) \cup {s}
  BY <1>3, <1>5 DEF Live
<1>7. Touched(v, ev) = Touched(u, ev) /\ Bound(v, ev) = Bound(u, ev)
  BY <1>3, <1>4, <1>5, <1>6 DEF Touched, Bound
<1>8. Places(v, ev)
  <2>1. s \notin Range(u.requests) \cup Working(u) \cup Coming(ev) \cup Range(u.list) \cup Playing(u)
    BY DEF Live
  <2> QED
    BY <1>3, <1>5, <1>6, <2>1 DEF Sound, Places
<1>9. Results(v, ev) /\ Order(v)
  BY <1>3, <1>5 DEF Sound, Results, Order
<1>10. Fresh(v, ev) /\ Turn(v, ev)
  BY <1>3, <1>5, <1>7 DEF Sound, Fresh, Turn
<1>11. Handles(v, ev)
  BY <1>3, <1>4, <1>5, <1>6, <1>7 DEF Sound, Handles
<1>12. FilesBut(v, ev, {}) /\ SameText(u, v)
  BY <1>3 DEF FilesBut, SameText
<1> QED
  BY <1>1, <1>2, <1>3, <1>7, <1>8, <1>9, <1>10, <1>11, <1>12 DEF Core, Sound, v

(* A handle whose work has failed *)
LEMMA FailedCore ==
  ASSUME NEW u, NEW ev, Core(u, ev), NEW s \in Segment, s \in u.ahead, s \notin Live(u, ev),
         NEW w \in {u.wanted, u.wanted \ {s}}
  PROVE  LET v == [u EXCEPT !.failed = @ \cup {s}, !.wanted = w]
         IN /\ Core(v, ev) /\ Touched(v, ev) = Touched(u, ev)
            /\ s \notin Bound(v, ev)
            /\ SameText(u, v) /\ v.handle = u.handle
<1> DEFINE v == [u EXCEPT !.failed = @ \cup {s}, !.wanted = w]
<1>1. u \in UiState /\ ev \in Seq(Signals \X Segment) /\ w \subseteq u.wanted /\ u.wanted \ {s} \subseteq w
  BY DEF Core, Sound
<1>2. v \in UiState
  BY <1>1 DEF UiState
<1>3. /\ v.requests = u.requests /\ v.ready = u.ready /\ v.list = u.list
      /\ v.ahead = u.ahead /\ v.wanted = w /\ v.cancelled = u.cancelled
      /\ v.failed = u.failed \cup {s} /\ v.handle = u.handle /\ v.audio = u.audio
      /\ v.pending = u.pending /\ v.batches = u.batches /\ v.current = u.current
      /\ v.shown = u.shown /\ v.ttsDone = u.ttsDone /\ v.advancing = u.advancing
      /\ v.stale = u.stale /\ v.begun = u.begun /\ v.voice = u.voice
      /\ v.files = u.files /\ v.active = u.active /\ v.stage = u.stage
  BY <1>1 DEF UiState
<1> HIDE DEF v
<1>4. /\ Working(v) = Working(u) /\ Batched(v) = Batched(u) /\ Over(v, ev) = Over(u, ev) \cup {s}
      /\ Playing(v) = Playing(u) /\ Live(v, ev) = Live(u, ev)
  BY <1>3 DEF Over, Working, Playing, Batched, Live
<1>5. Touched(v, ev) = Touched(u, ev) /\ Bound(v, ev) = Bound(u, ev) /\ s \notin Bound(v, ev)
  BY <1>1, <1>3, <1>4 DEF Touched, Bound
<1>6. Places(v, ev) /\ Results(v, ev) /\ Order(v)
  BY <1>3, <1>4 DEF Core, Sound, Places, Results, Order
<1>7. Fresh(v, ev) /\ Turn(v, ev)
  BY <1>3, <1>4, <1>5 DEF Core, Sound, Fresh, Turn
<1>8. Handles(v, ev)
  BY <1>1, <1>3, <1>4, <1>5 DEF Core, Sound, Handles
<1>9. FilesBut(v, ev, {}) /\ SameText(u, v)
  BY <1>3 DEF Core, FilesBut, SameText
<1> QED
  BY <1>1, <1>2, <1>3, <1>5, <1>6, <1>7, <1>8, <1>9 DEF Core, Sound, v

LEMMA HandleSignalStep ==
  ASSUME IInv, HandleSignal
  PROVE  IInv'
<1> DEFINE e == Tail(events)
           kind == Head(events)[1]
           s == Head(events)[2]
<1>1. /\ Core(ui, events) /\ Whole(ui, events) /\ ui \in UiState /\ events # <<>> /\ events' = e
  BY DEF IInv, Whole, Core, Sound, HandleSignal
<1>2. PICK interacting \in BOOLEAN :
        ui' = CASE kind = "audio" /\ ui.voice = "on" -> Enqueue(ui, s)
                [] kind = "audio" /\ ui.voice # "on" -> Deleted(ui, s)
                [] kind = "ahead" -> StoreAhead(ui, s)
                [] kind \in {"aheadFailed", "aheadSkipped"} -> FailAhead(ui, s, interacting)
                [] kind = "started" -> Started(ui, s)
                [] kind = "finished" -> Finished(ui, s, interacting)
                [] kind = "cleanup" -> Deleted(ui, s)
  BY DEF HandleSignal
<1>3. /\ Sound(ui, e) /\ kind \in Signals /\ s \in Segment
      /\ FilesBut(ui, e, {s})
      /\ kind \notin {"audio", "ahead", "cleanup"} => FilesBut(ui, e, {})
      /\ Touched(ui, e) \subseteq Touched(ui, events)
      /\ kind \in {"audio", "ahead"} => s \in Coming(events) \ Coming(e)
      /\ kind \in {"aheadFailed", "aheadSkipped", "finished"} => s \in Signalled(events)
      /\ kind = "audio" => s \notin ui.ahead
      /\ kind \in {"ahead", "aheadFailed", "aheadSkipped"} => s \in ui.ahead
      /\ Over(ui, e) \subseteq Over(ui, events) /\ Live(ui, e) \subseteq Live(ui, events)
  BY <1>1, TakenSound
<1> HIDE DEF e, kind, s
(* A function that leaves texts and handle alone keeps the invariant. *)
<1>4. ASSUME NEW v, Core(v, e), Touched(v, e) \subseteq Touched(ui, events),
             SameText(ui, v), v.handle = ui.handle, ui' = v
      PROVE  IInv'
  <2>1. Whole(v, e)
    BY <1>1, <1>4, WholeKept DEF SameText
  <2> QED
    BY <1>1, <1>4, <2>1 DEF IInv
<1>5. CASE ui' = Deleted(ui, s)
  <2>1. /\ Core(Deleted(ui, s), e) /\ Touched(Deleted(ui, s), e) = Touched(ui, e)
        /\ SameText(ui, Deleted(ui, s)) /\ Deleted(ui, s).handle = ui.handle
    BY <1>3, DeletedCore
  <2> QED
    BY <1>3, <1>4, <1>5, <2>1
(* The speech that has come is at no other place. *)
<1>6. ASSUME kind \in {"audio", "ahead"}
      PROVE  /\ s \in Live(ui, events) /\ s \in Touched(ui, events)
             /\ s \notin Live(ui, e) \cup Over(ui, e)
             /\ s \notin Range(ui.requests) \cup Working(ui) \cup Coming(e) \cup Range(ui.list) \cup Playing(ui)
             /\ s \in 1 .. ui.shown /\ s \notin Batched(ui)
             /\ \A i \in DOMAIN ui.pending : i # 1 => ui.pending[i] # s
  <2>1. Places(ui, events) /\ Fresh(ui, events) /\ s \in Coming(events) /\ s \notin Coming(e)
    BY <1>1, <1>3, <1>6 DEF Core, Sound
  <2>2. s \in Live(ui, events) /\ s \in Touched(ui, events)
    BY <2>1 DEF Live, Touched
  <2>3. s \notin Range(ui.requests) \cup Working(ui) \cup ui.ready \cup Range(ui.list) \cup Playing(ui)
    BY <2>1 DEF Places
  <2>4. s \notin Live(ui, e) \cup Over(ui, e)
    BY <1>3, <2>1, <2>2, <2>3 DEF Places, Live
  <2> QED
    BY <2>1, <2>2, <2>3, <2>4 DEF Fresh
<1>7. CASE kind \in {"audio", "ahead"} /\ (s \in ui.ahead => s \in ui.wanted) /\ ui' = Enqueue(ui, s)
  <2>1. s \in ui.stale \/ (s = ui.current /\ ~ui.ttsDone)
    BY <1>1, <1>6, <1>7 DEF Core, Sound, Turn, Bound
  <2> DEFINE v == Enqueue(ui, s)
  <2>2. /\ Core(v, e) /\ Touched(v, e) = Touched(ui, e) \cup {s}
        /\ SameText(ui, v) /\ v.handle = ui.handle
    BY <1>3, <1>6, <1>7, <2>1, EnqueueCore
  <2> HIDE DEF v
  <2>3. Touched(v, e) \subseteq Touched(ui, events)
    BY <1>3, <1>6, <1>7, <2>2
  <2> QED
    BY <1>4, <1>7, <2>2, <2>3 DEF v
<1>8. CASE kind = "audio"
  <2>1. ui' = Enqueue(ui, s) \/ ui' = Deleted(ui, s)
    BY <1>2, <1>8
  <2> QED
    BY <1>3, <1>5, <1>7, <1>8, <2>1
<1>9. CASE kind = "ahead"
  <2>1. ui' = StoreAhead(ui, s)
    BY <1>2, <1>9
  <2>2. CASE ui.voice # "on" \/ s \in ui.cancelled
    BY <1>5, <2>1, <2>2 DEF StoreAhead
  <2>3. CASE ui.voice = "on" /\ s \notin ui.cancelled /\ s \in ui.wanted
    BY <1>7, <1>9, <2>1, <2>3 DEF StoreAhead, Stored
  <2>4. CASE ui.voice = "on" /\ s \notin ui.cancelled /\ s \notin ui.wanted
    <3> DEFINE v == [ui EXCEPT !.ready = @ \cup {s}]
    <3>1. ui' = v
      BY <2>1, <2>4 DEF StoreAhead, Stored
    <3>2. s = ui.handle
      BY <1>1, <1>3, <1>6, <1>9, <2>4 DEF Core, Sound, Handles
    <3>3. /\ Core(v, e) /\ Touched(v, e) = Touched(ui, e) /\ SameText(ui, v) /\ v.handle = ui.handle
      BY <1>3, <1>6, <1>9, <3>2, ReadyCore
    <3> HIDE DEF v
    <3> QED
      BY <1>3, <1>4, <3>1, <3>3
  <2> QED
    BY <2>2, <2>3, <2>4
<1>10. ASSUME kind \in {"aheadFailed", "aheadSkipped", "started", "finished"}
       PROVE  Core(ui, e)
  BY <1>3, <1>10 DEF Core
<1>11. ASSUME kind \in {"aheadFailed", "aheadSkipped", "finished"}
       PROVE  s \notin Live(ui, e)
  BY <1>1, <1>3, <1>11 DEF Core, Sound, Places, Over
<1>12. NextFresh(ui, e) /\ HandleNext(ui)
  BY <1>1, <1>3 DEF Whole, NextFresh
<1>13. CASE kind \in {"aheadFailed", "aheadSkipped"}
  <2> DEFINE f == [ui EXCEPT !.failed = @ \cup {s}]
             v == [ui EXCEPT !.failed = @ \cup {s}, !.wanted = ui.wanted]
             w == [ui EXCEPT !.failed = @ \cup {s}, !.wanted = ui.wanted \ {s}]
  <2>1. ui' = FailAhead(ui, s, interacting)
    BY <1>2, <1>13
  <2>2. f = v /\ [f EXCEPT !.wanted = @ \ {s}] = w
    BY <1>1 DEF UiState
  <2>3. ui' = v \/ ui' = Both(w, s, interacting)
    BY <2>1, <2>2 DEF FailAhead
  <2>4. /\ Core(v, e) /\ Touched(v, e) = Touched(ui, e) /\ SameText(ui, v) /\ v.handle = ui.handle
    BY <1>3, <1>10, <1>11, <1>13, FailedCore
  <2>5. /\ Core(w, e) /\ Touched(w, e) = Touched(ui, e) /\ s \notin Bound(w, e)
        /\ SameText(ui, w) /\ w.handle = ui.handle
    BY <1>3, <1>10, <1>11, <1>13, FailedCore
  <2> HIDE DEF f, v, w
  <2>6. CASE ui' = v
    BY <1>3, <1>4, <2>4, <2>6
  <2>7. CASE ui' = Both(w, s, interacting)
    <3>1. HandleNext(w) /\ NextFresh(w, e)
      BY <1>12, <2>5 DEF SameText, HandleNext, NextFresh
    <3>2. Onward(w, Both(w, s, interacting), e)
      BY <1>3, <2>5, <3>1, BothCore
    <3>3. Whole(Both(w, s, interacting), e)
      BY <3>1, <3>2, OnwardWhole
    <3> QED
      BY <1>1, <2>7, <3>3 DEF IInv
  <2> QED
    BY <2>3, <2>6, <2>7
<1>14. CASE kind = "started"
  <2>1. ui' = Started(ui, s)
    BY <1>2, <1>14
  <2>2. /\ Core(Started(ui, s), e) /\ Touched(Started(ui, s), e) = Touched(ui, e)
        /\ SameText(ui, Started(ui, s)) /\ Started(ui, s).handle = ui.handle
    BY <1>10, <1>14, StartedCore
  <2> QED
    BY <1>3, <1>4, <2>1, <2>2
<1>15. CASE kind = "finished"
  <2>1. ui' = Finished(ui, s, interacting)
    BY <1>2, <1>15
  <2>2. s \notin Bound(ui, e)
    BY <1>11, <1>15 DEF Bound
  <2>3. Onward(ui, Finished(ui, s, interacting), e)
    BY <1>3, <1>10, <1>12, <1>15, <2>2, FinishedCore
  <2>4. Whole(Finished(ui, s, interacting), e)
    BY <1>12, <2>3, OnwardWhole
  <2> QED
    BY <1>1, <2>1, <2>4 DEF IInv
<1>16. CASE kind = "cleanup"
  <2>1. ui' = Deleted(ui, s)
    BY <1>2, <1>16
  <2> QED
    BY <1>5, <2>1
<1> QED
  BY <1>3, <1>8, <1>9, <1>13, <1>14, <1>15, <1>16 DEF Signals

-----------------------------------------------------------------------------
LEMMA Invariance == Spec => []IInv
<1>1. Init => IInv
  BY InitWhole
<1>2. IInv /\ [Next]_vars => IInv'
  <2> SUFFICES ASSUME IInv, [Next]_vars
               PROVE  IInv'
    OBVIOUS
  <2>1. CASE UNCHANGED vars
    <3>1. ui' = ui /\ events' = events
      BY <2>1 DEF vars
    <3> QED
      BY <3>1 DEF IInv
  <2>2. CASE Reply
    BY <2>2, ReplyStep
  <2>3. CASE TextEnds
    BY <2>3, TextEndsStep
  <2>4. CASE RestartText
    BY <2>4, RestartTextStep
  <2>5. ASSUME NEW s \in Segment, TimerFires(s)
        PROVE  IInv'
    BY <2>5, TimerFiresStep
  <2>6. ASSUME NEW s \in Segment, FallbackFires(s)
        PROVE  IInv'
    BY <2>6, FallbackFiresStep
  <2>7. CASE WakeUp
    BY <2>7, WakeUpStep
  <2>8. CASE AudioBegins
    BY <2>8, AudioBeginsStep
  <2>9. CASE AudioEnds
    BY <2>9, AudioEndsStep
  <2>10. CASE Interrupt
    BY <2>10, InterruptStep
  <2>11. CASE SwitchVoice
    BY <2>11, SwitchVoiceStep
  <2>12. CASE Skip
    BY <2>12, SkipStep
  <2>13. CASE EngineFails
    BY <2>13, EngineFailsStep
  <2>18. CASE EngineRaises
    BY <2>18, EngineRaisesStep
  <2>14. CASE EngineMakes
    BY <2>14, EngineMakesStep
  <2>15. CASE Deliver
    BY <2>15, DeliverStep
  <2>16. CASE EndRequest
    BY <2>16, EndRequestStep
  <2>17. CASE HandleSignal
    BY <2>17, HandleSignalStep
  <2> QED
    BY <2>1, <2>2, <2>3, <2>4, <2>5, <2>6, <2>7, <2>8, <2>9, <2>10, <2>11, <2>12, <2>13,
       <2>14, <2>15, <2>16, <2>17, <2>18 DEF Next
<1> QED
  BY <1>1, <1>2, PTL DEF Spec

(* Only the request of the thread leaves a file half written. *)
LEMMA StrayOfSegments == Spec => [](stray \subseteq Segment)
<1>1. Init => stray \subseteq Segment
  BY DEF Init
<1>2. IInv /\ stray \subseteq Segment /\ [Next]_vars => (stray \subseteq Segment)'
  <2> SUFFICES ASSUME IInv, stray \subseteq Segment, [Next]_vars
               PROVE  (stray \subseteq Segment)'
    OBVIOUS
  <2>1. ui.active # None => ui.active \in Segment
    BY DEF IInv, Whole, Core, Sound, UiState
  <2>2. CASE EngineRaises
    BY <2>1, <2>2 DEF EngineRaises
  <2>3. CASE ~EngineRaises
    <3>1. stray' = stray
      BY <2>3 DEF Next, vars, Reply, TextEnds, RestartText, TimerFires, FallbackFires, WakeUp,
                  AudioBegins, AudioEnds, Interrupt, SwitchVoice, Skip, EngineFails, EngineMakes,
                  Deliver, EndRequest, HandleSignal
    <3> QED
      BY <3>1
  <2> QED
    BY <2>2, <2>3
<1> QED
  BY <1>1, <1>2, Invariance, PTL DEF Spec

(* The controllers, the request queue and the playback endpoint keep their
   types; a segment is requested once and listed for playback once, though it
   may be both prepared and spoken, and no started flag outlives its audio. *)
THEOREM TypesCorrect == Spec => []TypeOK
<1>1. IInv /\ stray \subseteq Segment => TypeOK
  BY DEF IInv, Whole, Core, Sound, Places, Turn, TypeOK
<1> QED
  BY <1>1, Invariance, StrayOfSegments, PTL

(* The voice is never at a segment other than the one in the bubble, but for
   what an interruption has overtaken: whatever the order in which the thread
   answers, timers fire, replies come and providers are replaced. *)
THEOREM VoiceOnTurn == Spec => []VoiceIsCurrent
<1>1. IInv => VoiceIsCurrent
  <2> SUFFICES ASSUME IInv, ui.audio # None
               PROVE  ui.audio = ui.current \/ ui.audio \in ui.stale
    BY DEF VoiceIsCurrent
  <2>1. Handles(ui, events) /\ Turn(ui, events)
    BY DEF IInv, Whole, Core, Sound
  <2>2. ui.audio \in Bound(ui, events)
    BY <2>1 DEF Handles, Playing
  <2> QED
    BY <2>1, <2>2 DEF Turn
<1> QED
  BY <1>1, Invariance, PTL

(* No temporary audio file is lost but one that could not be written to the
   end: at any time the thread, a signal, a handle that is in use, the play
   list or the player answers for every other. *)
THEOREM AudioAccounted == Spec => []NoAudioLeaks
<1>1. IInv => NoAudioLeaks
  <2> SUFFICES ASSUME IInv, NEW s \in ui.files
               PROVE  Owned(s)
    BY DEF NoAudioLeaks
  <2> QED
    BY DEF IInv, Whole, Core, FilesBut, Owned
<1> QED
  BY <1>1, Invariance, PTL

=============================================================================
