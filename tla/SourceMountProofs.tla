------------------------- MODULE SourceMountProofs -------------------------
(***************************************************************************)
(* Proofs about SourceMount for every set of sources and every bound, and  *)
(* about the segments made of a mount's audio (HLSSegmenter, at the end).  *)
(*                                                                         *)
(* None of the safety properties is inductive: that a switch never hooks   *)
(* a source twice rests on what the calls still waiting for vitals         *)
(* remember (none of them waits for the source it found active), and that  *)
(* a waiting call's source is still in the list rests on the disconnect    *)
(* dropping the listeners.  IInv collects these facts.                     *)
(*                                                                         *)
(* HLSSegmenter: neighbours in the list are linked by their PTS, and the   *)
(* last one with the PTS kept for the next (InTime); every way the         *)
(* finalizer changes its list keeps that, hence so does any sequence of    *)
(* segments written to it (WriteAllKeepsTime).  That the discontinuities   *)
(* are at the gaps needs the order of things in time as well (GapInv): the *)
(* sequence the finalizer keeps for the front of the list is not moved     *)
(* when the front expires, so a segment may be put there only while        *)
(* nothing has been lost there.  That is so while a load goes on, of any   *)
(* length, unless a live chunk pushes another out of the full buffer       *)
(* (crowded) or the minimum keeps the segment out (Fits).  The numbers of  *)
(* a process rest on those of the dump it begins with (DumpInv).           *)
(***************************************************************************)
EXTENDS SourceMount, SegmenterInvariants, SequenceTheorems, FiniteSetTheorems,
        WellFoundedInduction, TLAPS

NoDup(list) == \A i, j \in DOMAIN list : list[i] = list[j] => i = j

Up == {s \in Source : life[s] = "up"}

\* The active source was added and has its header.
ActiveKnown == source # None => life[source] # "idle" /\ vit[source] # 0

\* A waiting call waits for a connected source without a header (or one whose
\* header is being announced), which is not the source it found active.
WaitersOk ==
    \A s \in Source : \A n \in Members(waiting[s]) :
        /\ n <= made
        /\ old[n] # s
        /\ life[s] = "up"
        /\ vit[s] = 0 \/ firing = s

FiringOk ==
    firing # None => waiting[firing] # <<>> /\ vit[firing] # 0 /\ closing = <<>>

\* destroy meets each source once, still connected.
ClosingOk ==
    /\ NoDup(closing)
    /\ Members(closing) \subseteq Up

\* The announcements that are still queued end with the active source's.
Announcing ==
    ~destroyed /\ source # None =>
        IF ticks = <<>> THEN announced = source /\ mvitals = vit[source]
                        ELSE ticks[Len(ticks)] = source

IInv ==
    /\ TypeOK
    /\ OneFeed
    /\ ListsTheConnected
    /\ ActiveLeads
    /\ ActiveKnown
    /\ WaitersOk
    /\ FiringOk
    /\ ClosingOk
    /\ Announcing

----------------------------------------------------------------------------
(* Lists of sources *)

\* What Append adds to a sequence.
LEMMA MembersOfAppend ==
    ASSUME NEW S, NEW seq \in Seq(S), NEW e \in S
    PROVE  /\ Append(seq, e) \in Seq(S)
           /\ Members(Append(seq, e)) = Members(seq) \cup {e}
<1> DEFINE r == Append(seq, e)
<1>1. /\ r \in Seq(S)
      /\ Len(r) = Len(seq) + 1
      /\ r[Len(r)] = e
      /\ \A j \in 1 .. Len(seq) : r[j] = seq[j]
  BY AppendProperties
<1>2. DOMAIN r = 1 .. Len(r) /\ DOMAIN seq = 1 .. Len(seq)
  BY <1>1
<1> HIDE DEF r
<1>3. Members(r) = Members(seq) \cup {e}
  BY <1>1, <1>2 DEF Members
<1> QED
  BY <1>1, <1>3 DEF r

\* What Tail leaves of a sequence.
LEMMA MembersOfTail ==
    ASSUME NEW S, NEW seq \in Seq(S), seq # <<>>
    PROVE  /\ Tail(seq) \in Seq(S)
           /\ Members(Tail(seq)) \subseteq Members(seq)
           /\ Head(seq) \in Members(seq)
           /\ NoDup(seq) => NoDup(Tail(seq))
           /\ NoDup(seq) => Members(Tail(seq)) = Members(seq) \ {Head(seq)}
           /\ Len(seq) # 1 => Tail(seq) # <<>>
<1> DEFINE r == Tail(seq)
<1>1. /\ r \in Seq(S)
      /\ Len(r) = Len(seq) - 1
      /\ \A j \in 1 .. Len(r) : r[j] = seq[j + 1]
      /\ Head(seq) = seq[1] /\ Len(seq) \in Nat \ {0}
  BY HeadTailProperties
<1>2. DOMAIN r = 1 .. Len(r) /\ DOMAIN seq = 1 .. Len(seq)
  BY <1>1
<1> HIDE DEF r
<1>3. Len(seq) # 1 => r # <<>>
  BY <1>1
<1>4. \A j \in DOMAIN r : j + 1 \in DOMAIN seq /\ r[j] = seq[j + 1]
  BY <1>1, <1>2
<1>5. Members(r) \subseteq Members(seq) /\ Head(seq) \in Members(seq)
  BY <1>1, <1>2, <1>4 DEF Members
<1>6. ASSUME NoDup(seq)
      PROVE  NoDup(r) /\ Members(r) = Members(seq) \ {Head(seq)}
  <2>1. NoDup(r)
    <3>1. SUFFICES ASSUME NEW i \in DOMAIN r, NEW j \in DOMAIN r, r[i] = r[j]
                   PROVE  i = j
      BY DEF NoDup
    <3>2. i + 1 = j + 1
      BY <1>4, <1>6, <3>1 DEF NoDup
    <3> QED
      BY <1>1, <1>2, <3>2
  <2>2. \A j \in DOMAIN r : r[j] # Head(seq)
    <3>1. SUFFICES ASSUME NEW j \in DOMAIN r, r[j] = Head(seq) PROVE FALSE
      OBVIOUS
    <3>2. j + 1 = 1
      BY <1>1, <1>2, <1>4, <1>6, <3>1 DEF NoDup
    <3> QED
      BY <1>1, <1>2, <3>2
  <2>3. ASSUME NEW i \in DOMAIN seq, seq[i] # Head(seq)
        PROVE  seq[i] \in Members(r)
    <3>1. i # 1 /\ i - 1 \in DOMAIN r
      BY <1>1, <1>2, <2>3
    <3>2. r[i - 1] = seq[i]
      BY <1>1, <1>2, <3>1
    <3> QED
      BY <3>1, <3>2 DEF Members
  <2> QED
    BY <1>5, <2>1, <2>2, <2>3 DEF Members
<1> QED
  BY <1>1, <1>3, <1>5, <1>6 DEF r

\* Dropping a source from a list that holds each source once leaves a list
\* that holds each of the others once.
LEMMA WithoutDrops ==
    ASSUME NEW list \in Seq(Source), NEW s \in Source, NoDup(list)
    PROVE  /\ Without(list, s) \in Seq(Source)
           /\ NoDup(Without(list, s))
           /\ Members(Without(list, s)) = Members(list) \ {s}
<1>1. CASE ~(\E i \in DOMAIN list : list[i] = s)
  BY <1>1 DEF Without, Members
<1>2. CASE \E i \in DOMAIN list : list[i] = s
  <2> DEFINE k == CHOOSE i \in DOMAIN list : list[i] = s
             r == Without(list, s)
  <2>1. k \in DOMAIN list /\ list[k] = s
    BY <1>2
  <2> HIDE DEF k
  <2>2. r = [j \in 1 .. (Len(list) - 1) |-> IF j < k THEN list[j] ELSE list[j + 1]]
    BY <1>2 DEF Without, k
  <2>3. DOMAIN list = 1 .. Len(list) /\ Len(list) \in Nat
    OBVIOUS
  <2>4. DOMAIN r = 1 .. (Len(list) - 1)
    BY <2>2
  <2>5. \A j \in DOMAIN r : r[j] \in Source
    BY <2>1, <2>2, <2>3
  <2>6. r \in Seq(Source)
    BY <2>1, <2>2, <2>3, <2>5, IsASeq
  <2>7. \A i, j \in DOMAIN r : r[i] = r[j] => i = j
    BY <2>1, <2>2, <2>3 DEF NoDup
  <2>8. \A j \in DOMAIN r : r[j] \in Members(list) \ {s}
    BY <2>1, <2>2, <2>3 DEF NoDup, Members
  <2>9. ASSUME NEW t \in Members(list) \ {s}
        PROVE  t \in Members(r)
    <3>1. PICK i \in DOMAIN list : list[i] = t
      BY DEF Members
    <3>2. i # k
      BY <2>1, <3>1
    <3>3. CASE i < k
      BY <2>1, <2>2, <2>3, <2>4, <3>1, <3>3 DEF Members
    <3>4. CASE i > k
      <4>1. i - 1 \in DOMAIN r /\ r[i - 1] = t
        BY <2>1, <2>2, <2>3, <2>4, <3>1, <3>4
      <4> QED
        BY <4>1 DEF Members
    <3> QED
      BY <2>1, <2>3, <3>2, <3>3, <3>4
  <2>10. Members(r) = Members(list) \ {s}
    BY <2>8, <2>9 DEF Members
  <2> QED
    BY <2>6, <2>7, <2>10 DEF NoDup
<1> QED
  BY <1>1, <1>2

\* Dropping another source leaves the first one first.
LEMMA HeadStays ==
    ASSUME NEW list \in Seq(Source), NEW s \in Source, list # <<>>, Head(list) # s
    PROVE  Without(list, s) # <<>> /\ Head(Without(list, s)) = Head(list)
<1>1. CASE ~(\E i \in DOMAIN list : list[i] = s)
  BY <1>1 DEF Without
<1>2. CASE \E i \in DOMAIN list : list[i] = s
  <2> DEFINE k == CHOOSE i \in DOMAIN list : list[i] = s
             r == Without(list, s)
  <2>1. k \in DOMAIN list /\ list[k] = s
    BY <1>2
  <2> HIDE DEF k
  <2>2. r = [j \in 1 .. (Len(list) - 1) |-> IF j < k THEN list[j] ELSE list[j + 1]]
    BY <1>2 DEF Without, k
  <2>3. k # 1 /\ k \in 1 .. Len(list) /\ Len(list) \in Nat /\ Head(list) = list[1]
    BY <2>1
  <2>4. DOMAIN r = 1 .. (Len(list) - 1) /\ r[1] = list[1] /\ 1 \in DOMAIN r
    BY <2>2, <2>3
  <2>5. r \in Seq(Source)
    <3>1. \A j \in DOMAIN r : r[j] \in Source
      BY <2>2, <2>3
    <3> QED
      BY <2>2, <2>3, <3>1, IsASeq
  <2> HIDE DEF r
  <2>6. r # <<>> /\ Head(r) = r[1]
    BY <2>4, <2>5
  <2> QED
    BY <2>3, <2>4, <2>6 DEF r
<1> QED
  BY <1>1, <1>2

\* Putting a source in front of a list that does not hold it.
LEMMA FrontOfList ==
    ASSUME NEW list \in Seq(Source), NEW s \in Source, NoDup(list), s \notin Members(list)
    PROVE  /\ <<s>> \o list \in Seq(Source)
           /\ NoDup(<<s>> \o list)
           /\ Members(<<s>> \o list) = Members(list) \cup {s}
           /\ <<s>> \o list # <<>> /\ Head(<<s>> \o list) = s
<1> DEFINE r == <<s>> \o list
<1>1. /\ r \in Seq(Source)
      /\ Len(r) = Len(list) + 1
      /\ r[1] = s
      /\ \A j \in 1 .. Len(list) : r[j + 1] = list[j]
  BY ConcatProperties
<1>2. \A j \in 2 .. Len(r) : j - 1 \in DOMAIN list /\ r[j] = list[j - 1]
  BY <1>1
<1>3. DOMAIN r = 1 .. Len(r) /\ DOMAIN list = 1 .. Len(list)
  BY <1>1
<1> HIDE DEF r
<1>4. NoDup(r)
  <2>1. SUFFICES ASSUME NEW i \in DOMAIN r, NEW j \in DOMAIN r, r[i] = r[j]
                 PROVE  i = j
    BY DEF NoDup
  <2>2. \A k \in DOMAIN r : k # 1 => r[k] # s
    BY <1>1, <1>2, <1>3 DEF Members
  <2>3. CASE i # 1 /\ j # 1
    <3>1. i \in 2 .. Len(r) /\ j \in 2 .. Len(r)
      BY <1>1, <1>3, <2>3
    <3>2. i - 1 \in DOMAIN list /\ j - 1 \in DOMAIN list /\ list[i - 1] = list[j - 1]
      BY <1>2, <2>1, <3>1
    <3>3. i - 1 = j - 1
      BY <3>2 DEF NoDup
    <3> QED
      BY <3>1, <3>3
  <2> QED
    BY <1>1, <2>1, <2>2, <2>3
<1>5. Members(r) = Members(list) \cup {s}
  <2>1. Members(r) \subseteq Members(list) \cup {s}
    BY <1>1, <1>2, <1>3 DEF Members
  <2>2. s \in Members(r)
    BY <1>1, <1>3 DEF Members
  <2>3. ASSUME NEW t \in Members(list) PROVE t \in Members(r)
    <3>1. PICK j \in DOMAIN list : list[j] = t
      BY DEF Members
    <3>2. j + 1 \in DOMAIN r /\ r[j + 1] = t
      BY <1>1, <1>3, <3>1
    <3> QED
      BY <3>2 DEF Members
  <2> QED
    BY <2>1, <2>2, <2>3
<1>6. r # <<>> /\ Head(r) = s
  BY <1>1
<1> QED
  BY <1>1, <1>4, <1>5, <1>6 DEF r

\* Adding a source at the end of a list that does not hold it.
LEMMA EndOfList ==
    ASSUME NEW list \in Seq(Source), NEW s \in Source, NoDup(list), s \notin Members(list)
    PROVE  /\ Append(list, s) \in Seq(Source)
           /\ NoDup(Append(list, s))
           /\ Members(Append(list, s)) = Members(list) \cup {s}
           /\ Append(list, s) # <<>>
           /\ Head(Append(list, s)) = IF list = <<>> THEN s ELSE Head(list)
<1> DEFINE r == Append(list, s)
<1>1. /\ r \in Seq(Source)
      /\ Len(r) = Len(list) + 1
      /\ r[Len(r)] = s
      /\ \A j \in 1 .. Len(list) : r[j] = list[j]
  BY AppendProperties
<1>2. DOMAIN r = 1 .. Len(r) /\ DOMAIN list = 1 .. Len(list)
  BY <1>1
<1>3. r # <<>> /\ Head(r) = IF list = <<>> THEN s ELSE Head(list)
  BY <1>1
<1> HIDE DEF r
<1>4. NoDup(r)
  BY <1>1, <1>2 DEF NoDup, Members
<1>5. Members(r) = Members(list) \cup {s}
  BY MembersOfAppend DEF r
<1> QED
  BY <1>1, <1>3, <1>4, <1>5 DEF r

----------------------------------------------------------------------------
(* The switch, and useSource around it *)

\* The part of the type invariant that useSource can touch.
MountTypes ==
    /\ waiting \in [Source -> Seq(Call)]
    /\ hooks \in [Source -> Nat]
    /\ sources \in Seq(Source)
    /\ source \in Source \cup {None}
    /\ mvitals \in 0 .. MaxVitals
    /\ announced \in Source \cup {None}
    /\ ticks \in Seq(Source)
    /\ made \in 0 .. MaxAttempts
    /\ old \in [Call -> Source \cup {None}]
    /\ alarms \in SUBSET Call
    /\ answers \in [Call -> Seq(Answer)]

\* A switch to a connected source that is not the active one, by a call that
\* saw the active one (if there is one): the new source alone is hooked, leads
\* the list and is announced last.
LEMMA SwitchEffect ==
    ASSUME TypeOK,
           NEW s \in Source, NEW prev \in Source \cup {None},
           NEW list \in Seq(Source), NEW h \in [Source -> Nat],
           NoDup(list), Members(list) = Up', s \in Members(list),
           s # source, source # None => prev = source,
           \A t \in Source : h[t] = IF t = source /\ t \in Up' THEN 1 ELSE 0,
           vit[s] # 0, vit' = vit,
           SwitchTo(s, prev, list, h)
    PROVE  /\ hooks' \in [Source -> Nat]
           /\ sources' \in Seq(Source)
           /\ source' \in Source \cup {None}
           /\ mvitals' \in 0 .. MaxVitals
           /\ announced' \in Source \cup {None}
           /\ ticks' \in Seq(Source)
           /\ OneFeed' /\ ListsTheConnected' /\ ActiveLeads' /\ ActiveKnown' /\ Announcing'
<1> USE SourceAssumption
<1> DEFINE r == Without(list, s)
<1>1. r \in Seq(Source) /\ NoDup(r) /\ Members(r) = Members(list) \ {s}
  BY WithoutDrops
<1> HIDE DEF r
<1>2. sources' = <<s>> \o r
  BY DEF SwitchTo, r
<1>3. /\ sources' \in Seq(Source)
      /\ NoDup(sources')
      /\ Members(sources') = Members(r) \cup {s}
      /\ sources' # <<>> /\ Head(sources') = s
  BY <1>1, <1>2, FrontOfList
<1>4. Members(sources') = Up'
  BY <1>1, <1>3
<1>5. source' = s /\ source' # None /\ life'[s] = "up"
  BY DEF SwitchTo, Up
<1>6. Unhook(h, prev) \in [Source -> Nat]
  BY DEF Unhook
<1>7. hooks' \in [Source -> Nat]
  BY <1>6 DEF SwitchTo
<1>8. \A t \in Source : Unhook(h, prev)[t] = 0
  BY DEF Unhook
<1>9. OneFeed'
  BY <1>5, <1>6, <1>8 DEF OneFeed, SwitchTo
<1>10. /\ ticks' \in Seq(Source)
       /\ ticks' # <<>>
       /\ ticks'[Len(ticks')] = s
  <2>1. ticks' = Append(ticks, s) /\ ticks \in Seq(Source)
    BY DEF SwitchTo, TypeOK
  <2> QED
    BY <2>1, AppendProperties
<1>11. ListsTheConnected'
  BY <1>3, <1>4 DEF ListsTheConnected, NoDup, Up
<1> QED
  BY <1>3, <1>5, <1>7, <1>9, <1>10, <1>11
  DEF ActiveLeads, ActiveKnown, Announcing, SwitchTo, TypeOK

\* useSource, called by a handler that has brought list, hooks and listeners
\* in line with the sources that are up after it, keeps the invariant.
LEMMA UseSourceEffect ==
    ASSUME TypeOK, Announcing, ActiveKnown,
           NEW s \in Source, NEW list \in Seq(Source),
           NEW h \in [Source -> Nat], NEW w \in [Source -> Seq(Call)],
           NoDup(list), Members(list) = Up', s \in Members(list),
           s # source, source # None => life'[source] # "idle",
           \A t \in Source : h[t] = IF t = source /\ t \in Up' THEN 1 ELSE 0,
           \A t \in Source : \A n \in Members(w[t]) :
                n <= made /\ old[n] # t /\ t \in Up' /\ vit[t] = 0,
           source # None /\ source \in Up' => list # <<>> /\ Head(list) = source,
           vit' = vit, firing' = None, destroyed' = destroyed,
           UseSource(s, list, h, w)
    PROVE  /\ MountTypes'
           /\ OneFeed' /\ ListsTheConnected' /\ ActiveLeads' /\ ActiveKnown'
           /\ WaitersOk' /\ Announcing'
<1> USE SourceAssumption
<1>1. /\ made + 1 \in Call
      /\ made' = made + 1 /\ made' \in 0 .. MaxAttempts
      /\ old' \in [Call -> Source \cup {None}]
      /\ old' = [old EXCEPT ![made + 1] = source]
  <2>1. /\ made < MaxAttempts /\ made' = made + 1
        /\ old' = [old EXCEPT ![made + 1] = source]
    BY DEF UseSource
  <2>2. /\ made \in 0 .. MaxAttempts
        /\ old \in [Call -> Source \cup {None}]
        /\ source \in Source \cup {None}
    BY DEF TypeOK
  <2>3. made + 1 \in Call /\ made' \in 0 .. MaxAttempts
    BY <2>1, <2>2 DEF Call
  <2> QED
    BY <2>1, <2>2, <2>3
<1>2. \A n \in Call : n <= made => old'[n] = old[n] /\ n <= made'
  <2>1. made \in Nat /\ old \in [Call -> Source \cup {None}]
    BY DEF TypeOK
  <2>2. \A n \in Call : n \in Nat
    BY DEF Call
  <2>3. SUFFICES ASSUME NEW n \in Call, n <= made
                 PROVE  old'[n] = old[n] /\ n <= made'
    OBVIOUS
  <2>4. n # made + 1 /\ n <= made'
    BY <1>1, <2>1, <2>2, <2>3
  <2> QED
    BY <1>1, <2>1, <2>4
<1>3. \A t \in Source : \A n \in Members(w[t]) :
         n \in Call /\ n <= made' /\ old'[n] # t /\ life'[t] = "up" /\ vit'[t] = 0
  <2>1. \A t \in Source : \A n \in Members(w[t]) : n \in Call
    BY DEF Members
  <2> QED
    BY <1>2, <2>1 DEF Up
<1>4. CASE vit[s] # 0 /\ SwitchTo(s, source, list, h) /\ waiting' = w
           /\ answers' = [answers EXCEPT ![made + 1] = <<"ok">>] /\ alarms' = alarms
  <2>1. source \in Source \cup {None}
    BY DEF TypeOK
  <2>2. /\ hooks' \in [Source -> Nat]
        /\ sources' \in Seq(Source)
        /\ source' \in Source \cup {None}
        /\ mvitals' \in 0 .. MaxVitals
        /\ announced' \in Source \cup {None}
        /\ ticks' \in Seq(Source)
        /\ OneFeed' /\ ListsTheConnected' /\ ActiveLeads' /\ ActiveKnown' /\ Announcing'
    BY <1>4, <2>1, SwitchEffect
  <2>3. waiting' \in [Source -> Seq(Call)] /\ alarms' \in SUBSET Call
    BY <1>4 DEF TypeOK
  <2>4. <<"ok">> \in Seq(Answer)
    BY DEF Answer
  <2>5. answers' \in [Call -> Seq(Answer)]
    BY <1>1, <1>4, <2>4 DEF TypeOK
  <2>6. WaitersOk'
    BY <1>3, <1>4 DEF WaitersOk
  <2> QED
    BY <1>1, <2>2, <2>3, <2>5, <2>6 DEF MountTypes
<1>5. CASE /\ vit[s] = 0
           /\ waiting' = [w EXCEPT ![s] = Append(@, made + 1)]
           /\ alarms' = alarms \cup {made + 1}
           /\ sources' = list /\ hooks' = h
           /\ UNCHANGED <<source, mvitals, announced, ticks, answers>>
  <2>1. \A t \in Source : w[t] \in Seq(Call)
    OBVIOUS
  <2>2. /\ waiting'[s] \in Seq(Call)
        /\ Members(waiting'[s]) = Members(w[s]) \cup {made + 1}
    <3>1. waiting'[s] = Append(w[s], made + 1)
      BY <1>5
    <3> QED
      BY <1>1, <2>1, <3>1, MembersOfAppend
  <2>3. \A t \in Source \ {s} : waiting'[t] = w[t]
    BY <1>5
  <2>4. waiting' \in [Source -> Seq(Call)]
    BY <1>1, <1>5
  <2>5. life'[s] = "up" /\ old'[made + 1] = source
    BY <1>1 DEF Up, TypeOK
  <2>6. \A n \in Members(waiting'[s]) :
            n <= made' /\ old'[n] # s /\ life'[s] = "up" /\ vit'[s] = 0
    BY <1>1, <1>3, <1>5, <2>2, <2>5
  <2>7. WaitersOk'
    BY <1>3, <2>3, <2>6 DEF WaitersOk
  <2>8. MountTypes'
    <3>1. /\ sources' \in Seq(Source) /\ hooks' \in [Source -> Nat]
          /\ alarms' \in SUBSET Call
      BY <1>1, <1>5 DEF TypeOK
    <3>2. /\ source' \in Source \cup {None} /\ mvitals' \in 0 .. MaxVitals
          /\ announced' \in Source \cup {None} /\ ticks' \in Seq(Source)
          /\ answers' \in [Call -> Seq(Answer)]
      BY <1>5 DEF TypeOK
    <3> QED
      BY <1>1, <2>4, <3>1, <3>2 DEF MountTypes
  <2>9. OneFeed' /\ ListsTheConnected'
    BY <1>5 DEF OneFeed, ListsTheConnected, NoDup, Up, TypeOK
  <2>10. ActiveLeads' /\ ActiveKnown' /\ Announcing'
    BY <1>5 DEF ActiveLeads, ActiveKnown, Announcing, Up, TypeOK
  <2> QED
    BY <2>7, <2>8, <2>9, <2>10
<1> QED
  BY <1>4, <1>5 DEF UseSource

\* Under the invariant the sources that are up are hooked and waited for as
\* useSource expects, when no vitals event is being delivered.
LEMMA Settled ==
    ASSUME IInv, firing = None
    PROVE  /\ sources \in Seq(Source) /\ NoDup(sources) /\ Members(sources) = Up
           /\ hooks \in [Source -> Nat]
           /\ waiting \in [Source -> Seq(Call)]
           /\ \A t \in Source : hooks[t] = IF t = source /\ t \in Up THEN 1 ELSE 0
           /\ \A t \in Source : \A n \in Members(waiting[t]) :
                 n <= made /\ old[n] # t /\ t \in Up /\ vit[t] = 0
<1> USE SourceAssumption
<1>1. sources \in Seq(Source) /\ hooks \in [Source -> Nat] /\ waiting \in [Source -> Seq(Call)]
  BY DEF IInv, TypeOK
<1>2. NoDup(sources) /\ Members(sources) = Up
  BY DEF IInv, ListsTheConnected, NoDup, Up
<1>3. \A t \in Source : hooks[t] = IF t = source /\ t \in Up THEN 1 ELSE 0
  BY DEF IInv, OneFeed, Up
<1>4. \A t \in Source : \A n \in Members(waiting[t]) :
         n <= made /\ old[n] # t /\ t \in Up /\ vit[t] = 0
  BY DEF IInv, WaitersOk, Up
<1> QED
  BY <1>1, <1>2, <1>3, <1>4

\* The conjuncts a step that calls useSource, or only takes a source off the
\* list, has to restore.
MountInv ==
    /\ MountTypes
    /\ OneFeed
    /\ ListsTheConnected
    /\ ActiveLeads
    /\ ActiveKnown
    /\ WaitersOk
    /\ Announcing

\* The disconnect handler keeps the mount's part of the invariant.
LEMMA LeaveEffect ==
    ASSUME IInv, firing = None, firing' = None, NEW s \in Source, life[s] = "up",
           Leave(s), vit' = vit, destroyed' = destroyed
    PROVE  MountInv' /\ life' = [life EXCEPT ![s] = "gone"] /\ Up' = Up \ {s}
<1> USE SourceAssumption
<1> DEFINE list == Without(sources, s)
           h    == [hooks EXCEPT ![s] = 0]
           w    == [waiting EXCEPT ![s] = <<>>]
<1>1. life' = [life EXCEPT ![s] = "gone"] /\ life \in [Source -> {"idle", "up", "gone"}]
  BY DEF Leave, IInv, TypeOK
<1>2. Up' = Up \ {s} /\ s \in Up
  BY <1>1 DEF Up
<1>3. list \in Seq(Source) /\ NoDup(list) /\ Members(list) = Up'
  BY <1>2, Settled, WithoutDrops
<1>4. h \in [Source -> Nat] /\ w \in [Source -> Seq(Call)]
  <2>1. <<>> \in Seq(Call)
    OBVIOUS
  <2> QED
    BY <2>1, Settled
<1>5. \A t \in Source : h[t] = IF t = source /\ t \in Up' THEN 1 ELSE 0
  BY <1>2, Settled
<1>6. \A t \in Source : \A n \in Members(w[t]) :
         n <= made /\ old[n] # t /\ t \in Up' /\ vit[t] = 0
  <2>1. w[s] = <<>> /\ Members(<<>>) = {}
    BY Settled DEF Members
  <2>2. \A t \in Source \ {s} : w[t] = waiting[t]
    BY Settled
  <2> QED
    BY <1>2, <2>1, <2>2, Settled
<1>7. TypeOK /\ Announcing /\ ActiveKnown /\ ActiveLeads
  BY DEF IInv
<1>8. source # None => life'[source] # "idle"
  BY <1>1, <1>7 DEF ActiveKnown, TypeOK
<1> HIDE DEF list, h, w
<1>9. CASE source = s /\ list # <<>> /\ UseSource(Head(list), list, h, w)
  <2>1. Head(list) \in Members(list) /\ Head(list) \in Source
    BY <1>3, <1>9, MembersOfTail
  <2>2. Head(list) # source
    BY <1>2, <1>3, <1>9, <2>1
  <2>3. ~(source \in Up')
    BY <1>2, <1>9
  <2> DEFINE heir == Head(list)
  <2>4. heir \in Source /\ heir # source /\ heir \in Members(list)
        /\ UseSource(heir, list, h, w)
    BY <1>9, <2>1, <2>2
  <2> HIDE DEF heir
  <2>5. source # None /\ source \in Up' => list # <<>> /\ Head(list) = source
    BY <2>3
  <2>6. /\ MountTypes'
        /\ OneFeed' /\ ListsTheConnected' /\ ActiveLeads' /\ ActiveKnown'
        /\ WaitersOk' /\ Announcing'
    BY <1>3, <1>4, <1>5, <1>6, <1>7, <1>8, <2>4, <2>5, UseSourceEffect
  <2> QED
    BY <1>1, <1>2, <2>6 DEF MountInv
<1>10. CASE /\ sources' = list /\ hooks' = h /\ waiting' = w
            /\ UNCHANGED <<mvitals, announced, ticks, callVars>>
            /\ \/ source = s /\ source' = None
               \/ source # s /\ source' = source
  <2>1. MountTypes'
    <3>1. source' \in Source \cup {None}
      BY <1>7, <1>10 DEF TypeOK
    <3>2. /\ mvitals' \in 0 .. MaxVitals /\ announced' \in Source \cup {None}
          /\ ticks' \in Seq(Source) /\ made' \in 0 .. MaxAttempts
          /\ old' \in [Call -> Source \cup {None}] /\ alarms' \in SUBSET Call
          /\ answers' \in [Call -> Seq(Answer)]
      BY <1>7, <1>10 DEF TypeOK, callVars
    <3> QED
      BY <1>3, <1>4, <1>10, <3>1, <3>2 DEF MountTypes
  <2>2. OneFeed'
    BY <1>2, <1>5, <1>10 DEF OneFeed, Up
  <2>3. ListsTheConnected'
    BY <1>3, <1>10 DEF ListsTheConnected, NoDup, Up
  <2>4. ActiveKnown'
    BY <1>7, <1>8, <1>10 DEF ActiveKnown
  <2>5. WaitersOk'
    BY <1>6, <1>10 DEF WaitersOk, Up, callVars
  <2>6. Announcing'
    BY <1>7, <1>10 DEF Announcing
  <2>7. ActiveLeads'
    <3>1. CASE source # s /\ source # None /\ life[source] = "up"
      <4>1. sources # <<>> /\ Head(sources) = source /\ sources \in Seq(Source)
        BY <1>7, <3>1, Settled DEF ActiveLeads
      <4>2. sources[1] = source /\ 1 \in DOMAIN sources
        BY <4>1
      <4>3. list # <<>> /\ Head(list) = source
        BY <1>3, <3>1, <4>1, <4>2, HeadStays DEF list
      <4> QED
        BY <1>10, <3>1, <4>3 DEF ActiveLeads
    <3>2. CASE ~(source # s /\ source # None /\ life[source] = "up")
      BY <1>1, <1>7, <1>10, <3>2 DEF ActiveLeads, TypeOK
    <3> QED
      BY <3>1, <3>2
  <2> QED
    BY <1>1, <1>2, <2>1, <2>2, <2>3, <2>4, <2>5, <2>6, <2>7 DEF MountInv
<1> QED
  BY <1>9, <1>10 DEF Leave, list, h, w

----------------------------------------------------------------------------
(* The invariant *)

\* The invariant holds in the initial state: nothing is added yet.
LEMMA InitInv == Init => IInv
<1> SUFFICES ASSUME Init PROVE IInv
  OBVIOUS
<1> USE SourceAssumption DEF Init
<1>1. <<>> \in Seq(Source) /\ <<>> \in Seq(Call) /\ <<>> \in Seq(Answer) /\ DOMAIN <<>> = {}
  OBVIOUS
<1>2. TypeOK
  <2>1. vit \in [Source -> 0 .. MaxVitals]
    OBVIOUS
  <2>2. life \in [Source -> {"idle", "up", "gone"}] /\ hooks \in [Source -> Nat]
    OBVIOUS
  <2>3. waiting \in [Source -> Seq(Call)] /\ answers \in [Call -> Seq(Answer)]
    BY <1>1
  <2>4. mvitals \in 0 .. MaxVitals /\ made \in 0 .. MaxAttempts
        /\ old \in [Call -> Source \cup {None}]
    OBVIOUS
  <2> QED
    BY <1>1, <2>1, <2>2, <2>3, <2>4 DEF TypeOK
<1>3. OneFeed /\ ActiveLeads /\ ActiveKnown /\ FiringOk /\ Announcing
  BY DEF OneFeed, ActiveLeads, ActiveKnown, FiringOk, Announcing
<1>4. ListsTheConnected /\ ClosingOk /\ WaitersOk
  BY <1>1 DEF ListsTheConnected, ClosingOk, WaitersOk, NoDup, Members, Up
<1> QED
  BY <1>2, <1>3, <1>4 DEF IInv

\* How the invariant's parts go together after a step of the mount.
LEMMA Assemble ==
    ASSUME MountInv', FiringOk', ClosingOk',
           life' \in [Source -> {"idle", "up", "gone"}],
           vit' \in [Source -> 0 .. MaxVitals],
           firing' \in Source \cup {None},
           closing' \in Seq(Source),
           destroyed' \in BOOLEAN
    PROVE  IInv'
BY DEF IInv, MountInv, MountTypes, TypeOK

\* addSource keeps the invariant.
LEMMA AddSourceInv ==
    ASSUME IInv, NEW s \in Source, AddSource(s) PROVE IInv'
<1> USE SourceAssumption
<1> DEFINE list == Append(sources, s)
<1>1. /\ firing = None /\ closing = <<>> /\ firing' = None /\ closing' = <<>>
      /\ destroyed' = destroyed /\ vit' = vit
      /\ life[s] = "idle" /\ life' = [life EXCEPT ![s] = "up"]
  BY DEF AddSource, Idle
<1>2. TypeOK /\ Announcing /\ ActiveKnown /\ ActiveLeads /\ WaitersOk
  BY DEF IInv
<1>3. Up' = Up \cup {s} /\ s \notin Up /\ life' \in [Source -> {"idle", "up", "gone"}]
  BY <1>1, <1>2 DEF Up, TypeOK
<1>4. /\ list \in Seq(Source) /\ NoDup(list) /\ Members(list) = Up' /\ list # <<>>
      /\ Head(list) = IF sources = <<>> THEN s ELSE Head(sources)
  BY <1>1, <1>3, Settled, EndOfList
<1>5. s # source
  BY <1>1, <1>2 DEF ActiveKnown
<1>6. \A t \in Source : hooks[t] = IF t = source /\ t \in Up' THEN 1 ELSE 0
  BY <1>1, <1>3, <1>5, Settled
<1>7. \A t \in Source : \A n \in Members(waiting[t]) :
         n <= made /\ old[n] # t /\ t \in Up' /\ vit[t] = 0
  BY <1>1, <1>3, Settled
<1>8. source # None => life'[source] # "idle"
  BY <1>1, <1>2, <1>5 DEF ActiveKnown, TypeOK
<1>9. source # None /\ source \in Up' => list # <<>> /\ Head(list) = source
  BY <1>2, <1>3, <1>4, <1>5 DEF ActiveLeads, Up
<1> HIDE DEF list
<1>10. MountInv'
  <2>1. CASE UseSource(s, list, hooks, waiting)
    <3>1. hooks \in [Source -> Nat] /\ waiting \in [Source -> Seq(Call)] /\ s \in Members(list)
      BY <1>1, <1>3, <1>4, Settled
    <3>2. /\ MountTypes'
          /\ OneFeed' /\ ListsTheConnected' /\ ActiveLeads' /\ ActiveKnown'
          /\ WaitersOk' /\ Announcing'
      BY <1>1, <1>2, <1>4, <1>5, <1>6, <1>7, <1>8, <1>9, <2>1, <3>1, UseSourceEffect
    <3> QED
      BY <3>2 DEF MountInv
  <2>2. CASE sources' = list /\ UNCHANGED <<waiting, hooks, source, mvitals, announced, ticks, callVars>>
    <3>1. MountTypes'
      BY <1>2, <1>4, <2>2 DEF MountTypes, TypeOK, callVars
    <3>2. OneFeed'
      BY <1>6, <2>2 DEF OneFeed, Up
    <3>3. ListsTheConnected'
      BY <1>4, <2>2 DEF ListsTheConnected, NoDup, Up
    <3>4. ActiveLeads' /\ ActiveKnown'
      BY <1>1, <1>2, <1>4, <1>8, <1>9, <2>2 DEF ActiveLeads, ActiveKnown, Up, TypeOK
    <3>5. WaitersOk'
      BY <1>1, <1>7, <2>2 DEF WaitersOk, Up, callVars
    <3>6. Announcing'
      BY <1>1, <1>2, <2>2 DEF Announcing
    <3> QED
      BY <3>1, <3>2, <3>3, <3>4, <3>5, <3>6 DEF MountInv
  <2> QED
    BY <2>1, <2>2 DEF AddSource, list
<1>11. ClosingOk' /\ FiringOk'
  BY <1>1 DEF ClosingOk, FiringOk, NoDup, Members
<1>12. /\ vit' \in [Source -> 0 .. MaxVitals] /\ firing' \in Source \cup {None}
       /\ closing' \in Seq(Source) /\ destroyed' \in BOOLEAN
  BY <1>1, <1>2 DEF TypeOK
<1> QED
  BY <1>3, <1>10, <1>11, <1>12, Assemble

\* promoteSource keeps the invariant.
LEMMA PromoteSourceInv ==
    ASSUME IInv, NEW s \in Source, PromoteSource(s) PROVE IInv'
<1> USE SourceAssumption
<1>1. /\ firing = None /\ closing = <<>> /\ firing' = None /\ closing' = <<>>
      /\ destroyed' = destroyed /\ vit' = vit /\ life' = life /\ Up' = Up
      /\ s \in Members(sources) /\ s # Head(sources)
      /\ UseSource(s, sources, hooks, waiting)
  BY DEF PromoteSource, Idle, Up
<1>2. TypeOK /\ Announcing /\ ActiveKnown /\ ActiveLeads
  BY DEF IInv
<1>3. s \in Up /\ s # source
  BY <1>1, <1>2, Settled DEF ActiveLeads, Up
<1>4. source # None /\ source \in Up' => sources # <<>> /\ Head(sources) = source
  BY <1>1, <1>2 DEF ActiveLeads, Up
<1>5. source # None => life'[source] # "idle"
  BY <1>1, <1>2 DEF ActiveKnown
<1>6. /\ sources \in Seq(Source) /\ NoDup(sources) /\ Members(sources) = Up'
      /\ hooks \in [Source -> Nat] /\ waiting \in [Source -> Seq(Call)]
      /\ \A t \in Source : hooks[t] = IF t = source /\ t \in Up' THEN 1 ELSE 0
      /\ \A t \in Source : \A n \in Members(waiting[t]) :
            n <= made /\ old[n] # t /\ t \in Up' /\ vit[t] = 0
      /\ source # None /\ source \in Up' => sources # <<>> /\ Head(sources) = source
  BY <1>1, <1>4, Settled
<1>7. MountInv'
  <2>1. /\ MountTypes'
        /\ OneFeed' /\ ListsTheConnected' /\ ActiveLeads' /\ ActiveKnown'
        /\ WaitersOk' /\ Announcing'
    BY <1>1, <1>2, <1>3, <1>5, <1>6, UseSourceEffect
  <2> QED
    BY <2>1 DEF MountInv
<1>8. ClosingOk' /\ FiringOk'
  BY <1>1 DEF ClosingOk, FiringOk, NoDup, Members
<1>9. /\ life' \in [Source -> {"idle", "up", "gone"}]
      /\ vit' \in [Source -> 0 .. MaxVitals] /\ firing' \in Source \cup {None}
      /\ closing' \in Seq(Source) /\ destroyed' \in BOOLEAN
  BY <1>1, <1>2 DEF TypeOK
<1> QED
  BY <1>7, <1>8, <1>9, Assemble

\* A disconnect keeps the invariant.
LEMMA DisconnectInv ==
    ASSUME IInv, NEW s \in Source, Disconnect(s) PROVE IInv'
<1> USE SourceAssumption
<1>1. /\ firing = None /\ closing = <<>> /\ firing' = None /\ closing' = <<>>
      /\ destroyed' = destroyed /\ vit' = vit /\ life[s] = "up" /\ Leave(s)
  BY DEF Disconnect, Idle
<1>2. MountInv' /\ life' = [life EXCEPT ![s] = "gone"]
  BY <1>1, LeaveEffect
<1>3. ClosingOk' /\ FiringOk'
  BY <1>1 DEF ClosingOk, FiringOk, NoDup, Members
<1>4. /\ life' \in [Source -> {"idle", "up", "gone"}]
      /\ vit' \in [Source -> 0 .. MaxVitals] /\ firing' \in Source \cup {None}
      /\ closing' \in Seq(Source) /\ destroyed' \in BOOLEAN
  BY <1>1, <1>2 DEF IInv, TypeOK
<1> QED
  BY <1>2, <1>3, <1>4, Assemble

\* destroy's loop keeps the invariant.
LEMMA CloseNextInv ==
    ASSUME IInv, CloseNext PROVE IInv'
<1> USE SourceAssumption
<1> DEFINE s == Head(closing)
<1>1. closing # <<>> /\ closing' = Tail(closing) /\ closing \in Seq(Source)
      /\ NoDup(closing) /\ Members(closing) \subseteq Up
  BY DEF CloseNext, IInv, TypeOK, ClosingOk
<1>2. /\ s \in Members(closing) /\ closing' \in Seq(Source) /\ NoDup(closing')
      /\ Members(closing') = Members(closing) \ {s}
  BY <1>1, MembersOfTail
<1>3. s \in Source /\ life[s] = "up"
  BY <1>1, <1>2 DEF Up
<1>4. firing = None /\ firing' = None /\ vit' = vit /\ destroyed' = destroyed
  BY <1>1 DEF CloseNext, IInv, FiringOk
<1> HIDE DEF s
<1>5. CASE s \in Proxy /\ UNCHANGED <<life, waiting, hooks, mountVars, callVars>>
  <2>1. TypeOK' /\ OneFeed' /\ ListsTheConnected' /\ ActiveLeads' /\ ActiveKnown'
    BY <1>2, <1>4, <1>5 DEF IInv, TypeOK, OneFeed, ListsTheConnected, ActiveLeads,
                            ActiveKnown, mountVars, callVars
  <2>2. WaitersOk' /\ FiringOk' /\ Announcing'
    BY <1>4, <1>5 DEF IInv, WaitersOk, FiringOk, Announcing, mountVars, callVars
  <2>3. ClosingOk'
    BY <1>1, <1>2, <1>5 DEF ClosingOk, NoDup, Up
  <2> QED
    BY <2>1, <2>2, <2>3 DEF IInv
<1>6. CASE s \notin Proxy /\ Leave(s)
  <2>1. MountInv' /\ life' = [life EXCEPT ![s] = "gone"] /\ Up' = Up \ {s}
    BY <1>3, <1>4, <1>6, LeaveEffect
  <2>2. ClosingOk'
    BY <1>1, <1>2, <2>1 DEF ClosingOk, NoDup
  <2>3. FiringOk'
    BY <1>4 DEF FiringOk
  <2>4. /\ life' \in [Source -> {"idle", "up", "gone"}]
        /\ vit' \in [Source -> 0 .. MaxVitals] /\ firing' \in Source \cup {None}
        /\ closing' \in Seq(Source) /\ destroyed' \in BOOLEAN
    BY <1>2, <1>4, <2>1 DEF IInv, TypeOK
  <2> QED
    BY <2>1, <2>2, <2>3, <2>4, Assemble
<1> QED
  BY <1>5, <1>6 DEF CloseNext, s

\* The vitals callback of a waiting call keeps the invariant.
LEMMA FireVitalsInv ==
    ASSUME IInv, FireVitals PROVE IInv'
<1> USE SourceAssumption
<1> DEFINE n == Head(waiting[firing])
<1>1. /\ firing \in Source /\ waiting[firing] # <<>> /\ waiting[firing] \in Seq(Call)
      /\ vit[firing] # 0 /\ closing = <<>>
  BY DEF FireVitals, IInv, FiringOk, TypeOK
<1>2. /\ n \in Members(waiting[firing]) /\ n \in Call
      /\ Tail(waiting[firing]) \in Seq(Call)
      /\ Members(Tail(waiting[firing])) \subseteq Members(waiting[firing])
      /\ Len(waiting[firing]) # 1 => Tail(waiting[firing]) # <<>>
      /\ Len(waiting[firing]) = 1 => Tail(waiting[firing]) = <<>>
  <2> DEFINE q == waiting[firing]
  <2>1. q \in Seq(Call) /\ q # <<>>
    BY <1>1
  <2> HIDE DEF q
  <2>2. /\ Head(q) \in Members(q) /\ Tail(q) \in Seq(Call)
        /\ Members(Tail(q)) \subseteq Members(q)
        /\ Len(q) # 1 => Tail(q) # <<>>
    BY <2>1, MembersOfTail
  <2>3. Head(q) \in Call /\ (Len(q) = 1 => Tail(q) = <<>>)
    <3>1. Head(q) \in Call /\ Len(Tail(q)) = Len(q) - 1
      BY <2>1, HeadTailProperties
    <3>2. Len(q) = 1 => Len(Tail(q)) = 0
      BY <3>1
    <3> QED
      BY <2>2, <3>1, <3>2, EmptySeq
  <2> QED
    BY <2>2, <2>3 DEF q
<1>3. n <= made /\ old[n] # firing /\ life[firing] = "up" /\ old[n] \in Source \cup {None}
  BY <1>1, <1>2 DEF IInv, WaitersOk, TypeOK
<1>4. UNCHANGED <<life, vit, made, old, closing, destroyed>> /\ Up' = Up
  BY DEF FireVitals, Up
<1>5. /\ waiting' = [waiting EXCEPT ![firing] = Tail(@)]
      /\ firing' = IF Len(waiting[firing]) = 1 THEN None ELSE firing
  BY DEF FireVitals
<1>6. waiting' \in [Source -> Seq(Call)] /\ firing' \in Source \cup {None}
  BY <1>1, <1>2, <1>5 DEF IInv, TypeOK
<1>7. WaitersOk'
  <2>1. SUFFICES ASSUME NEW t \in Source, NEW m \in Members(waiting'[t])
                 PROVE  m <= made /\ old[m] # t /\ life[t] = "up" /\ (vit[t] = 0 \/ firing' = t)
    BY <1>4 DEF WaitersOk
  <2>2. waiting \in [Source -> Seq(Call)]
    BY DEF IInv, TypeOK
  <2>3. CASE t = firing
    <3>1. m \in Members(Tail(waiting[firing]))
      BY <1>1, <1>5, <2>1, <2>2, <2>3
    <3>2. Len(waiting[firing]) # 1
      BY <1>2, <3>1 DEF Members
    <3>3. m <= made /\ old[m] # t /\ life[t] = "up"
      BY <1>1, <1>2, <2>3, <3>1 DEF IInv, WaitersOk
    <3> QED
      BY <1>5, <2>3, <3>2, <3>3
  <2>4. CASE t # firing
    <3>1. m \in Members(waiting[t])
      BY <1>1, <1>5, <2>1, <2>2, <2>4
    <3> QED
      BY <2>4, <3>1 DEF IInv, WaitersOk
  <2> QED
    BY <2>3, <2>4
<1>8. FiringOk'
  BY <1>1, <1>2, <1>4, <1>5, <1>6 DEF FiringOk, IInv, TypeOK
<1>9. ClosingOk'
  BY <1>4 DEF IInv, ClosingOk, NoDup, Members
<1>10. answers' \in [Call -> Seq(Answer)] /\ alarms' \in SUBSET Call
  <2>1. answers[n] \in Seq(Answer) /\ "ok" \in Answer /\ "changed" \in Answer
    BY <1>2 DEF IInv, TypeOK, Answer
  <2>2. Append(answers[n], "ok") \in Seq(Answer) /\ Append(answers[n], "changed") \in Seq(Answer)
    BY <2>1, AppendProperties
  <2>3. answers \in [Call -> Seq(Answer)] /\ alarms \in SUBSET Call
    BY DEF IInv, TypeOK
  <2>4. \/ /\ answers' = [answers EXCEPT ![n] = Append(@, "changed")]
           /\ alarms' = alarms
        \/ /\ answers' = [answers EXCEPT ![n] = Append(@, "ok")]
           /\ alarms' = alarms \ {n}
    BY DEF FireVitals
  <2> HIDE DEF n
  <2> QED
    BY <1>2, <2>2, <2>3, <2>4
<1>11. /\ vit' \in [Source -> 0 .. MaxVitals] /\ life' \in [Source -> {"idle", "up", "gone"}]
       /\ made' \in 0 .. MaxAttempts /\ old' \in [Call -> Source \cup {None}]
       /\ closing' \in Seq(Source) /\ destroyed' \in BOOLEAN
  BY <1>4 DEF IInv, TypeOK
<1> HIDE DEF n
<1>12. CASE UNCHANGED <<hooks, mountVars, alarms>>
  <2>1. MountTypes'
    BY <1>6, <1>10, <1>11, <1>12 DEF IInv, TypeOK, MountTypes, mountVars
  <2>2. OneFeed' /\ ListsTheConnected' /\ ActiveLeads' /\ ActiveKnown' /\ Announcing'
    BY <1>4, <1>12 DEF IInv, OneFeed, ListsTheConnected, ActiveLeads, ActiveKnown,
                       Announcing, mountVars
  <2>3. MountInv'
    BY <1>7, <2>1, <2>2 DEF MountInv
  <2> QED
    BY <1>6, <1>8, <1>9, <1>11, <2>3, Assemble
<1>13. CASE ~(source # None /\ old[n] # source) /\ SwitchTo(firing, old[n], sources, hooks)
  <2>1. source # None => old[n] = source
    BY <1>13
  <2>2. firing # source
    BY <1>1, <1>3, <2>1
  <2>3. /\ sources \in Seq(Source) /\ hooks \in [Source -> Nat] /\ NoDup(sources)
        /\ Members(sources) = Up' /\ firing \in Members(sources)
        /\ \A t \in Source : hooks[t] = IF t = source /\ t \in Up' THEN 1 ELSE 0
    BY <1>1, <1>3, <1>4 DEF IInv, TypeOK, ListsTheConnected, OneFeed, NoDup, Up
  <2>4. TypeOK /\ SwitchTo(firing, old[n], sources, hooks) /\ vit' = vit
    BY <1>4, <1>13 DEF IInv
  <2>5. /\ hooks' \in [Source -> Nat]
        /\ sources' \in Seq(Source)
        /\ source' \in Source \cup {None}
        /\ mvitals' \in 0 .. MaxVitals
        /\ announced' \in Source \cup {None}
        /\ ticks' \in Seq(Source)
        /\ OneFeed' /\ ListsTheConnected' /\ ActiveLeads' /\ ActiveKnown' /\ Announcing'
    BY <1>1, <1>3, <2>1, <2>2, <2>3, <2>4, SwitchEffect
  <2>6. MountInv'
    BY <1>6, <1>7, <1>10, <1>11, <2>5 DEF MountInv, MountTypes
  <2> QED
    BY <1>6, <1>8, <1>9, <1>11, <2>6, Assemble
<1> QED
  BY <1>12, <1>13 DEF FireVitals, n

\* The announcement of a switch keeps the invariant.
LEMMA TickInv ==
    ASSUME IInv, Tick PROVE IInv'
<1> USE SourceAssumption
<1>1. /\ ticks # <<>> /\ ticks \in Seq(Source) /\ ticks' = Tail(ticks)
      /\ announced' = IF destroyed THEN announced ELSE Head(ticks)
      /\ mvitals' = vit[Head(ticks)]
      /\ UNCHANGED <<life, vit, waiting, hooks, sources, source, callVars, firing, closing, destroyed>>
  BY DEF Tick, IInv, TypeOK
<1>2. /\ Tail(ticks) \in Seq(Source) /\ Head(ticks) \in Source
      /\ Len(ticks) # 1 => Tail(ticks)[Len(Tail(ticks))] = ticks[Len(ticks)]
      /\ Len(ticks) = 1 => Tail(ticks) = <<>> /\ Head(ticks) = ticks[Len(ticks)]
      /\ Len(ticks) # 1 => Tail(ticks) # <<>>
  BY <1>1, HeadTailProperties, MembersOfTail
<1>3. TypeOK'
  BY <1>1, <1>2 DEF IInv, TypeOK, callVars
<1>4. OneFeed' /\ ListsTheConnected' /\ ActiveLeads' /\ ActiveKnown'
  BY <1>1 DEF IInv, OneFeed, ListsTheConnected, ActiveLeads, ActiveKnown
<1>5. WaitersOk' /\ FiringOk' /\ ClosingOk'
  BY <1>1 DEF IInv, WaitersOk, FiringOk, ClosingOk, Up, NoDup, Members, callVars
<1>6. Announcing'
  BY <1>1, <1>2 DEF IInv, Announcing
<1> QED
  BY <1>3, <1>4, <1>5, <1>6 DEF IInv

\* A header of a source keeps the invariant: the mount hears it exactly when
\* it comes from the active source.
LEMMA EmitVitalsInv ==
    ASSUME IInv, NEW s \in Source, EmitVitals(s) PROVE IInv'
<1> USE SourceAssumption
<1>1. /\ firing = None /\ closing = <<>> /\ ticks = <<>>
      /\ life[s] = "up" /\ vit[s] < MaxVitals
      /\ vit' = [vit EXCEPT ![s] = @ + 1]
      /\ mvitals' = IF hooks[s] > 0 THEN vit[s] + 1 ELSE mvitals
      /\ firing' = IF waiting[s] = <<>> THEN None ELSE s
      /\ UNCHANGED <<life, waiting, hooks, sources, source, announced, ticks,
                     callVars, closing, destroyed>>
  BY DEF EmitVitals, Idle
<1>2. vit \in [Source -> 0 .. MaxVitals] /\ vit' \in [Source -> 0 .. MaxVitals] /\ vit'[s] # 0
  BY <1>1 DEF IInv, TypeOK
<1>3. TypeOK'
  BY <1>1, <1>2 DEF IInv, TypeOK, callVars
<1>4. OneFeed' /\ ListsTheConnected' /\ ActiveLeads'
  BY <1>1 DEF IInv, OneFeed, ListsTheConnected, ActiveLeads
<1>5. ActiveKnown'
  BY <1>1, <1>2 DEF IInv, ActiveKnown, TypeOK
<1>6. FiringOk' /\ ClosingOk'
  BY <1>1, <1>2 DEF IInv, FiringOk, ClosingOk, Up, NoDup, Members
<1>7. WaitersOk'
  <2>1. SUFFICES ASSUME NEW t \in Source, NEW m \in Members(waiting[t])
                 PROVE  m <= made /\ old[m] # t /\ life[t] = "up" /\ (vit'[t] = 0 \/ firing' = t)
    BY <1>1 DEF WaitersOk, callVars
  <2>2. m <= made /\ old[m] # t /\ life[t] = "up" /\ vit[t] = 0
    BY <1>1, <2>1 DEF IInv, WaitersOk
  <2>3. t = s => waiting[s] # <<>>
    BY <2>1 DEF Members
  <2> QED
    BY <1>1, <1>2, <2>2, <2>3
<1>8. Announcing'
  <2>1. source = s <=> hooks[s] > 0
    BY <1>1 DEF IInv, OneFeed
  <2> QED
    BY <1>1, <1>2, <2>1 DEF IInv, Announcing, TypeOK
<1> QED
  BY <1>3, <1>4, <1>5, <1>6, <1>7, <1>8 DEF IInv

\* The invariant is inductive.
LEMMA NextInv == IInv /\ [Next]_vars => IInv'
<1> SUFFICES ASSUME IInv, [Next]_vars PROVE IInv'
  OBVIOUS
<1> USE SourceAssumption
<1>1. ASSUME NEW s \in Source, AddSource(s) PROVE IInv'
  BY <1>1, AddSourceInv
<1>2. ASSUME NEW s \in Source, EmitVitals(s) PROVE IInv'
  BY <1>2, EmitVitalsInv
<1>3. ASSUME NEW s \in Source, Disconnect(s) PROVE IInv'
  BY <1>3, DisconnectInv
<1>4. ASSUME NEW s \in Source, PromoteSource(s) PROVE IInv'
  BY <1>4, PromoteSourceInv
<1>5. CASE FireVitals
  BY <1>5, FireVitalsInv
<1>6. CASE Tick
  BY <1>6, TickInv
<1>7. ASSUME NEW n \in Call, Alarm(n) PROVE IInv'
  <2>1. /\ alarms' = alarms \ {n} /\ answers' = [answers EXCEPT ![n] = Append(@, "failed")]
        /\ UNCHANGED <<life, vit, waiting, hooks, mountVars, made, old, firing, closing, destroyed>>
    BY <1>7 DEF Alarm
  <2>2. answers' \in [Call -> Seq(Answer)]
    <3>1. answers[n] \in Seq(Answer) /\ "failed" \in Answer
      BY DEF IInv, TypeOK, Answer
    <3>2. Append(answers[n], "failed") \in Seq(Answer)
      BY <3>1, AppendProperties
    <3> QED
      BY <2>1, <3>2 DEF IInv, TypeOK
  <2>3. TypeOK'
    BY <2>1, <2>2 DEF IInv, TypeOK, mountVars
  <2>4. OneFeed' /\ ListsTheConnected' /\ ActiveLeads' /\ ActiveKnown' /\ Announcing'
    BY <2>1 DEF IInv, OneFeed, ListsTheConnected, ActiveLeads, ActiveKnown, Announcing, mountVars
  <2>5. WaitersOk' /\ FiringOk' /\ ClosingOk'
    BY <2>1 DEF IInv, WaitersOk, FiringOk, ClosingOk, Up, NoDup, Members
  <2> QED
    BY <2>3, <2>4, <2>5 DEF IInv
<1>8. CASE Destroy
  <2>1. /\ firing = None /\ destroyed' = TRUE /\ closing' = sources
        /\ UNCHANGED <<life, vit, waiting, hooks, mountVars, callVars, firing>>
    BY <1>8 DEF Destroy, Idle
  <2>2. TypeOK'
    BY <2>1 DEF IInv, TypeOK, mountVars, callVars
  <2>3. OneFeed' /\ ListsTheConnected' /\ ActiveLeads' /\ ActiveKnown' /\ Announcing'
    BY <2>1 DEF IInv, OneFeed, ListsTheConnected, ActiveLeads, ActiveKnown, Announcing, mountVars
  <2>4. WaitersOk' /\ FiringOk'
    BY <2>1 DEF IInv, WaitersOk, FiringOk, callVars
  <2>5. ClosingOk'
    BY <2>1, Settled DEF ClosingOk, Up
  <2> QED
    BY <2>2, <2>3, <2>4, <2>5 DEF IInv
<1>9. CASE CloseNext
  BY <1>9, CloseNextInv
<1>10. CASE UNCHANGED vars
  <2>1. TypeOK' /\ OneFeed' /\ ListsTheConnected' /\ ActiveLeads' /\ ActiveKnown'
    BY <1>10 DEF IInv, TypeOK, OneFeed, ListsTheConnected, ActiveLeads, ActiveKnown,
                 vars, mountVars, callVars
  <2>2. WaitersOk' /\ FiringOk' /\ ClosingOk' /\ Announcing'
    BY <1>10 DEF IInv, WaitersOk, FiringOk, ClosingOk, Announcing, Up, NoDup, Members,
                 vars, mountVars, callVars
  <2> QED
    BY <2>1, <2>2 DEF IInv
<1> QED
  BY <1>1, <1>2, <1>3, <1>4, <1>5, <1>6, <1>7, <1>8, <1>9, <1>10 DEF Next

----------------------------------------------------------------------------
(* The theorems *)

\* IInv is an invariant of the mount.
THEOREM Invariance == Spec => []IInv
<1>1. Init => IInv
  BY InitInv
<1>2. IInv /\ [Next]_vars => IInv'
  BY NextInv
<1> QED
  BY <1>1, <1>2, PTL DEF Spec

\* Type correctness.
THEOREM TypeCorrect == Spec => []TypeOK
<1>1. IInv => TypeOK
  BY DEF IInv
<1> QED
  BY <1>1, Invariance, PTL

\* However adds, promotions, late headers and disconnects overlap, exactly the
\* connected active source is hooked, and once.
THEOREM OnlyTheActiveSourceFeeds == Spec => []OneFeed
<1>1. IInv => OneFeed
  BY DEF IInv
<1> QED
  BY <1>1, Invariance, PTL

\* The list holds each connected source once, and the active one leads it.
THEOREM ListInStep == Spec => []ListInOrder
<1>1. IInv => ListInOrder
  BY DEF IInv, ListInOrder
<1> QED
  BY <1>1, Invariance, PTL

\* Between callbacks the mount's last announcement and its cached vitals are
\* the active source's.
THEOREM AnnouncementsAreTrue == Spec => []ToldTheTruth
<1>1. IInv => ToldTheTruth
  BY DEF IInv, Announcing, ToldTheTruth, Idle
<1> QED
  BY <1>1, Invariance, PTL

----------------------------------------------------------------------------
(* Refinement of ActiveFeed *)

\* useSource leaves the active source or makes the new one active.
LEMMA UseSourceActive ==
    ASSUME NEW s \in Source, NEW list, NEW h, NEW w, UseSource(s, list, h, w)
    PROVE  source' \in {source, s}
BY DEF UseSource, SwitchTo

\* A disconnect is a Leave of the abstract feed.
LEMMA LeaveImplements ==
    ASSUME IInv, firing = None, firing' = None, NEW s \in Source, life[s] = "up",
           Leave(s), vit' = vit, destroyed' = destroyed
    PROVE  Feed!Leave(s)
<1> USE SourceAssumption
<1>1. Up' = Up \ {s} /\ s \in Up
  BY LeaveEffect DEF Up
<1>2. source' \in CASE source # s -> {source}
                    [] source = s /\ Up = {s} -> {None}
                    [] OTHER -> {s} \cup Up'
  <2> DEFINE list == Without(sources, s)
             h    == [hooks EXCEPT ![s] = 0]
             w    == [waiting EXCEPT ![s] = <<>>]
  <2>1. list \in Seq(Source) /\ Members(list) = Up'
    BY <1>1, Settled, WithoutDrops
  <2>2. list = <<>> <=> Up' = {}
    BY <2>1 DEF Members
  <2> HIDE DEF list, h, w
  <2>3. CASE source = s /\ list # <<>> /\ UseSource(Head(list), list, h, w)
    <3>1. Head(list) \in Up' /\ Head(list) \in Source
      BY <2>1, <2>3, MembersOfTail
    <3>2. source' \in {source, Head(list)}
      BY <2>3, <3>1, UseSourceActive
    <3> QED
      BY <1>1, <2>2, <2>3, <3>1, <3>2
  <2>4. CASE source = s /\ list = <<>> /\ source' = None
    BY <1>1, <2>2, <2>4
  <2>5. CASE source # s /\ source' = source
    BY <2>5
  <2> QED
    BY <2>3, <2>4, <2>5 DEF Leave, list, h, w
<1> QED
  BY <1>1, <1>2 DEF Feed!Leave, Up

\* Every step of the mount is a step of the abstract feed or leaves it alone.
LEMMA StepImplements ==
    IInv /\ [Next]_vars => [Feed!FeedNext]_(Feed!feed)
<1> SUFFICES ASSUME IInv, [Next]_vars
             PROVE  Feed!FeedNext \/ (Up' = Up /\ source' = source)
  BY DEF Feed!feed, Up
<1> USE SourceAssumption
<1>1. ASSUME NEW s \in Source, AddSource(s) PROVE Feed!Join(s)
  <2>1. life[s] = "idle" /\ life' = [life EXCEPT ![s] = "up"]
    BY <1>1 DEF AddSource
  <2>2. s \notin Up /\ Up' = Up \cup {s}
    BY <2>1 DEF Up, IInv, TypeOK
  <2>3. source' \in {source, s}
    BY <1>1, UseSourceActive DEF AddSource
  <2> QED
    BY <2>2, <2>3 DEF Feed!Join, Up
<1>2. ASSUME NEW s \in Source, EmitVitals(s) PROVE Up' = Up /\ source' = source
  BY <1>2 DEF EmitVitals, Up
<1>3. ASSUME NEW s \in Source, Disconnect(s) PROVE Feed!Leave(s)
  BY <1>3, LeaveImplements DEF Disconnect, Idle
<1>4. ASSUME NEW s \in Source, PromoteSource(s)
      PROVE  Feed!Activate(s) \/ (Up' = Up /\ source' = source)
  <2>1. s \in Up /\ Up' = Up
    BY <1>4, Settled DEF PromoteSource, Idle, Up
  <2>2. source' \in {source, s}
    BY <1>4, UseSourceActive DEF PromoteSource
  <2> QED
    BY <2>1, <2>2 DEF Feed!Activate, Up
<1>5. CASE FireVitals
  <2>1. firing \in Up /\ firing \in Source /\ Up' = Up
    <3>1. firing \in Source /\ waiting[firing] # <<>> /\ waiting[firing] \in Seq(Call)
      BY <1>5 DEF FireVitals, IInv, TypeOK, FiringOk
    <3>2. Head(waiting[firing]) \in Members(waiting[firing])
      BY <3>1, MembersOfTail
    <3>3. life[firing] = "up"
      BY <3>1, <3>2 DEF IInv, WaitersOk
    <3> QED
      BY <1>5, <3>1, <3>3 DEF FireVitals, Up
  <2>2. source' \in {source, firing}
    BY <1>5 DEF FireVitals, SwitchTo, mountVars
  <2>3. Feed!Activate(firing) \/ (Up' = Up /\ source' = source)
    BY <2>1, <2>2 DEF Feed!Activate, Up
  <2> QED
    BY <2>1, <2>3 DEF Feed!FeedNext
<1>6. CASE Tick
  BY <1>6 DEF Tick, Up
<1>7. ASSUME NEW n \in Call, Alarm(n) PROVE Up' = Up /\ source' = source
  BY <1>7 DEF Alarm, Up, mountVars
<1>8. CASE Destroy
  BY <1>8 DEF Destroy, Up, mountVars
<1>9. CASE CloseNext
  <2>1. PICK s \in Source : s = Head(closing) /\ s \in Up
    <3>1. closing # <<>> /\ closing \in Seq(Source) /\ Members(closing) \subseteq Up
      BY <1>9 DEF CloseNext, IInv, TypeOK, ClosingOk
    <3> QED
      BY <3>1, MembersOfTail DEF Up
  <2>2. firing = None /\ firing' = None /\ vit' = vit /\ destroyed' = destroyed
    BY <1>9 DEF CloseNext, IInv, FiringOk
  <2>3. CASE s \in Proxy
    BY <1>9, <2>1, <2>3 DEF CloseNext, mountVars, Up
  <2>4. CASE s \notin Proxy
    <3>1. Leave(Head(closing))
      BY <1>9, <2>1, <2>4 DEF CloseNext
    <3>2. Leave(s) /\ life[s] = "up"
      BY <2>1, <3>1 DEF Up
    <3>3. Feed!Leave(s)
      BY <2>2, <3>2, LeaveImplements
    <3> QED
      BY <3>3 DEF Feed!FeedNext
  <2> QED
    BY <2>3, <2>4
<1>10. CASE UNCHANGED vars
  BY <1>10 DEF vars, mountVars, Up
<1> QED
  BY <1>1, <1>2, <1>3, <1>4, <1>5, <1>6, <1>7, <1>8, <1>9, <1>10 DEF Next, Feed!FeedNext

\* The mount implements ActiveFeed: it changes only to a connected source, and
\* is without one only when none is connected or no header has come yet.
THEOREM ImplementsActiveFeed == Spec => FeedSpec
<1>1. Init => Feed!FeedInit
  BY SourceAssumption DEF Init, Feed!FeedInit
<1> QED
  BY <1>1, Invariance, StepImplements, PTL DEF Spec, FeedSpec, Feed!FeedSpec

-----------------------------------------------------------------------------
(* What becomes of a mount's audio: HLSSegmenter *)

LEMMA LeastIs ==
    ASSUME NEW S \in SUBSET Nat, S # {}
    PROVE  \E n \in S : \A m \in S : n <= m
<1> DEFINE R == OpToRel(<, Nat)
<1>1. IsWellFoundedOn(R, Nat)
  BY NatLessThanWellFounded
<1>2. PICK n \in S : \A m \in S : ~(<<m, n>> \in R)
  <2> HIDE DEF R
  <2> QED
    BY <1>1, WFMin, Zenon
<1>3. ASSUME NEW m \in S, m < n PROVE FALSE
  <2>1. <<m, n>> \in R
    BY <1>3 DEF OpToRel
  <2> QED
    BY <1>2, <2>1
<1>4. \A m \in S : m \in Nat /\ n \in Nat
  OBVIOUS
<1> QED
  BY <1>3, <1>4

LEMMA OneAppended ==
    ASSUME NEW q, Timeline(q), NEW s, s.pts \in Int, s.dur \in Nat,
           q # <<>> => GoesOn(q[Len(q)], s.pts)
    PROVE  /\ Timeline(Append(q, s)) /\ Append(q, s) # <<>>
           /\ Append(q, s)[Len(Append(q, s))] = s
<1> DEFINE r == Append(q, s)
<1>1. PICK V : q \in Seq(V)
  BY DEF Timeline
<1>2. q \in Seq(V \cup {s}) /\ s \in V \cup {s}
  BY <1>1
<1>3. /\ r \in Seq(V \cup {s}) /\ Len(r) = Len(q) + 1 /\ Len(q) \in Nat /\ r # <<>>
      /\ r[Len(r)] = s /\ \A i \in 1 .. Len(q) : r[i] = q[i]
      /\ q # <<>> <=> Len(q) > 0
  <2> DEFINE W == V \cup {s}
  <2>1. q \in Seq(W) /\ s \in W
    BY <1>2
  <2> HIDE DEF W
  <2>2. r \in Seq(W) /\ Len(r) = Len(q) + 1 /\ Len(q) \in Nat
    BY <2>1
  <2>3. r[Len(r)] = s /\ \A i \in 1 .. Len(q) : r[i] = q[i]
    BY <2>1
  <2>4. r # <<>>
    <3> HIDE DEF r
    <3> QED
      BY <2>1, <2>2
  <2>5. q # <<>> <=> Len(q) > 0
    BY <2>1
  <2> QED
    BY <2>2, <2>3, <2>4, <2>5 DEF W
<1> HIDE DEF r
<1>4. \A i \in 1 .. Len(r) : r[i].pts \in Int /\ r[i].dur \in Nat
  <2> SUFFICES ASSUME NEW i \in 1 .. Len(r) PROVE r[i].pts \in Int /\ r[i].dur \in Nat
    OBVIOUS
  <2>1. i \in 1 .. Len(q) \/ i = Len(r)
    BY <1>3
  <2> QED
    BY <2>1, <1>3 DEF Timeline
<1>5. \A i \in 1 .. Len(r) - 1 : GoesOn(r[i], r[i + 1].pts)
  <2> SUFFICES ASSUME NEW i \in 1 .. Len(r) - 1 PROVE GoesOn(r[i], r[i + 1].pts)
    OBVIOUS
  <2>1. i \in 1 .. Len(q) /\ r[i] = q[i]
    BY <1>3
  <2>2. CASE i = Len(q)
    BY <1>3, <2>1, <2>2
  <2>3. CASE i # Len(q)
    <3>1. i \in 1 .. Len(q) - 1 /\ i + 1 \in 1 .. Len(q)
      BY <1>3, <2>1, <2>3
    <3> QED
      BY <1>3, <2>1, <3>1 DEF Timeline
  <2> QED
    BY <2>2, <2>3
<1> QED
  BY <1>3, <1>4, <1>5 DEF Timeline, r

LEMMA OnePrepended ==
    ASSUME NEW q, Timeline(q), q # <<>>, NEW s, s.pts \in Int, s.dur \in Nat,
           GoesOn(s, q[1].pts)
    PROVE  /\ Timeline(<<s>> \o q) /\ <<s>> \o q # <<>>
           /\ (<<s>> \o q)[Len(<<s>> \o q)] = q[Len(q)]
<1> DEFINE r == <<s>> \o q
<1>1. PICK V : q \in Seq(V)
  BY DEF Timeline
<1>2. q \in Seq(V \cup {s}) /\ <<s>> \in Seq(V \cup {s})
  BY <1>1
<1>3. /\ r \in Seq(V \cup {s}) /\ Len(r) = Len(q) + 1 /\ Len(q) \in Nat /\ r # <<>>
      /\ r[1] = s /\ \A i \in 2 .. Len(r) : r[i] = q[i - 1]
      /\ Len(q) > 0
  BY <1>2
<1> HIDE DEF r
<1>4. \A i \in 1 .. Len(r) : r[i].pts \in Int /\ r[i].dur \in Nat
  <2> SUFFICES ASSUME NEW i \in 1 .. Len(r) PROVE r[i].pts \in Int /\ r[i].dur \in Nat
    OBVIOUS
  <2>1. i = 1 \/ (i \in 2 .. Len(r) /\ i - 1 \in 1 .. Len(q))
    BY <1>3
  <2> QED
    BY <2>1, <1>3 DEF Timeline
<1>5. \A i \in 1 .. Len(r) - 1 : GoesOn(r[i], r[i + 1].pts)
  <2> SUFFICES ASSUME NEW i \in 1 .. Len(r) - 1 PROVE GoesOn(r[i], r[i + 1].pts)
    OBVIOUS
  <2>1. i + 1 \in 2 .. Len(r) /\ (i + 1) - 1 = i /\ r[i + 1] = q[i]
    BY <1>3
  <2>2. CASE i = 1
    BY <1>3, <2>1, <2>2
  <2>3. CASE i # 1
    <3>1. i \in 2 .. Len(r) /\ i - 1 \in 1 .. Len(q) - 1 /\ (i - 1) + 1 = i /\ r[i] = q[i - 1]
      BY <1>3, <2>3
    <3>2. GoesOn(q[i - 1], q[(i - 1) + 1].pts)
      BY <3>1 DEF Timeline
    <3> QED
      BY <2>1, <3>1, <3>2
  <2> QED
    BY <2>2, <2>3
<1>6. r[Len(r)] = q[Len(q)]
  BY <1>3
<1> QED
  BY <1>3, <1>4, <1>5, <1>6 DEF Timeline, r

LEMMA SomeExpired ==
    ASSUME NEW q, Timeline(q), NEW n \in Nat
    PROVE  LET r == SubSeq(q, n + 1, Len(q)) IN
             Timeline(r) /\ (r # <<>> => q # <<>> /\ r[Len(r)] = q[Len(q)])
<1> DEFINE r == SubSeq(q, n + 1, Len(q))
<1>1. PICK V : q \in Seq(V)
  BY DEF Timeline
<1>2. /\ r \in Seq(V) /\ Len(q) \in Nat
      /\ Len(r) = IF n < Len(q) THEN Len(q) - n ELSE 0
      /\ \A i \in 1 .. Len(r) : r[i] = q[n + i]
  <2>1. CASE n < Len(q)
    BY <1>1, <2>1
  <2>2. CASE ~(n < Len(q))
    BY <1>1, <2>2
  <2> QED
    BY <2>1, <2>2
<1>3. r # <<>> => Len(r) > 0
  BY <1>2
<1> HIDE DEF r
<1>4. \A i \in 1 .. Len(r) : r[i].pts \in Int /\ r[i].dur \in Nat
  <2> SUFFICES ASSUME NEW i \in 1 .. Len(r) PROVE r[i].pts \in Int /\ r[i].dur \in Nat
    OBVIOUS
  <2>1. n + i \in 1 .. Len(q) /\ r[i] = q[n + i]
    BY <1>2
  <2> QED
    BY <2>1 DEF Timeline
<1>5. \A i \in 1 .. Len(r) - 1 : GoesOn(r[i], r[i + 1].pts)
  <2> SUFFICES ASSUME NEW i \in 1 .. Len(r) - 1 PROVE GoesOn(r[i], r[i + 1].pts)
    OBVIOUS
  <2>1. n + i \in 1 .. Len(q) - 1 /\ i \in 1 .. Len(r) /\ i + 1 \in 1 .. Len(r)
    <3>1. Len(r) \in Nat /\ Len(q) \in Nat /\ (Len(r) = Len(q) - n \/ Len(r) = 0)
      BY <1>2
    <3> QED
      BY <3>1
  <2>2. r[i] = q[n + i] /\ r[i + 1] = q[(n + i) + 1]
    <3>1. n + (i + 1) = (n + i) + 1
      OBVIOUS
    <3>2. r[i] = q[n + i] /\ r[i + 1] = q[n + (i + 1)]
      BY <1>2, <2>1
    <3> QED
      BY <3>1, <3>2
  <2> QED
    BY <2>1, <2>2 DEF Timeline
<1>6. r # <<>> => q # <<>> /\ r[Len(r)] = q[Len(q)]
  <2>1. r # <<>> => Len(r) > 0 /\ n + Len(r) = Len(q) /\ r[Len(r)] = q[n + Len(r)] /\ Len(q) > 0
    BY <1>2, <1>3
  <2> QED
    BY <2>1
<1> QED
  BY <1>2, <1>4, <1>5, <1>6 DEF Timeline, r

LEMMA ExpireKeepsTime ==
    ASSUME NEW f, InTime(f), NEW ts
    PROVE  InTime(Expire(f, ts))
<1> DEFINE n == Cardinality(Expired(f.list, ts))
           r == SubSeq(f.list, n + 1, Len(f.list))
           e == Expire(f, ts)
<1>1. n \in Nat
  <2>1. PICK V : f.list \in Seq(V)
    BY DEF InTime, Timeline
  <2>2. Len(f.list) \in Nat
    BY <2>1
  <2>3. IsFiniteSet(1 .. Len(f.list)) /\ Expired(f.list, ts) \subseteq 1 .. Len(f.list)
    BY <2>2, FS_Interval DEF Expired
  <2> QED
    BY <2>3, FS_Subset, FS_CardinalityType
<1>2. Timeline(r) /\ (r # <<>> => f.list # <<>> /\ r[Len(r)] = f.list[Len(f.list)])
  BY <1>1, SomeExpired DEF InTime
<1> HIDE DEF n
<1>3. e = [f EXCEPT !.list = r]
  BY DEF Expire, n
<1> HIDE DEF r, e
<1>4. e.list = r /\ Fields(e) /\ e.seq = f.seq /\ e.pts = f.pts
  BY <1>3 DEF InTime, Fields
<1> QED
  BY <1>2, <1>4 DEF InTime, e

\* Whether or not anything else of a finalizer changes
LEMMA OthersChange ==
    ASSUME NEW f, InTime(f), NEW v, NEW g,
           \/ g = [f EXCEPT !.min = v] \/ g = [f EXCEPT !.dropped = v]
           \/ g = [f EXCEPT !.failed = v]
    PROVE  InTime(g)
<1>1. Fields(g) /\ g.seq = f.seq /\ g.pts = f.pts /\ g.list = f.list
  <2>1. CASE g = [f EXCEPT !.min = v]
    BY <2>1 DEF InTime, Fields
  <2>2. CASE g = [f EXCEPT !.dropped = v]
    BY <2>2 DEF InTime, Fields
  <2>3. CASE g = [f EXCEPT !.failed = v]
    BY <2>3 DEF InTime, Fields
  <2> QED
    BY <2>1, <2>2, <2>3
<1> QED
  BY <1>1 DEF InTime

LEMMA ForwardKeepsTime ==
    ASSUME NEW f, InTime(f), NEW s, s.dur \in Nat, NEW id
    PROVE  InTime(Forward(f, s, id))
<1> DEFINE d == IF f.list = <<>> \/ s.ts = Last(f.list).end THEN f.dseq ELSE f.dseq + 1
           l == Listed(s, id, d, f.pts)
           e == Forward(f, s, id)
<1>1. l.pts = f.pts /\ l.dur = s.dur
  BY DEF Listed
<1>2. e = [f EXCEPT !.dseq = d, !.pts = Rolled(f.pts + s.dur), !.list = Append(f.list, l)]
  BY DEF Forward
<1> HIDE DEF l, d, e
<1>3. /\ Timeline(Append(f.list, l)) /\ Append(f.list, l) # <<>>
      /\ Append(f.list, l)[Len(Append(f.list, l))] = l
  BY <1>1, OneAppended DEF InTime
<1>4. /\ e.list = Append(f.list, l) /\ Fields(e) /\ e.seq = f.seq
      /\ e.pts = Rolled(f.pts + s.dur)
  BY <1>2 DEF InTime, Fields
<1>5. e.pts \in Int /\ GoesOn(l, e.pts)
  BY <1>1, <1>4, SegmenterAssumption DEF Rolled, GoesOn, InTime
<1> QED
  BY <1>3, <1>4, <1>5 DEF InTime, e

LEMMA BackwardKeepsTime ==
    ASSUME NEW f, InTime(f), f.list # <<>>, NEW s, s.dur \in Nat, NEW id
    PROVE  InTime(Backward(f, s, id))
<1> DEFINE h == Head(f.list)
           d == IF s.end = h.ts THEN f.dseqR ELSE f.dseqR - 1
           p == IF h.pts > s.dur THEN h.pts - s.dur ELSE MaxPTS - s.dur + h.pts
           l == Listed(s, id, d, p)
           e == Backward(f, s, id)
<1>1. l.pts = p /\ l.dur = s.dur
  BY DEF Listed
<1>2. e = [f EXCEPT !.dseqR = d, !.list = <<l>> \o f.list]
  BY DEF Backward
<1>3. h = f.list[1] /\ h.pts \in Int /\ f.list[1].pts \in Int
  <2>1. PICK V : f.list \in Seq(V)
    BY DEF InTime, Timeline
  <2>2. h = f.list[1] /\ 1 \in 1 .. Len(f.list)
    BY <2>1
  <2> QED
    BY <2>2 DEF InTime, Timeline
<1>4. p \in Int /\ f.list[1].pts - p - s.dur \in {0, -MaxPTS}
  BY <1>3, SegmenterAssumption
<1> HIDE DEF l, d, e, h, p
<1>5. GoesOn(l, f.list[1].pts)
  BY <1>1, <1>4 DEF GoesOn
<1>6. /\ Timeline(<<l>> \o f.list) /\ <<l>> \o f.list # <<>>
      /\ (<<l>> \o f.list)[Len(<<l>> \o f.list)] = f.list[Len(f.list)]
  BY <1>1, <1>4, <1>5, OnePrepended DEF InTime
<1>7. e.list = <<l>> \o f.list /\ Fields(e) /\ e.seq = f.seq /\ e.pts = f.pts
  BY <1>2 DEF InTime, Fields
<1> QED
  BY <1>6, <1>7 DEF InTime, e

LEMMA WriteKeepsTime ==
    ASSUME NEW f, InTime(f), NEW w, NEW parts, IsFiniteSet(parts)
    PROVE  InTime(Write(f, w, parts))
<1> DEFINE s == Timed(w, parts)
           id == IF Numbered(f, w) THEN f.map[Start(w)] ELSE f.seq
           seqs == IF Numbered(f, w) THEN f.seq ELSE f.seq + 1
           g == [f EXCEPT !.seq = IF Numbered(f, w) THEN @ ELSE @ + 1,
                          !.spent = @ \cup {w}]
<1>1. InTime(g) /\ g.list = f.list
  <2> DEFINE spents == f.spent \cup {w}
  <2>2. seqs \in Nat
    BY DEF InTime
  <2>3. g = [f EXCEPT !.seq = seqs, !.spent = spents]
    BY DEF InTime, Fields
  <2> HIDE DEF seqs, spents, g
  <2>1. Fields(g) /\ g.seq \in Nat /\ g.pts = f.pts /\ g.list = f.list
    BY <2>2, <2>3 DEF InTime, Fields
  <2> QED
    BY <2>1 DEF InTime
<1>2. s.dur \in Nat
  BY FS_CardinalityType DEF Timed
<1>3. \/ Write(f, w, parts) = f
      \/ \E v : Write(f, w, parts) = [f EXCEPT !.dropped = v]
      \/ Write(f, w, parts) = [f EXCEPT !.failed = TRUE]
      \/ Write(f, w, parts) = Forward(g, s, id)
      \/ f.list # <<>> /\ Write(f, w, parts) = Backward(g, s, id)
      \/ Write(f, w, parts) = g
  <2> DEFINE v == f.dropped \cup ({w} \ f.spent)
             c == CASE f.list = <<>> \/ s.ts > Last(f.list).ts -> Forward(g, s, id)
                    [] f.list # <<>> /\ s.ts < Head(f.list).ts -> Backward(g, s, id)
                    [] OTHER -> g
  <2>1. Write(f, w, parts) =
          CASE Numbered(f, w) /\ BelowMin(f, w) -> f
            [] ~Numbered(f, w) /\ ~After(f, w) -> [f EXCEPT !.dropped = v]
            [] w \in f.spent /\ (Numbered(f, w) \/ After(f, w)) -> [f EXCEPT !.failed = TRUE]
            [] OTHER -> c
    BY DEF Write
  <2>2. c = Forward(g, s, id) \/ (f.list # <<>> /\ c = Backward(g, s, id)) \/ c = g
    <3> HIDE DEF g, s, id
    <3> QED
      OBVIOUS
  <2> HIDE DEF c, g, s, id, v
  <2> QED
    BY <2>1, <2>2
<1> HIDE DEF g, s, id
<1>4. CASE \E v : Write(f, w, parts) = [f EXCEPT !.dropped = v]
  BY <1>4, OthersChange
<1>5. CASE Write(f, w, parts) = [f EXCEPT !.failed = TRUE]
  BY <1>5, OthersChange
<1>6. CASE Write(f, w, parts) = Forward(g, s, id)
  BY <1>1, <1>2, <1>6, ForwardKeepsTime
<1>7. CASE f.list # <<>> /\ Write(f, w, parts) = Backward(g, s, id)
  BY <1>1, <1>2, <1>7, BackwardKeepsTime
<1> QED
  BY <1>1, <1>3, <1>4, <1>5, <1>6, <1>7

\* g[n] is the finalizer after n of the segments pushed.
InTurn(g, f, pushed, held) ==
    /\ WriteAll(f, pushed, held) = g[Len(pushed)] /\ g[0] = f
    /\ \A n \in 1 .. Len(pushed) : g[n] = Write(g[n - 1], pushed[n], held[pushed[n]])

\* What is written comes one after the other.
LEMMA WritesInTurn ==
    ASSUME NEW f, NEW pushed, Len(pushed) \in Nat, NEW held
    PROVE  \E g : InTurn(g, f, pushed, held)
<1> DEFINE N == Len(pushed)
           Comes(g, n) == IF n = 0 THEN f ELSE Write(g[n - 1], pushed[n], held[pushed[n]])
           Is(g, m) == g = [n \in 0 .. m |-> Comes(g, n)]
           written == CHOOSE g : Is(g, N)
<1>1. N \in Nat
  OBVIOUS
<1>2. WriteAll(f, pushed, held) = written[N]
  BY DEF WriteAll
<1> HIDE DEF written, N
<1>3. \A m \in Nat : \E g : Is(g, m)
  <2> DEFINE S == {m \in Nat : ~ \E g : Is(g, m)}
  <2> HIDE DEF Is
  <2> SUFFICES ASSUME S # {} PROVE FALSE
    OBVIOUS
  <2>1. PICK m \in S : \A k \in S : m <= k
    <3>1. S \in SUBSET Nat
      OBVIOUS
    <3> HIDE DEF S
    <3> QED
      BY <3>1, LeastIs
  <2>2. m \in Nat /\ ~ \E g : Is(g, m)
    OBVIOUS
  <2>3. m # 0
    <3>1. Is([n \in 0 .. 0 |-> f], 0)
      BY DEF Is
    <3> QED
      BY <2>2, <3>1
  <2>4. m - 1 \in Nat /\ m - 1 \notin S
    BY <2>1, <2>2, <2>3
  <2>5. PICK g : Is(g, m - 1)
    BY <2>4
  <2> DEFINE h == [n \in 0 .. m |-> IF n = m THEN Comes(g, m) ELSE g[n]]
  <2>6. \A n \in 0 .. m : h[n] = Comes(h, n)
    <3> SUFFICES ASSUME NEW n \in 0 .. m PROVE h[n] = Comes(h, n)
      OBVIOUS
    <3>1. CASE n = m
      <4>1. m - 1 \in 0 .. m /\ m - 1 # m /\ h[m - 1] = g[m - 1]
        BY <2>4, <2>2
      <4> QED
        BY <2>3, <3>1, <4>1
    <3>2. CASE n # m
      <4>1. n \in 0 .. m - 1 /\ h[n] = g[n]
        BY <2>2, <3>2
      <4>2. g[n] = Comes(g, n)
        BY <2>5, <4>1 DEF Is
      <4>3. n # 0 => n - 1 \in 0 .. m /\ n - 1 # m /\ h[n - 1] = g[n - 1]
        BY <2>2, <4>1
      <4> QED
        BY <4>1, <4>2, <4>3
    <3> QED
      BY <3>1, <3>2
  <2> HIDE DEF Comes
  <2>7. Is(h, m)
    BY <2>6 DEF Is
  <2> QED
    BY <2>2, <2>7
<1>4. Is(written, N)
  <2>1. \E g : Is(g, N)
    BY <1>1, <1>3
  <2> HIDE DEF Is
  <2> QED
    BY <2>1 DEF written
<1>5. \A n \in 0 .. N : written[n] = Comes(written, n)
  BY <1>4
<1>6. written[0] = f
  BY <1>1, <1>5
<1>7. \A n \in 1 .. N : written[n] = Write(written[n - 1], pushed[n], held[pushed[n]])
  BY <1>1, <1>5
<1> QED
  BY <1>2, <1>6, <1>7 DEF N, InTurn

\* They keep the time, whatever is written.
LEMMA WriteAllKeepsTime ==
    ASSUME NEW f, InTime(f), NEW pushed \in Seq(Window), NEW held,
           \A w \in Window : IsFiniteSet(held[w])
    PROVE  InTime(WriteAll(f, pushed, held))
<1> DEFINE N == Len(pushed)
<1>1. N \in Nat
  OBVIOUS
<1>2. PICK g : InTurn(g, f, pushed, held)
  BY <1>1, WritesInTurn
<1> DEFINE S == {n \in 0 .. N : ~InTime(g[n])}
<1>3. S = {}
  <2> SUFFICES ASSUME S # {} PROVE FALSE
    OBVIOUS
  <2>1. S \in SUBSET Nat
    OBVIOUS
  <2>2. PICK n \in S : \A m \in S : n <= m
    <3> HIDE DEF S
    <3> QED
      BY <2>1, LeastIs
  <2>3. n \in 0 .. N /\ ~InTime(g[n])
    OBVIOUS
  <2>4. n # 0
    BY <1>2, <2>3 DEF InTurn
  <2>5. n - 1 \in 0 .. N /\ n - 1 \notin S /\ n \in 1 .. N
    BY <1>1, <2>2, <2>3, <2>4
  <2>6. InTime(g[n - 1]) /\ pushed[n] \in Window
    BY <2>5
  <2>7. g[n] = Write(g[n - 1], pushed[n], held[pushed[n]])
    BY <1>2, <2>5 DEF InTurn
  <2> HIDE DEF S
  <2> QED
    BY <2>3, <2>6, <2>7, WriteKeepsTime
<1>4. WriteAll(f, pushed, held) = g[N] /\ N \in 0 .. N
  BY <1>1, <1>2 DEF InTurn
<1> QED
  BY <1>3, <1>4

LEMMA SyncedKeepsTime ==
    ASSUME NEW f, InTime(f), NEW removed
    PROVE  InTime(Synced(f, removed))
BY OthersChange DEF Synced

LEMMA FirstIsInTime ==
    ASSUME NEW map, map # Unset => map.seq \in Nat /\ map.pts \in Int
    PROVE  InTime(Finalizer(map))
<1> DEFINE f == Finalizer(map)
<1>1. f.list = <<>> /\ Fields(f)
  BY DEF Finalizer, Fields
<1>2. f.seq \in Nat /\ f.pts \in Int
  BY SegmenterAssumption DEF Finalizer
<1>3. Timeline(<<>>)
  <2>1. <<>> \in Seq({}) /\ Len(<<>>) = 0
    OBVIOUS
  <2> QED
    BY <2>1 DEF Timeline
<1> QED
  BY <1>1, <1>2, <1>3 DEF InTime

LEMMA WindowOfTime ==
    ASSUME NEW t \in Times
    PROVE  Of(t) \in Window
BY SegmenterAssumption DEF Of, Window, Times

\* What a chunk does to the injector and the finalizer
LEMMA InjectedIs ==
    ASSUME SegmenterInv, NEW t \in Times
    PROVE  LET in == Injected(t) IN
             /\ in.first # Unset => in.first \in Window
             /\ in.last # Unset => in.last \in Window
             /\ in.push \in Seq(Window)
<1> DEFINE w == Of(t)
           in == Injected(t)
<1>1. w \in Window
  BY WindowOfTime
<1>2. \/ in = [first |-> first, last |-> last, push |-> <<>>]
      \/ in = [first |-> Unset, last |-> w, push |-> <<>>]
      \/ last # Unset /\ in = [first |-> last, last |-> w, push |-> <<>>]
      \/ last # Unset /\ in = [first |-> first, last |-> w, push |-> <<last>>]
      \/ in = [first |-> w, last |-> last, push |-> <<>>]
      \/ first # Unset /\ in = [first |-> w, last |-> last, push |-> <<first>>]
  <2> HIDE DEF w
  <2>1. in = CASE w \in {first, last} -> [first |-> first, last |-> last, push |-> <<>>]
              [] last = Unset -> [first |-> Unset, last |-> w, push |-> <<>>]
              [] last # Unset /\ w > last ->
                    IF first = Unset THEN [first |-> last, last |-> w, push |-> <<>>]
                    ELSE [first |-> first, last |-> w, push |-> <<last>>]
              [] OTHER -> [first |-> w, last |-> last, push |-> IF first = Unset THEN <<>> ELSE <<first>>]
    BY DEF Injected, w
  <2> HIDE DEF in
  <2> QED
    BY <2>1
<1>3. <<>> \in Seq(Window)
  OBVIOUS
<1>4. \A x : x \in Window => <<x>> \in Seq(Window)
  OBVIOUS
<1>5. (first # Unset => first \in Window) /\ (last # Unset => last \in Window)
  BY DEF SegmenterInv
<1> HIDE DEF in, w
<1>6. /\ in.first \in {first, last, Unset, w} /\ in.last \in {last, Unset, w}
      /\ \/ in.push = <<>>
         \/ last # Unset /\ in.push = <<last>>
         \/ first # Unset /\ in.push = <<first>>
  BY <1>2
<1>7. in.push \in Seq(Window)
  BY <1>3, <1>4, <1>5, <1>6
<1> QED
  BY <1>1, <1>5, <1>6, <1>7 DEF in

LEMMA InsertKeepsTime ==
    ASSUME SegmenterInv, NEW t \in Times, Insert(t)
    PROVE  /\ chunks' \subseteq Times
           /\ audio' = [w \in Window |-> audio'[w]] /\ \A w \in Window : IsFiniteSet(audio'[w])
           /\ first' # Unset => first' \in Window
           /\ last' # Unset => last' \in Window
           /\ queue' \in Seq(Window)
           /\ fin' # Unset => InTime(fin')
<1> DEFINE taken == chunks = {} \/ t > Max(chunks) \/ t < Min(chunks)
           all == IF taken THEN chunks \cup {t} ELSE chunks
           over == Cardinality(all) > Capacity
           in == Injected(t)
           held == [audio EXCEPT ![Of(t)] = @ \cup {t}]
           f == WriteAll(fin, in.push, held)
           g == IF Of(t) \in f.spent /\ Of(t) \in {first, last} THEN [f EXCEPT !.failed = TRUE] ELSE f
           e == IF over THEN Synced(Expire(g, Min(all)), Expire(g, Min(all)).list # g.list) ELSE g
<1>1. /\ chunks' = IF over THEN all \ {Min(all)} ELSE all
      /\ IF taken
         THEN /\ audio' = held
              /\ first' = in.first /\ last' = in.last
              /\ IF fin = Unset THEN queue' = queue \o in.push /\ UNCHANGED fin
                 ELSE fin' = e /\ UNCHANGED queue
         ELSE UNCHANGED segmenter
  BY DEF Insert
<1>2. chunks' \subseteq Times
  BY <1>1 DEF SegmenterInv
<1>3. held = [w \in Window |-> held[w]] /\ \A w \in Window : IsFiniteSet(held[w])
  <2>1. held = [w \in Window |-> IF w = Of(t) THEN audio[w] \cup {t} ELSE audio[w]]
    BY DEF SegmenterInv
  <2> HIDE DEF held
  <2> SUFFICES ASSUME NEW w \in Window PROVE IsFiniteSet(held[w])
    BY <2>1
  <2>2. IsFiniteSet(audio[w]) /\ IsFiniteSet(audio[w] \cup {t})
    BY FS_AddElement DEF SegmenterInv
  <2> QED
    BY <2>1, <2>2
<1>4. /\ in.first # Unset => in.first \in Window
      /\ in.last # Unset => in.last \in Window
      /\ in.push \in Seq(Window)
  BY InjectedIs
<1> HIDE DEF in, held, taken, all, over
<1>5. ASSUME fin # Unset PROVE InTime(e)
  <2>1. InTime(f)
    BY <1>3, <1>4, <1>5, WriteAllKeepsTime DEF SegmenterInv
  <2> HIDE DEF f
  <2>2. InTime(g)
    BY <2>1, OthersChange
  <2> HIDE DEF g
  <2>3. InTime(Expire(g, Min(all)))
    BY <2>2, ExpireKeepsTime
  <2>4. InTime(Synced(Expire(g, Min(all)), Expire(g, Min(all)).list # g.list))
    BY <2>3, SyncedKeepsTime
  <2> QED
    BY <2>2, <2>4
<1> HIDE DEF e
<1>6. queue \o in.push \in Seq(Window)
  BY <1>4 DEF SegmenterInv
<1>7. CASE taken
  BY <1>1, <1>2, <1>3, <1>4, <1>5, <1>6, <1>7 DEF SegmenterInv
<1>8. CASE ~taken
  BY <1>1, <1>2, <1>8 DEF SegmenterInv, segmenter
<1> QED
  BY <1>7, <1>8

LEMMA CreateKeepsTime ==
    ASSUME SegmenterInv, NEW map, map # Unset => map.seq \in Nat /\ map.pts \in Int, Create(map)
    PROVE  InTime(fin') /\ queue' \in Seq(Window) /\ UNCHANGED <<audio, first, last>>
<1>1. InTime(Finalizer(map))
  BY FirstIsInTime
<1>2. InTime(WriteAll(Finalizer(map), queue, audio))
  BY <1>1, WriteAllKeepsTime DEF SegmenterInv
<1> QED
  BY <1>2 DEF Create

LEMMA SegmenterStarts == SegmenterInit => SegmenterInv
<1> SUFFICES ASSUME SegmenterInit PROVE SegmenterInv
  OBVIOUS
<1>1. audio = [w \in Window |-> audio[w]] /\ \A w \in Window : IsFiniteSet(audio[w])
  BY FS_EmptySet DEF SegmenterInit
<1>2. now \in Nat /\ queue \in Seq(Window)
  BY SegmenterAssumption DEF SegmenterInit
<1>3. DumpInTime
  BY DEF SegmenterInit, DumpInTime
<1> QED
  BY <1>1, <1>2, <1>3 DEF SegmenterInit, SegmenterInv

\* The last dump is that of the last Dump.
LEMMA DumpStays ==
    ASSUME [SegmenterNext]_segmenterVars
    PROVE  Dump \/ UNCHANGED dump
<1>1. ASSUME Chunk \/ Silence \/ NoMapCame \/ GroupMin \/ LoadHeader PROVE UNCHANGED dump
  BY <1>1 DEF Chunk, Silence, NoMapCame, GroupMin, LoadHeader, lives
<1>2. ASSUME LoadChunk \/ Loaded \/ Settle \/ Restart \/ UNCHANGED segmenterVars PROVE UNCHANGED dump
  BY <1>2 DEF LoadChunk, Loaded, Settle, Restart, segmenterVars, lives
<1> QED
  BY <1>1, <1>2 DEF SegmenterNext

LEMMA SegmenterKeeps == SegmenterInv /\ [SegmenterNext]_segmenterVars => SegmenterInv'
<1> SUFFICES ASSUME SegmenterInv, [SegmenterNext]_segmenterVars PROVE SegmenterInv'
  OBVIOUS
<1>0. DumpInTime'
  <2>1. CASE Dump
    <3> DEFINE map == IF fin = Unset THEN Unset ELSE DumpMap(fin)
    <3>1. dump'.chunks = chunks /\ dump'.map = map
      BY <2>1 DEF Dump
    <3>2. map # Unset => map.seq \in Nat /\ map.pts \in Int
      BY DEF DumpMap, SegmenterInv, InTime
    <3> HIDE DEF map
    <3> QED
      BY <3>1, <3>2 DEF DumpInTime, SegmenterInv
  <2>2. CASE UNCHANGED dump
    BY <2>2 DEF DumpInTime, SegmenterInv
  <2> QED
    BY <2>1, <2>2, DumpStays
<1>1. CASE Chunk
  <2>1. now \in Times /\ now' \in Nat
    BY <1>1, SegmenterAssumption DEF Chunk, Passing, SegmenterInv, Times
  <2>2. Insert(now) /\ UNCHANGED <<toLoad, header>>
    BY <1>1 DEF Chunk, loading
  <2> QED
    BY <1>0, <2>1, <2>2, InsertKeepsTime DEF SegmenterInv
<1>2. CASE Silence
  <2>1. now' \in Nat
    BY <1>2, SegmenterAssumption DEF Silence, Passing, SegmenterInv, Times
  <2> QED
    BY <1>0, <1>2, <2>1 DEF Silence, SegmenterInv, segmenter, loading
<1>3. CASE NoMapCame
  <2>1. Create(Unset) /\ UNCHANGED <<now, chunks, toLoad, header>>
    BY <1>3 DEF NoMapCame, loading
  <2> QED
    BY <1>0, <2>1, CreateKeepsTime DEF SegmenterInv
<1>4. CASE GroupMin
  <2>1. fin # Unset /\ UNCHANGED <<now, chunks, audio, first, last, queue, toLoad, header>>
    BY <1>4 DEF GroupMin, loading
  <2>2. PICK w \in Window :
          LET f == Expire([fin EXCEPT !.min = Start(w)], Start(w) - 1)
          IN  fin' = Synced(f, f.list # fin.list)
    BY <1>4 DEF GroupMin
  <2>3. InTime([fin EXCEPT !.min = Start(w)])
    BY <2>1, OthersChange DEF SegmenterInv
  <2>4. InTime(Expire([fin EXCEPT !.min = Start(w)], Start(w) - 1))
    BY <2>3, ExpireKeepsTime
  <2>5. InTime(fin')
    BY <2>2, <2>4, SyncedKeepsTime
  <2> QED
    BY <1>0, <2>1, <2>5 DEF SegmenterInv
<1>5. CASE LoadHeader
  <2>1. header # Unset /\ header' = Unset /\ UNCHANGED <<now, chunks, toLoad>>
    BY <1>5 DEF LoadHeader
  <2>2. CASE header.map # Unset /\ fin = Unset
    <3>1. Create(header.map) /\ header.map.seq \in Nat /\ header.map.pts \in Int
      BY <1>5, <2>1, <2>2 DEF LoadHeader, SegmenterInv
    <3> QED
      BY <1>0, <2>1, <3>1, CreateKeepsTime DEF SegmenterInv
  <2>3. CASE ~(header.map # Unset /\ fin = Unset)
    BY <1>0, <1>5, <2>1, <2>3 DEF LoadHeader, SegmenterInv, segmenter
  <2> QED
    BY <2>2, <2>3
<1>6. CASE LoadChunk
  <2>1. PICK t \in toLoad : toLoad' = toLoad \ {t} /\ Insert(t)
    BY <1>6 DEF LoadChunk
  <2>2. t \in Times /\ toLoad' \subseteq Times /\ UNCHANGED <<now, header>>
    BY <1>6, <2>1 DEF LoadChunk, SegmenterInv
  <2> QED
    BY <1>0, <2>1, <2>2, InsertKeepsTime DEF SegmenterInv
<1>7. CASE Loaded
  <2>1. toLoad' = Unset /\ Pushed(Flush, audio) /\ UNCHANGED <<now, chunks, audio, first, last, header>>
    BY <1>7 DEF Loaded
  <2>2. Flush \in Seq(Window)
    <3>1. Complete(first) => <<first>> \in Seq(Window)
      BY DEF Complete, SegmenterInv
    <3>2. Complete(last) => <<last>> \in Seq(Window)
      BY DEF Complete, SegmenterInv
    <3> DEFINE p == IF Complete(first) THEN <<first>> ELSE <<>>
               q == IF Complete(last) THEN <<last>> ELSE <<>>
    <3>3. <<>> \in Seq(Window)
      OBVIOUS
    <3>4. p \in Seq(Window) /\ q \in Seq(Window)
      BY <3>1, <3>2, <3>3
    <3>5. Flush = p \o q
      BY DEF Flush
    <3> HIDE DEF p, q
    <3> QED
      BY <3>4, <3>5
  <2>3. CASE fin = Unset
    <3>1. queue \o Flush \in Seq(Window)
      BY <2>2 DEF SegmenterInv
    <3>2. queue' = queue \o Flush /\ fin' = fin
      BY <2>1, <2>3 DEF Pushed
    <3> QED
      BY <1>0, <2>1, <2>3, <3>1, <3>2 DEF SegmenterInv
  <2>4. CASE fin # Unset
    <3>1. InTime(WriteAll(fin, Flush, audio))
      BY <2>2, <2>4, WriteAllKeepsTime DEF SegmenterInv
    <3> QED
      BY <1>0, <2>1, <2>4, <3>1 DEF Pushed, SegmenterInv
  <2> QED
    BY <2>3, <2>4
<1>8. CASE Settle
  <2>1. /\ fin # Unset
        /\ UNCHANGED <<now, chunks, audio, first, last, queue, toLoad, header>>
        /\ fin' = fin \/ fin' = [fin EXCEPT !.min = Head(fin.list).ts]
    BY <1>8 DEF Settle
  <2>2. InTime(fin')
    BY <2>1, OthersChange DEF SegmenterInv
  <2> QED
    BY <1>0, <2>1, <2>2 DEF SegmenterInv
<1>9. CASE Restart
  <2>1. /\ toLoad' = dump.chunks /\ chunks' = {} /\ audio' = [w \in Window |-> {}]
        /\ first' = Unset /\ last' = Unset /\ queue' = <<>> /\ fin' = Unset /\ now' = now
        /\ header' = IF dump.chunks = {} THEN Unset ELSE [map |-> dump.map]
    BY <1>9 DEF Restart
  <2>2. DumpInTime
    BY DEF SegmenterInv
  <2>3. header' # Unset /\ header'.map # Unset => header'.map.seq \in Nat /\ header'.map.pts \in Int
    BY <2>1, <2>2 DEF DumpInTime
  <2>4. audio' = [w \in Window |-> audio'[w]] /\ \A w \in Window : IsFiniteSet(audio'[w])
    BY <2>1, FS_EmptySet
  <2> QED
    BY <1>0, <2>1, <2>2, <2>3, <2>4 DEF SegmenterInv, DumpInTime
<1>10. CASE Dump
  BY <1>0, <1>10 DEF Dump, segmenter, loading, SegmenterInv
<1>11. CASE UNCHANGED segmenterVars
  BY <1>0, <1>11 DEF segmenterVars, segmenter, loading, SegmenterInv
<1> QED
  BY <1>1, <1>2, <1>3, <1>4, <1>5, <1>6, <1>7, <1>8, <1>9, <1>10, <1>11 DEF SegmenterNext

\* For any lengths, pauses, restarts and minimums of the group: from one listed segment
\* to the next the PTS goes on by the duration or rolls over (Finalizer._write).
THEOREM PTSGoesOn == SegmenterSpec => []PTSAddsUp
<1>1. SegmenterInv => PTSAddsUp
  <2> SUFFICES ASSUME SegmenterInv, NEW i \in 1 .. Len(List) - 1
               PROVE  (List[i + 1].pts - List[i].pts - List[i].dur) % MaxPTS = 0
    BY DEF PTSAddsUp
  <2>1. CASE fin = Unset
    BY <2>1 DEF List
  <2>2. CASE fin # Unset
    <3>1. List = fin.list /\ Timeline(List)
      BY <2>2 DEF List, SegmenterInv, InTime
    <3>2. List[i + 1].pts - List[i].pts - List[i].dur \in {0, -MaxPTS}
      BY <3>1 DEF Timeline, GoesOn
    <3>3. MaxPTS \in Nat /\ MaxPTS > 0
      BY SegmenterAssumption
    <3>4. (-MaxPTS) % MaxPTS = 0 /\ 0 % MaxPTS = 0
      BY <3>3
    <3> QED
      BY <3>2, <3>4
  <2> QED
    BY <2>1, <2>2
<1> QED
  BY <1>1, SegmenterStarts, SegmenterKeeps, PTL DEF SegmenterSpec

-----------------------------------------------------------------------------
(* windows of time, and lists by what holds of their neighbours *)

\* What a window is
LEMMA WindowsAre ==
    ASSUME NEW w \in Int
    PROVE  Start(w) \in Int /\ End(w) \in Int /\ Start(w) < End(w) /\ End(w) = Start(w) + Length
BY SegmenterAssumption DEF Start, End

\* Windows follow each other.
LEMMA WindowsApart ==
    ASSUME NEW v \in Int, NEW w \in Int, v < w
    PROVE  End(v) <= Start(w)
<1>1. Length \in Nat /\ Length > 0
  BY SegmenterAssumption
<1>2. w - v - 1 \in Nat
  OBVIOUS
<1>3. (w - v - 1) * Length \in Nat
  BY <1>1, <1>2
<1>4. w * Length - (v * Length + Length) = (w - v - 1) * Length
  BY <1>1
<1>5. w * Length \in Int /\ v * Length \in Int
  BY <1>1
<1> QED
  BY <1>1, <1>3, <1>4, <1>5 DEF Start, End

\* A chunk lies in its window,
LEMMA WindowOf ==
    ASSUME NEW t \in Nat
    PROVE  Of(t) \in Nat /\ Start(Of(t)) <= t /\ t < End(Of(t))
BY SegmenterAssumption DEF Of, Start, End

\* in no other,
LEMMA OfIs ==
    ASSUME NEW t \in Nat, NEW w \in Int, Start(w) <= t, t < End(w)
    PROVE  Of(t) = w
<1>1. Of(t) \in Nat /\ Start(Of(t)) <= t /\ t < End(Of(t))
  BY WindowOf
<1>2. CASE Of(t) < w
  BY <1>1, <1>2, WindowsApart, WindowsAre
<1>3. CASE w < Of(t)
  BY <1>1, <1>3, WindowsApart, WindowsAre
<1> QED
  BY <1>1, <1>2, <1>3

\* and a later one in no earlier window.
LEMMA OfGrows ==
    ASSUME NEW t \in Nat, NEW u \in Nat, t <= u
    PROVE  Of(t) <= Of(u)
<1>1. /\ Of(t) \in Nat /\ Start(Of(t)) <= t /\ t < End(Of(t))
      /\ Of(u) \in Nat /\ Start(Of(u)) <= u /\ u < End(Of(u))
  BY WindowOf
<1>2. CASE Of(u) < Of(t)
  <2>1. End(Of(u)) <= Start(Of(t)) /\ End(Of(u)) \in Int /\ Start(Of(t)) \in Int
    BY <1>1, <1>2, WindowsApart, WindowsAre
  <2> QED
    BY <1>1, <2>1
<1> QED
  BY <1>1, <1>2

\* Min, of natural numbers, is the least of them.
LEMMA MinIs ==
    ASSUME NEW S \in SUBSET Nat, S # {}
    PROVE  Min(S) \in S /\ \A n \in S : Min(S) <= n
<1>1. \E n \in S : \A m \in S : n <= m
  BY LeastIs
<1> QED
  BY <1>1 DEF Min

\* Windows are numbers.
LEMMA WindowsNumbered == Window \subseteq Nat
BY SegmenterAssumption DEF Window

\* The fields of a listed segment
LEMMA OfSegment ==
    ASSUME NEW s \in Segment
    PROVE  /\ s.w \in Window /\ s.w \in Nat /\ s.ts \in Int /\ s.end \in Int
           /\ s.dur \in Nat /\ s.id \in Nat /\ s.dseq \in Int /\ s.pts \in Int
BY WindowsNumbered DEF Segment

\* The ends of a list of segments
LEMMA Ends ==
    ASSUME NEW q \in Seq(Segment)
    PROVE  /\ Len(q) \in Nat
           /\ q # <<>> => /\ Len(q) > 0 /\ q[1] \in Segment /\ q[Len(q)] \in Segment
                          /\ Head(q) = q[1] /\ Last(q) = q[Len(q)]
                          /\ q[1] \in ToSet(q) /\ q[Len(q)] \in ToSet(q)
           /\ q = <<>> => ToSet(q) = {} /\ Len(q) = 0
           /\ ToSet(q) = {q[i] : i \in 1 .. Len(q)} /\ ToSet(q) \subseteq Segment
<1>1. Len(q) \in Nat /\ DOMAIN q = 1 .. Len(q) /\ \A i \in 1 .. Len(q) : q[i] \in Segment
  OBVIOUS
<1>2. q # <<>> => Len(q) > 0 /\ Head(q) = q[1]
  OBVIOUS
<1>3. ToSet(q) = {q[i] : i \in 1 .. Len(q)}
  BY <1>1 DEF ToSet
<1>4. Last(q) = q[Len(q)]
  BY DEF Last
<1>5. q = <<>> => Len(q) = 0
  OBVIOUS
<1> HIDE DEF Segment
<1>6. Len(q) > 0 => 1 \in 1 .. Len(q) /\ Len(q) \in 1 .. Len(q)
  BY <1>1
<1> QED
  BY <1>1, <1>2, <1>3, <1>4, <1>5, <1>6

\* A list stays in order, its neighbours related, with a segment put after its last,
LEMMA Appended ==
    ASSUME NEW q \in Seq(Segment), NEW s \in Segment, NEW R,
           Neighbours(q, R), InOrderOfTime(q),
           q # <<>> => <<q[Len(q)], s>> \in R /\ q[Len(q)].w < s.w
    PROVE  LET r == Append(q, s) IN
             /\ r \in Seq(Segment) /\ Neighbours(r, R) /\ InOrderOfTime(r)
             /\ r # <<>> /\ r[Len(r)] = s /\ r[1] = (IF q = <<>> THEN s ELSE q[1])
             /\ ToSet(r) = ToSet(q) \cup {s}
<1> DEFINE r == Append(q, s)
<1>1. /\ r \in Seq(Segment) /\ Len(r) = Len(q) + 1 /\ Len(q) \in Nat
      /\ r[Len(r)] = s /\ \A i \in 1 .. Len(q) : r[i] = q[i]
  <2> HIDE DEF Segment
  <2> QED
    OBVIOUS
<1>2. q = <<>> <=> Len(q) = 0
  OBVIOUS
<1> HIDE DEF r
<1>3. r # <<>> /\ r[1] = (IF q = <<>> THEN s ELSE q[1])
  <2>1. r # <<>>
    BY <1>1
  <2>2. CASE q = <<>>
    <3>1. Len(r) = 1
      BY <1>1, <1>2, <2>2
    <3> QED
      BY <1>1, <2>1, <2>2, <3>1
  <2>3. CASE q # <<>>
    BY <1>1, <1>2, <2>3
  <2> QED
    BY <2>1, <2>2, <2>3
<1>4. Neighbours(r, R)
  <2> SUFFICES ASSUME NEW i \in 1 .. Len(r) - 1 PROVE <<r[i], r[i + 1]>> \in R
    BY DEF Neighbours
  <2>1. i \in 1 .. Len(q) /\ r[i] = q[i]
    BY <1>1
  <2>2. CASE i = Len(q)
    BY <1>1, <1>2, <2>1, <2>2
  <2>3. CASE i # Len(q)
    <3>1. i \in 1 .. Len(q) - 1 /\ i + 1 \in 1 .. Len(q)
      BY <1>1, <2>1, <2>3
    <3> QED
      BY <1>1, <2>1, <3>1 DEF Neighbours
  <2> QED
    BY <2>2, <2>3
<1>5. \A i \in 1 .. Len(q) : q[i].w < s.w
  <2> SUFFICES ASSUME NEW i \in 1 .. Len(q) PROVE q[i].w < s.w
    OBVIOUS
  <2>1. q # <<>> /\ Len(q) \in 1 .. Len(q)
    BY <1>1, <1>2
  <2>2. q[i].w \in Int /\ q[Len(q)].w \in Int /\ s.w \in Int
    BY <1>1, <2>1, Ends, OfSegment
  <2>3. CASE i = Len(q)
    BY <2>1, <2>3
  <2>4. CASE i # Len(q)
    <3>1. i < Len(q)
      BY <1>1, <2>4
    <3>2. q[i].w < q[Len(q)].w
      BY <2>1, <3>1 DEF InOrderOfTime
    <3> QED
      BY <2>1, <2>2, <3>2
  <2> QED
    BY <2>3, <2>4
<1>6. InOrderOfTime(r)
  <2> SUFFICES ASSUME NEW i \in 1 .. Len(r), NEW j \in 1 .. Len(r), i < j PROVE r[i].w < r[j].w
    BY DEF InOrderOfTime
  <2>1. i \in 1 .. Len(q) /\ r[i] = q[i]
    BY <1>1
  <2>2. CASE j = Len(r)
    BY <1>1, <1>5, <2>1, <2>2
  <2>3. CASE j # Len(r)
    <3>1. Len(r) = Len(q) + 1 /\ Len(q) \in Nat
      BY <1>1
    <3>2. j \in 1 .. Len(q)
      BY <2>3, <3>1
    <3>3. r[j] = q[j]
      BY <1>1, <3>2
    <3> QED
      BY <2>1, <3>2, <3>3 DEF InOrderOfTime
  <2> QED
    BY <2>2, <2>3
<1>7. ToSet(r) = ToSet(q) \cup {s}
  <2>1. /\ \A x : x \in ToSet(q) <=> \E i \in 1 .. Len(q) : q[i] = x
        /\ \A x : x \in ToSet(r) <=> \E i \in 1 .. Len(r) : r[i] = x
    <3>1. ToSet(q) = {q[i] : i \in 1 .. Len(q)} /\ ToSet(r) = {r[i] : i \in 1 .. Len(r)}
      BY <1>1, Ends
    <3> QED
      BY <3>1, Zenon
  <2>2. ASSUME NEW i \in 1 .. Len(r) PROVE r[i] \in ToSet(q) \cup {s}
    BY <1>1, <2>1
  <2>3. ASSUME NEW x \in ToSet(q) \cup {s} PROVE \E i \in 1 .. Len(r) : r[i] = x
    <3>1. Len(r) \in 1 .. Len(r) /\ 1 .. Len(q) \subseteq 1 .. Len(r)
      BY <1>1
    <3> QED
      BY <1>1, <2>1, <3>1
  <2>4. \A x : x \in ToSet(r) <=> x \in ToSet(q) \cup {s}
    BY <2>1, <2>2, <2>3
  <2> QED
    BY <2>4
<1> QED
  BY <1>1, <1>3, <1>4, <1>6, <1>7 DEF r

\* or before its first.
LEMMA Prepended ==
    ASSUME NEW q \in Seq(Segment), q # <<>>, NEW s \in Segment, NEW R,
           Neighbours(q, R), InOrderOfTime(q), <<s, q[1]>> \in R, s.w < q[1].w
    PROVE  LET r == <<s>> \o q IN
             /\ r \in Seq(Segment) /\ Neighbours(r, R) /\ InOrderOfTime(r)
             /\ r # <<>> /\ r[Len(r)] = q[Len(q)] /\ r[1] = s
             /\ ToSet(r) = ToSet(q) \cup {s}
<1> DEFINE r == <<s>> \o q
<1>1. /\ r \in Seq(Segment) /\ Len(r) = Len(q) + 1 /\ Len(q) \in Nat
      /\ r[1] = s /\ \A i \in 2 .. Len(r) : r[i] = q[i - 1]
      /\ Len(q) > 0
  <2> HIDE DEF Segment
  <2> QED
    OBVIOUS
<1> HIDE DEF r
<1>3. r # <<>> /\ r[Len(r)] = q[Len(q)]
  BY <1>1
<1>4. Neighbours(r, R)
  <2> SUFFICES ASSUME NEW i \in 1 .. Len(r) - 1 PROVE <<r[i], r[i + 1]>> \in R
    BY DEF Neighbours
  <2>1. i + 1 \in 2 .. Len(r) /\ (i + 1) - 1 = i /\ r[i + 1] = q[i]
    BY <1>1
  <2>2. CASE i = 1
    BY <1>1, <2>1, <2>2
  <2>3. CASE i # 1
    <3>1. i \in 2 .. Len(r) /\ i - 1 \in 1 .. Len(q) - 1 /\ (i - 1) + 1 = i /\ r[i] = q[i - 1]
      BY <1>1, <2>3
    <3> QED
      BY <2>1, <3>1 DEF Neighbours
  <2> QED
    BY <2>2, <2>3
<1>5. \A i \in 1 .. Len(q) : s.w < q[i].w
  <2> SUFFICES ASSUME NEW i \in 1 .. Len(q) PROVE s.w < q[i].w
    OBVIOUS
  <2>1. 1 \in 1 .. Len(q)
    BY <1>1
  <2>2. q[i].w \in Int /\ q[1].w \in Int /\ s.w \in Int
    BY <1>1, <2>1, Ends, OfSegment
  <2>3. CASE i = 1
    BY <2>3
  <2>4. CASE i # 1
    <3>1. 1 < i
      BY <2>4
    <3>2. q[1].w < q[i].w
      BY <2>1, <3>1 DEF InOrderOfTime
    <3> QED
      BY <2>2, <3>2
  <2> QED
    BY <2>3, <2>4
<1>6. InOrderOfTime(r)
  <2> SUFFICES ASSUME NEW i \in 1 .. Len(r), NEW j \in 1 .. Len(r), i < j PROVE r[i].w < r[j].w
    BY DEF InOrderOfTime
  <2>1. j - 1 \in 1 .. Len(q) /\ r[j] = q[j - 1]
    BY <1>1
  <2>2. CASE i = 1
    BY <1>1, <1>5, <2>1, <2>2
  <2>3. CASE i # 1
    <3>1. i - 1 \in 1 .. Len(q) /\ r[i] = q[i - 1] /\ i - 1 < j - 1
      BY <1>1, <2>3
    <3> QED
      BY <2>1, <3>1 DEF InOrderOfTime
  <2> QED
    BY <2>2, <2>3
<1>7. ToSet(r) = ToSet(q) \cup {s}
  <2>1. /\ \A x : x \in ToSet(q) <=> \E i \in 1 .. Len(q) : q[i] = x
        /\ \A x : x \in ToSet(r) <=> \E i \in 1 .. Len(r) : r[i] = x
    <3>1. ToSet(q) = {q[i] : i \in 1 .. Len(q)} /\ ToSet(r) = {r[i] : i \in 1 .. Len(r)}
      BY <1>1, Ends
    <3> QED
      BY <3>1, Zenon
  <2>2. ASSUME NEW i \in 1 .. Len(r) PROVE r[i] \in ToSet(q) \cup {s}
    <3>1. CASE i = 1
      BY <1>1, <3>1
    <3>2. CASE i # 1
      <4>1. r[i] = q[i - 1] /\ i - 1 \in 1 .. Len(q)
        BY <1>1, <3>2
      <4> QED
        BY <2>1, <4>1
    <3> QED
      BY <3>1, <3>2
  <2>3. ASSUME NEW x \in ToSet(q) \cup {s} PROVE \E i \in 1 .. Len(r) : r[i] = x
    <3>1. 1 \in 1 .. Len(r)
      BY <1>1
    <3>2. ASSUME NEW i \in 1 .. Len(q) PROVE i + 1 \in 1 .. Len(r) /\ r[i + 1] = q[i]
      BY <1>1
    <3> QED
      BY <1>1, <2>1, <3>1, <3>2
  <2>4. \A x : x \in ToSet(r) <=> x \in ToSet(q) \cup {s}
    BY <2>1, <2>2, <2>3
  <2> QED
    BY <2>4
<1> QED
  BY <1>1, <1>3, <1>4, <1>6, <1>7 DEF r

\* The first n segments of a list go.
LEMMA Shortened ==
    ASSUME NEW q \in Seq(Segment), NEW n \in Nat, NEW R,
           Neighbours(q, R), InOrderOfTime(q)
    PROVE  LET r == SubSeq(q, n + 1, Len(q)) IN
             /\ r \in Seq(Segment) /\ Neighbours(r, R) /\ InOrderOfTime(r)
             /\ r # <<>> => q # <<>> /\ r[Len(r)] = q[Len(q)]
             /\ ToSet(r) = {q[i] : i \in n + 1 .. Len(q)}
<1> DEFINE r == SubSeq(q, n + 1, Len(q))
<1>2. /\ r \in Seq(Segment) /\ Len(q) \in Nat
      /\ Len(r) = IF n < Len(q) THEN Len(q) - n ELSE 0
      /\ \A i \in 1 .. Len(r) : r[i] = q[n + i]
  <2> HIDE DEF Segment
  <2>1. CASE n < Len(q)
    BY <2>1
  <2>2. CASE ~(n < Len(q))
    BY <2>2
  <2> QED
    BY <2>1, <2>2
<1>3. r # <<>> => Len(r) > 0
  BY <1>2
<1> HIDE DEF r
<1>4. \A i \in 1 .. Len(r) : n + i \in n + 1 .. Len(q) /\ n + i \in 1 .. Len(q)
  BY <1>2
<1>5. Neighbours(r, R)
  <2> SUFFICES ASSUME NEW i \in 1 .. Len(r) - 1 PROVE <<r[i], r[i + 1]>> \in R
    BY DEF Neighbours
  <2>1. n + i \in 1 .. Len(q) - 1 /\ i \in 1 .. Len(r) /\ i + 1 \in 1 .. Len(r)
    <3>1. Len(r) \in Nat /\ Len(q) \in Nat /\ (Len(r) = Len(q) - n \/ Len(r) = 0)
      BY <1>2
    <3> QED
      BY <3>1
  <2>2. r[i] = q[n + i] /\ r[i + 1] = q[(n + i) + 1]
    <3>1. n + (i + 1) = (n + i) + 1
      OBVIOUS
    <3>2. r[i] = q[n + i] /\ r[i + 1] = q[n + (i + 1)]
      BY <1>2, <2>1
    <3> QED
      BY <3>1, <3>2
  <2> QED
    BY <2>1, <2>2 DEF Neighbours
<1>6. r # <<>> => q # <<>> /\ r[Len(r)] = q[Len(q)]
  <2>1. r # <<>> => Len(r) > 0 /\ n + Len(r) = Len(q) /\ r[Len(r)] = q[n + Len(r)] /\ Len(q) > 0
    BY <1>2, <1>3
  <2> QED
    BY <2>1
<1>7. InOrderOfTime(r)
  <2> SUFFICES ASSUME NEW i \in 1 .. Len(r), NEW j \in 1 .. Len(r), i < j PROVE r[i].w < r[j].w
    BY DEF InOrderOfTime
  <2>1. /\ n + i \in 1 .. Len(q) /\ n + j \in 1 .. Len(q) /\ n + i < n + j
        /\ r[i] = q[n + i] /\ r[j] = q[n + j]
    BY <1>2, <1>4
  <2> QED
    BY <2>1 DEF InOrderOfTime
<1>8. ToSet(r) = {q[i] : i \in n + 1 .. Len(q)}
  <2>1. \A x : x \in ToSet(r) <=> \E i \in 1 .. Len(r) : r[i] = x
    <3>1. ToSet(r) = {r[i] : i \in 1 .. Len(r)}
      BY <1>2, Ends
    <3> QED
      BY <3>1, Zenon
  <2>2. ASSUME NEW i \in n + 1 .. Len(q) PROVE i - n \in 1 .. Len(r) /\ r[i - n] = q[i]
    <3>1. i - n \in 1 .. Len(r) /\ n + (i - n) = i
      BY <1>2
    <3> QED
      BY <1>2, <3>1
  <2>3. ASSUME NEW i \in 1 .. Len(r) PROVE \E j \in n + 1 .. Len(q) : q[j] = r[i]
    BY <1>2, <1>4
  <2>4. \A x : x \in ToSet(r) <=> \E j \in n + 1 .. Len(q) : q[j] = x
    BY <2>1, <2>2, <2>3
  <2> QED
    BY <2>4, Zenon
<1> QED
  BY <1>2, <1>5, <1>6, <1>7, <1>8 DEF r

-----------------------------------------------------------------------------
(* what writing a segment does to the finalizer *)

AudioOf(w, parts) ==
    parts # {} /\ IsFiniteSet(parts) /\ parts \subseteq Nat /\ \A a \in parts : Of(a) = w

\* At most what was thrown out, or has failed, differs.
Same(f, e) ==
    /\ Fields(e) /\ e.seq = f.seq /\ e.dseq = f.dseq /\ e.dseqR = f.dseqR /\ e.pts = f.pts
    /\ e.map = f.map /\ e.min = f.min /\ e.list = f.list /\ e.spent = f.spent

IdOf(f, w) == IF Numbered(f, w) THEN f.map[Start(w)] ELSE f.seq

\* The segment of window w was taken.
Taken(f, e, w) ==
    /\ w \notin f.spent
    /\ ~(Numbered(f, w) /\ BelowMin(f, w)) /\ (Numbered(f, w) \/ After(f, w))
    /\ Fields(e) /\ e.seq = (IF Numbered(f, w) THEN f.seq ELSE f.seq + 1)
    /\ e.map = f.map /\ e.min = f.min /\ e.spent = f.spent \cup {w}

AtEnd(f, e, s, id) ==
    LET dseq == IF f.list = <<>> \/ s.ts = Last(f.list).end THEN f.dseq ELSE f.dseq + 1
    IN  /\ f.list = <<>> \/ s.ts > Last(f.list).ts
        /\ e.dseq = dseq /\ e.dseqR = f.dseqR /\ e.pts = Rolled(f.pts + s.dur)
        /\ e.list = Append(f.list, Listed(s, id, dseq, f.pts))

AtFront(f, e, s, id) ==
    LET dseq == IF s.end = Head(f.list).ts THEN f.dseqR ELSE f.dseqR - 1
    IN  /\ f.list # <<>> /\ s.ts < Head(f.list).ts
        /\ e.dseq = f.dseq /\ e.dseqR = dseq /\ e.pts = f.pts
        /\ \E pts \in Int : e.list = <<Listed(s, id, dseq, pts)>> \o f.list

Within(f, e, s) ==
    /\ f.list # <<>> /\ ~(s.ts > Last(f.list).ts) /\ ~(s.ts < Head(f.list).ts)
    /\ e.dseq = f.dseq /\ e.dseqR = f.dseqR /\ e.pts = f.pts /\ e.list = f.list

\* The times of a segment
LEMMA TimedIs ==
    ASSUME NEW w \in Window, NEW parts, AudioOf(w, parts)
    PROVE  LET s == Timed(w, parts) IN
             /\ s.w = w /\ s.end = End(w) /\ s.dur \in Nat
             /\ s.ts \in Int /\ Start(w) <= s.ts /\ s.ts < End(w)
             /\ Tolerance >= Length - 1 => s.ts = Start(w)
<1>1. Min(parts) \in parts
  BY MinIs DEF AudioOf
<1>2. Min(parts) \in Nat /\ Of(Min(parts)) = w
  BY <1>1 DEF AudioOf
<1>3. Start(w) <= Min(parts) /\ Min(parts) < End(w)
  BY <1>2, WindowOf
<1>4. Start(w) \in Int /\ End(w) = Start(w) + Length /\ Start(w) < End(w)
  BY WindowsAre, WindowsNumbered
<1>5. Cardinality(parts) \in Nat
  BY FS_CardinalityType DEF AudioOf
<1>6. Length \in Nat /\ Tolerance \in Nat
  BY SegmenterAssumption
<1> QED
  BY <1>2, <1>3, <1>4, <1>5, <1>6 DEF Timed

\* A segment that is written is put at an end, lost between, or leaves the finalizer the same.
LEMMA WriteIs ==
    ASSUME NEW f, Typed(f), NEW w \in Window, NEW parts, AudioOf(w, parts)
    PROVE  LET e == Write(f, w, parts)
               s == Timed(w, parts)
           IN  \/ /\ Same(f, e)
                  /\ \/ Numbered(f, w) /\ BelowMin(f, w)
                     \/ ~Numbered(f, w) /\ ~After(f, w)
                     \/ w \in f.spent
               \/ /\ Taken(f, e, w)
                  /\ \/ AtEnd(f, e, s, IdOf(f, w))
                     \/ AtFront(f, e, s, IdOf(f, w))
                     \/ Within(f, e, s)
<1> DEFINE e == Write(f, w, parts)
           s == Timed(w, parts)
           id == IdOf(f, w)
           n == Numbered(f, w)
           b == BelowMin(f, w)
           a == After(f, w)
           v == f.dropped \cup ({w} \ f.spent)
           seqs == IF n THEN f.seq ELSE f.seq + 1
           spents == f.spent \cup {w}
           g == [f EXCEPT !.seq = IF Numbered(f, w) THEN @ ELSE @ + 1, !.spent = @ \cup {w}]
           c == CASE f.list = <<>> \/ s.ts > Last(f.list).ts -> Forward(g, s, id)
                  [] f.list # <<>> /\ s.ts < Head(f.list).ts -> Backward(g, s, id)
                  [] OTHER -> g
<1>0. Fields(f)
  BY DEF Typed
<1>1. e = CASE n /\ b -> f
            [] ~n /\ ~a -> [f EXCEPT !.dropped = v]
            [] w \in f.spent /\ (n \/ a) -> [f EXCEPT !.failed = TRUE]
            [] OTHER -> c
  BY DEF Write, IdOf
<1>2. g = [f EXCEPT !.seq = seqs, !.spent = spents]
  BY <1>0 DEF Fields
<1>3. s.dur \in Nat /\ s.ts \in Int
  BY TimedIs
<1> HIDE DEF g, s, id, n, b, a, seqs, spents
<1>4. /\ Fields(g) /\ g.seq = seqs /\ g.spent = spents /\ g.dseq = f.dseq /\ g.dseqR = f.dseqR
      /\ g.pts = f.pts /\ g.map = f.map /\ g.min = f.min /\ g.list = f.list
  BY <1>0, <1>2 DEF Fields
<1>5. \/ /\ f.list = <<>> \/ s.ts > Last(f.list).ts
         /\ c = Forward(g, s, id)
      \/ /\ f.list # <<>> /\ s.ts < Head(f.list).ts
         /\ c = Backward(g, s, id)
      \/ /\ f.list # <<>> /\ ~(s.ts > Last(f.list).ts) /\ ~(s.ts < Head(f.list).ts)
         /\ c = g
  OBVIOUS
<1> HIDE DEF c, e
<1>6. \/ n /\ b /\ e = f
      \/ ~n /\ ~a /\ e = [f EXCEPT !.dropped = v]
      \/ w \in f.spent /\ e = [f EXCEPT !.failed = TRUE]
      \/ ~(n /\ b) /\ (n \/ a) /\ w \notin f.spent /\ e = c
  <2> HIDE DEF v
  <2> QED
    BY <1>1
<1>7. CASE n /\ b /\ e = f
  BY <1>0, <1>7 DEF Same, e, n, b
<1>8. CASE ~n /\ ~a /\ e = [f EXCEPT !.dropped = v]
  <2> HIDE DEF v
  <2>1. Same(f, e)
    BY <1>0, <1>8 DEF Fields, Same
  <2> QED
    BY <1>8, <2>1 DEF e, n, a
<1>9. CASE w \in f.spent /\ e = [f EXCEPT !.failed = TRUE]
  <2>1. Same(f, e)
    BY <1>0, <1>9 DEF Fields, Same
  <2> QED
    BY <1>9, <2>1 DEF e
<1>10. CASE ~(n /\ b) /\ (n \/ a) /\ w \notin f.spent /\ e = c
  <2> DEFINE d == IF f.list = <<>> \/ s.ts = Last(f.list).end THEN f.dseq ELSE f.dseq + 1
             p == Rolled(f.pts + s.dur)
             l == Append(f.list, Listed(s, id, d, f.pts))
  <2>1. CASE /\ f.list = <<>> \/ s.ts > Last(f.list).ts
             /\ c = Forward(g, s, id)
    <3>1. Forward(g, s, id) = [g EXCEPT !.dseq = d, !.pts = p, !.list = l]
      BY <1>4 DEF Forward
    <3>2. e = [g EXCEPT !.dseq = d, !.pts = p, !.list = l]
      BY <1>10, <2>1, <3>1
    <3> HIDE DEF d, p, l
    <3>3. /\ Fields(e) /\ e.seq = seqs /\ e.spent = spents /\ e.dseqR = f.dseqR
          /\ e.map = f.map /\ e.min = f.min /\ e.dseq = d /\ e.pts = p /\ e.list = l
      BY <1>4, <3>2 DEF Fields
    <3>4. Taken(f, e, w)
      BY <1>10, <3>3 DEF Taken, n, a, b, seqs, spents
    <3>5. AtEnd(f, e, s, id)
      BY <2>1, <3>3 DEF AtEnd, d, p, l
    <3> QED
      BY <3>4, <3>5 DEF e, s, id
  <2>2. CASE /\ f.list # <<>> /\ s.ts < Head(f.list).ts
             /\ c = Backward(g, s, id)
    <3> DEFINE h == Head(f.list)
               x == IF s.end = h.ts THEN f.dseqR ELSE f.dseqR - 1
               y == IF h.pts > s.dur THEN h.pts - s.dur ELSE MaxPTS - s.dur + h.pts
               m == <<Listed(s, id, x, y)>> \o f.list
    <3>1. Backward(g, s, id) = [g EXCEPT !.dseqR = x, !.list = m]
      BY <1>4 DEF Backward
    <3>2. e = [g EXCEPT !.dseqR = x, !.list = m]
      BY <1>10, <2>2, <3>1
    <3>3. y \in Int
      <4>1. h.pts \in Int
        BY <2>2, Ends, OfSegment DEF Typed
      <4> HIDE DEF h
      <4> QED
        BY <1>3, <4>1, SegmenterAssumption
    <3> HIDE DEF x, m
    <3>4. /\ Fields(e) /\ e.seq = seqs /\ e.spent = spents /\ e.dseqR = x
          /\ e.map = f.map /\ e.min = f.min /\ e.dseq = f.dseq /\ e.pts = f.pts /\ e.list = m
      BY <1>4, <3>2 DEF Fields
    <3>5. Taken(f, e, w)
      BY <1>10, <3>4 DEF Taken, n, a, b, seqs, spents
    <3>6. \E pts \in Int : e.list = <<Listed(s, id, x, pts)>> \o f.list
      <4> HIDE DEF y
      <4> QED
        BY <3>3, <3>4 DEF m
    <3>7. AtFront(f, e, s, id)
      BY <2>2, <3>4, <3>6 DEF AtFront, x
    <3> QED
      BY <3>5, <3>7 DEF e, s, id
  <2>3. CASE /\ f.list # <<>> /\ ~(s.ts > Last(f.list).ts) /\ ~(s.ts < Head(f.list).ts)
             /\ c = g
    <3>1. Taken(f, e, w)
      BY <1>4, <1>10, <2>3 DEF Taken, n, a, b, seqs, spents
    <3>2. Within(f, e, s)
      BY <1>4, <1>10, <2>3 DEF Within
    <3> QED
      BY <3>1, <3>2 DEF e, s
  <2> QED
    BY <1>5, <2>1, <2>2, <2>3
<1> QED
  BY <1>6, <1>7, <1>8, <1>9, <1>10

\* A segment is put at the front only while the sequence kept for the front fits it.
Fitting(f, w) ==
    Numbered(f, w) /\ ~BelowMin(f, w) /\ w \notin f.spent /\ f.list # <<>> /\ w < f.list[1].w
      => Whole(f)

\* A finalizer that took a segment has the fields it should.
LEMMA TakenIsTyped ==
    ASSUME NEW f, Typed(f), NEW w \in Window, NEW e, Taken(f, e, w),
           e.dseq \in Int, e.dseqR \in Int, e.pts \in Int, e.list \in Seq(Segment)
    PROVE  Typed(e)
<1>1. e.seq \in Nat /\ e.spent \subseteq Window
  BY DEF Taken, Typed
<1> QED
  BY <1>1 DEF Taken, Typed

\* If the sequence kept for the front fits what it is put to, a segment that is written
\* leaves the finalizer consistent, and that sequence that of the front.
LEMMA WriteConsistent ==
    ASSUME NEW f, Consistent(f), NEW w \in Window, NEW parts, AudioOf(w, parts), Fitting(f, w)
    PROVE  LET e == Write(f, w, parts) IN
             /\ Consistent(e) /\ e.map = f.map /\ e.min = f.min
             /\ \A s \in ToSet(e.list) : s \in ToSet(f.list) \/ s.w = w
             /\ Whole(f) => Whole(e)
<1> DEFINE e == Write(f, w, parts)
           s == Timed(w, parts)
           id == IdOf(f, w)
<1>1. Typed(f) /\ f.list \in Seq(Segment)
  BY DEF Consistent, Typed
<1>2. \/ Same(f, e)
      \/ /\ Taken(f, e, w)
         /\ AtEnd(f, e, s, id) \/ AtFront(f, e, s, id) \/ Within(f, e, s)
  BY <1>1, WriteIs
<1>3. /\ s.w = w /\ s.end = End(w) /\ s.dur \in Nat
      /\ s.ts \in Int /\ Start(w) <= s.ts /\ s.ts < End(w)
      /\ Tolerance >= Length - 1 => s.ts = Start(w)
  BY TimedIs
<1>4. id \in Nat
  <2>1. Start(w) \in Int
    BY WindowsAre, WindowsNumbered
  <2> QED
    BY <1>1, <2>1 DEF IdOf, Numbered, Typed
<1>5. \A x \in ToSet(f.list) : /\ x \in Segment /\ x.w \in Nat /\ x.ts \in Int /\ x.end \in Int /\ x.dseq \in Int
                               /\ x.w \in f.spent /\ x.end = End(x.w) /\ Start(x.w) <= x.ts /\ x.ts < x.end
                               /\ (Tolerance >= Length - 1 => x.ts = Start(x.w))
  BY <1>1, Ends, OfSegment DEF Consistent
<1>6. f.list # <<>> => /\ f.list[1] \in ToSet(f.list) /\ f.list[Len(f.list)] \in ToSet(f.list)
                       /\ Head(f.list) = f.list[1] /\ Last(f.list) = f.list[Len(f.list)]
  BY <1>1, Ends
<1>7. w \in Nat /\ w \in Window /\ Start(w) \in Int /\ End(w) \in Int
  BY WindowsNumbered, WindowsAre
<1>8. ASSUME NEW d \in Int, NEW p \in Int
      PROVE  LET l == Listed(s, id, d, p) IN
               /\ l \in Segment /\ l.w = w /\ l.ts = s.ts /\ l.end = s.end /\ l.dseq = d
               /\ l.end = End(l.w) /\ Start(l.w) <= l.ts /\ l.ts < l.end
  <2> HIDE DEF s, id
  <2> QED
    BY <1>3, <1>4, <1>7 DEF Listed, Segment
<1> HIDE DEF s, id, e
<1>9. CASE Same(f, e)
  <2>1. Typed(e)
    BY <1>1, <1>9 DEF Same, Typed
  <2>2. Consistent(e)
    BY <1>9, <2>1 DEF Same, Consistent
  <2>3. Whole(f) => Whole(e)
    BY <1>9 DEF Same, Whole
  <2> QED
    BY <1>9, <2>2, <2>3 DEF Same, e
<1>10. CASE Taken(f, e, w) /\ AtEnd(f, e, s, id)
  <2> DEFINE d == IF f.list = <<>> \/ s.ts = Last(f.list).end THEN f.dseq ELSE f.dseq + 1
             l == Listed(s, id, d, f.pts)
  <2>1. d \in Int /\ f.pts \in Int
    BY <1>1 DEF Typed
  <2>2. /\ l \in Segment /\ l.w = w /\ l.ts = s.ts /\ l.end = s.end /\ l.dseq = d
        /\ l.end = End(l.w) /\ Start(l.w) <= l.ts /\ l.ts < l.end
    BY <1>8, <2>1
  <2>3. /\ f.list = <<>> \/ s.ts > Last(f.list).ts
        /\ e.dseq = d /\ e.dseqR = f.dseqR /\ e.pts = Rolled(f.pts + s.dur)
        /\ e.list = Append(f.list, l)
    BY <1>10 DEF AtEnd
  <2>4. ASSUME f.list # <<>>
        PROVE  <<f.list[Len(f.list)], l>> \in Gapped /\ f.list[Len(f.list)].w < l.w
    <3> DEFINE x == f.list[Len(f.list)]
    <3>1. /\ x \in Segment /\ x.w \in Nat /\ x.ts \in Int /\ x.dseq = f.dseq /\ x.w \in f.spent
          /\ x.end = End(x.w) /\ Start(x.w) <= x.ts /\ x.ts < x.end /\ x = Last(f.list)
      BY <1>5, <1>6, <2>4 DEF Consistent
    <3>2. s.ts > x.ts /\ x.w # w
      BY <1>10, <2>3, <2>4, <3>1 DEF Taken
    <3> HIDE DEF x
    <3>3. l.dseq = x.dseq + (IF l.ts = x.end THEN 0 ELSE 1)
      <4>1. d = IF s.ts = x.end THEN f.dseq ELSE f.dseq + 1
        BY <2>4, <3>1
      <4> HIDE DEF d, l
      <4>2. f.dseq \in Int
        BY <1>1 DEF Typed
      <4> QED
        BY <2>2, <3>1, <4>1, <4>2
    <3> HIDE DEF l, d
    <3>4. <<x, l>> \in Gapped
      BY <2>2, <3>1, <3>3 DEF Gapped
    <3>5. x.w < w
      <4>1. CASE w < x.w
        <5>1. End(w) <= Start(x.w) /\ Start(x.w) \in Int
          BY <1>7, <3>1, <4>1, WindowsApart, WindowsAre
        <5> QED
          BY <1>3, <1>7, <3>1, <3>2, <5>1
      <4> QED
        BY <1>7, <3>1, <3>2, <4>1
    <3> QED
      BY <2>2, <3>4, <3>5 DEF x
  <2> HIDE DEF d, l
  <2>5. /\ e.list \in Seq(Segment) /\ Neighbours(e.list, Gapped) /\ InOrderOfTime(e.list)
        /\ e.list # <<>> /\ e.list[Len(e.list)] = l
        /\ e.list[1] = (IF f.list = <<>> THEN l ELSE f.list[1])
        /\ ToSet(e.list) = ToSet(f.list) \cup {l}
    BY <1>1, <2>2, <2>3, <2>4, Appended DEF Consistent
  <2>6. Typed(e)
    <3>1. e.pts \in Int
      BY <1>3, <2>1, <2>3, SegmenterAssumption DEF Rolled
    <3>2. e.dseqR \in Int
      BY <1>1, <2>3 DEF Typed
    <3> QED
      BY <1>1, <1>10, <2>1, <2>3, <2>5, <3>1, <3>2, TakenIsTyped
  <2>7. Consistent(e)
    <3>1. \A x \in ToSet(e.list) :
            /\ x.w \in e.spent /\ x.end = End(x.w) /\ Start(x.w) <= x.ts /\ x.ts < x.end
            /\ Tolerance >= Length - 1 => x.ts = Start(x.w)
      BY <1>3, <1>5, <1>10, <2>2, <2>5 DEF Taken
    <3> QED
      BY <2>2, <2>3, <2>5, <2>6, <3>1 DEF Consistent
  <2>8. ASSUME Whole(f) PROVE Whole(e)
    BY <2>2, <2>3, <2>5, <2>8 DEF Whole, d
  <2> QED
    BY <1>10, <2>2, <2>5, <2>7, <2>8 DEF Taken, e
<1>11. CASE Taken(f, e, w) /\ AtFront(f, e, s, id)
  <2> DEFINE h == f.list[1]
             d == IF s.end = Head(f.list).ts THEN f.dseqR ELSE f.dseqR - 1
  <2>1. PICK p \in Int : e.list = <<Listed(s, id, d, p)>> \o f.list
    BY <1>11 DEF AtFront
  <2> DEFINE l == Listed(s, id, d, p)
  <2>2. d \in Int /\ f.dseqR \in Int
    BY <1>1 DEF Typed
  <2>3. /\ l \in Segment /\ l.w = w /\ l.ts = s.ts /\ l.end = s.end /\ l.dseq = d
        /\ l.end = End(l.w) /\ Start(l.w) <= l.ts /\ l.ts < l.end
    BY <1>8, <2>2
  <2>4. /\ f.list # <<>> /\ s.ts < h.ts
        /\ e.dseq = f.dseq /\ e.dseqR = d /\ e.pts = f.pts
        /\ e.list = <<l>> \o f.list
    BY <1>6, <1>11, <2>1 DEF AtFront
  <2>5. /\ h \in Segment /\ h.w \in Nat /\ h.ts \in Int /\ h.dseq \in Int /\ h.w \in f.spent
        /\ h.end = End(h.w) /\ Start(h.w) <= h.ts /\ h.ts < h.end /\ h = Head(f.list)
    BY <1>5, <1>6, <2>4
  <2> HIDE DEF h, l
  <2>6. h.w # w
    BY <1>11, <2>5 DEF Taken
  <2>7. w < h.w
    <3>1. CASE h.w < w
      <4>1. End(h.w) <= Start(w) /\ End(h.w) \in Int
        BY <1>7, <2>5, <3>1, WindowsApart, WindowsAre
      <4> QED
        BY <1>3, <1>7, <2>4, <2>5, <4>1
    <3> QED
      BY <1>7, <2>5, <2>6, <3>1
  <2>8. Whole(f)
    <3>1. Numbered(f, w)
      <4> SUFFICES ASSUME ~Numbered(f, w) PROVE FALSE
        OBVIOUS
      <4> DEFINE x == f.list[Len(f.list)]
      <4>1. Start(w) > x.ts
        BY <1>6, <1>11, <2>4 DEF Taken, After
      <4>2. x.w \in Nat /\ h.w <= x.w /\ Start(x.w) <= x.ts /\ x.ts \in Int
        <5>1. x \in ToSet(f.list)
          BY <1>6, <2>4
        <5>2. h.w <= x.w
          <6>1. Len(f.list) \in Nat /\ Len(f.list) > 0
            BY <1>1, <2>4, Ends
          <6>2. x.w \in Nat
            BY <1>5, <5>1
          <6>3. CASE Len(f.list) = 1
            <7>1. x = h
              BY <6>3 DEF h
            <7> HIDE DEF x
            <7> QED
              BY <2>5, <7>1
          <6>4. CASE 1 < Len(f.list)
            <7>1. h.w < x.w
              BY <6>1, <6>4 DEF Consistent, InOrderOfTime, h
            <7> HIDE DEF x
            <7> QED
              BY <2>5, <6>2, <7>1
          <6> HIDE DEF x
          <6>5. Len(f.list) = 1 \/ 1 < Len(f.list)
            <7> DEFINE k == Len(f.list)
            <7>1. k \in Nat /\ k > 0
              BY <6>1
            <7> HIDE DEF k
            <7>2. k = 1 \/ 1 < k
              BY <7>1
            <7> QED
              BY <7>2 DEF k
          <6> QED
            BY <6>3, <6>4, <6>5
        <5> HIDE DEF x
        <5> QED
          BY <1>5, <5>1, <5>2
      <4> HIDE DEF x
      <4>3. w < x.w
        BY <1>7, <2>5, <2>7, <4>2
      <4>4. End(w) <= Start(x.w) /\ Start(x.w) \in Int /\ Start(w) < End(w)
        BY <1>7, <4>2, <4>3, WindowsApart, WindowsAre
      <4> QED
        BY <1>7, <4>1, <4>2, <4>4
    <3>2. ~BelowMin(f, w) /\ w \notin f.spent
      BY <1>11, <3>1 DEF Taken
    <3> QED
      BY <2>4, <2>7, <3>1, <3>2 DEF Fitting, h
  <2>9. <<l, h>> \in Gapped
    <3>1. h.dseq = f.dseqR
      BY <2>4, <2>8 DEF Whole, h
    <3>2. d = IF s.end = h.ts THEN f.dseqR ELSE f.dseqR - 1
      BY <2>5
    <3> HIDE DEF d
    <3>3. h.dseq = l.dseq + (IF h.ts = l.end THEN 0 ELSE 1)
      <4>1. l.end = s.end /\ l.dseq = d
        BY <2>3
      <4>2. CASE h.ts = s.end
        BY <2>2, <3>1, <3>2, <4>1, <4>2
      <4>3. CASE h.ts # s.end
        <5>1. d = f.dseqR - 1
          BY <3>2, <4>3
        <5>2. f.dseqR = (f.dseqR - 1) + 1
          BY <2>2
        <5> QED
          BY <3>1, <4>1, <4>3, <5>1, <5>2
      <4> QED
        BY <4>2, <4>3
    <3> QED
      BY <2>3, <2>5, <3>3 DEF Gapped
  <2> HIDE DEF d
  <2>10. /\ e.list \in Seq(Segment) /\ Neighbours(e.list, Gapped) /\ InOrderOfTime(e.list)
         /\ e.list # <<>> /\ e.list[Len(e.list)] = f.list[Len(f.list)] /\ e.list[1] = l
         /\ ToSet(e.list) = ToSet(f.list) \cup {l}
    BY <1>1, <2>3, <2>4, <2>7, <2>9, Prepended DEF Consistent, h
  <2>11. Typed(e)
    <3>1. e.pts \in Int /\ e.dseq \in Int
      BY <1>1, <2>4 DEF Typed
    <3> QED
      BY <1>1, <1>11, <2>2, <2>4, <2>10, <3>1, TakenIsTyped
  <2>12. Consistent(e)
    <3>1. \A x \in ToSet(e.list) :
            /\ x.w \in e.spent /\ x.end = End(x.w) /\ Start(x.w) <= x.ts /\ x.ts < x.end
            /\ Tolerance >= Length - 1 => x.ts = Start(x.w)
      BY <1>3, <1>5, <1>11, <2>3, <2>10 DEF Taken
    <3> QED
      BY <2>4, <2>10, <2>11, <3>1 DEF Consistent
  <2>13. Whole(e)
    BY <2>3, <2>4, <2>10 DEF Whole
  <2> QED
    BY <1>11, <2>3, <2>10, <2>12, <2>13 DEF Taken, e
<1>12. CASE Taken(f, e, w) /\ Within(f, e, s)
  <2>1. e.list = f.list /\ e.dseq = f.dseq /\ e.dseqR = f.dseqR /\ e.pts = f.pts
    BY <1>12 DEF Within
  <2>2. Typed(e)
    BY <1>1, <1>12, <2>1, TakenIsTyped DEF Typed
  <2>3. \A x \in ToSet(e.list) :
          x.w \in e.spent /\ x.end = End(x.w) /\ Start(x.w) <= x.ts /\ x.ts < x.end
    BY <1>5, <1>12, <2>1 DEF Taken
  <2>4. Consistent(e)
    BY <2>1, <2>2, <2>3 DEF Consistent
  <2> QED
    BY <1>12, <2>1, <2>4 DEF Taken, Whole, e
<1> QED
  BY <1>2, <1>9, <1>10, <1>11, <1>12

\* Nothing is written,
LEMMA NoneWritten ==
    ASSUME NEW f, NEW held
    PROVE  WriteAll(f, <<>>, held) = f
<1> DEFINE q == <<>>
<1>1. Len(q) \in Nat /\ Len(q) = 0
  OBVIOUS
<1> HIDE DEF q
<1>2. WriteAll(f, q, held) = f
  <2>1. PICK g : InTurn(g, f, q, held)
    BY <1>1, WritesInTurn
  <2> QED
    BY <1>1, <2>1 DEF InTurn
<1> QED
  BY <1>2 DEF q

\* or one segment,
LEMMA OneWritten ==
    ASSUME NEW f, NEW w, NEW held
    PROVE  WriteAll(f, <<w>>, held) = Write(f, w, held[w])
<1> DEFINE q == <<w>>
<1>1. Len(q) \in Nat /\ Len(q) = 1 /\ q[1] = w
  OBVIOUS
<1> HIDE DEF q
<1>2. PICK g : InTurn(g, f, q, held)
  BY <1>1, WritesInTurn
<1>3. g[1] = Write(g[1 - 1], q[1], held[q[1]]) /\ WriteAll(f, q, held) = g[1] /\ g[0] = f
  BY <1>1, <1>2 DEF InTurn
<1>4. 1 - 1 = 0
  OBVIOUS
<1>5. WriteAll(f, q, held) = Write(f, w, held[w])
  BY <1>1, <1>2, <1>3, <1>4
<1> QED
  BY <1>5 DEF q

\* or two.
LEMMA TwoWritten ==
    ASSUME NEW f, NEW v, NEW w, NEW held
    PROVE  WriteAll(f, <<v, w>>, held) = Write(Write(f, v, held[v]), w, held[w])
<1> DEFINE q == <<v, w>>
<1>1. Len(q) \in Nat /\ Len(q) = 2 /\ q[1] = v /\ q[2] = w
  OBVIOUS
<1> HIDE DEF q
<1>2. PICK g : InTurn(g, f, q, held)
  BY <1>1, WritesInTurn
<1>3. /\ g[1] = Write(g[1 - 1], q[1], held[q[1]]) /\ g[2] = Write(g[2 - 1], q[2], held[q[2]])
      /\ WriteAll(f, q, held) = g[2] /\ g[0] = f
  BY <1>1, <1>2 DEF InTurn
<1>4. 1 - 1 = 0 /\ 2 - 1 = 1
  OBVIOUS
<1>5. WriteAll(f, q, held) = Write(Write(f, v, held[v]), w, held[w])
  BY <1>1, <1>2, <1>3, <1>4
<1> QED
  BY <1>5 DEF q

\* Without a map nothing is put at the front, however much is written; and while nothing was
\* removed the sequence kept for the front stays that of the front.
LEMMA WrittenFits ==
    ASSUME NEW f, Consistent(f), f.map = NoMap \/ Whole(f), NEW pushed \in Seq(Window), NEW held,
           \A i \in 1 .. Len(pushed) : AudioOf(pushed[i], held[pushed[i]])
    PROVE  LET e == WriteAll(f, pushed, held) IN
             /\ Consistent(e) /\ e.map = f.map /\ e.min = f.min /\ (e.map = NoMap \/ Whole(e))
             /\ \A s \in ToSet(e.list) :
                   s \in ToSet(f.list) \/ \E i \in 1 .. Len(pushed) : s.w = pushed[i]
<1>1. Len(pushed) \in Nat /\ \A i \in 1 .. Len(pushed) : pushed[i] \in Window
  OBVIOUS
<1>2. PICK g : InTurn(g, f, pushed, held)
  BY <1>1, WritesInTurn
<1> DEFINE N == Len(pushed)
           Fine(n) == /\ Consistent(g[n]) /\ g[n].map = f.map /\ g[n].min = f.min
                      /\ f.map = NoMap \/ Whole(g[n])
                      /\ \A s \in ToSet(g[n].list) :
                           s \in ToSet(f.list) \/ \E i \in 1 .. N : s.w = pushed[i]
           S == {n \in 0 .. N : ~Fine(n)}
<1>3. ASSUME NEW n \in 1 .. N, Fine(n - 1) PROVE Fine(n)
  <2>1. g[n] = Write(g[n - 1], pushed[n], held[pushed[n]])
    BY <1>2 DEF InTurn
  <2>2. pushed[n] \in Window /\ AudioOf(pushed[n], held[pushed[n]])
    BY <1>1
  <2>3. Fitting(g[n - 1], pushed[n])
    <3>1. f.map = NoMap => ~Numbered(g[n - 1], pushed[n])
      BY <1>3 DEF Numbered, NoMap
    <3> QED
      BY <1>3, <3>1 DEF Fitting
  <2>4. /\ Consistent(g[n]) /\ g[n].map = g[n - 1].map /\ g[n].min = g[n - 1].min
        /\ \A s \in ToSet(g[n].list) : s \in ToSet(g[n - 1].list) \/ s.w = pushed[n]
        /\ Whole(g[n - 1]) => Whole(g[n])
    BY <1>3, <2>1, <2>2, <2>3, WriteConsistent
  <2> QED
    BY <1>3, <2>4
<1>4. Fine(0)
  BY <1>2 DEF InTurn
<1> HIDE DEF Fine
<1>5. S = {}
  <2> SUFFICES ASSUME S # {} PROVE FALSE
    OBVIOUS
  <2>1. S \in SUBSET Nat
    OBVIOUS
  <2>2. PICK n \in S : \A m \in S : n <= m
    <3> HIDE DEF S
    <3> QED
      BY <2>1, LeastIs
  <2>3. n \in 0 .. N /\ ~Fine(n)
    OBVIOUS
  <2>4. n \in 1 .. N /\ n - 1 \in 0 .. N /\ n - 1 \notin S
    BY <1>1, <1>4, <2>2, <2>3
  <2> QED
    BY <1>3, <2>3, <2>4
<1>6. Fine(N)
  <2>1. N \in 0 .. N
    BY <1>1
  <2> QED
    BY <1>5, <2>1
<1> QED
  BY <1>2, <1>6 DEF Fine, InTurn

\* Only the list and the minimum may differ.
Kept(f, e) ==
    /\ Fields(e) /\ e.seq = f.seq /\ e.dseq = f.dseq /\ e.dseqR = f.dseqR /\ e.pts = f.pts
    /\ e.map = f.map /\ e.spent = f.spent /\ e.failed = f.failed

\* What begins at ts or before is gone, and nothing else.
LEMMA ExpireIs ==
    ASSUME NEW f, Consistent(f), NEW ts \in Int
    PROVE  LET e == Expire(f, ts) IN
             /\ Consistent(e) /\ Kept(f, e) /\ e.min = f.min
             /\ \A s : s \in ToSet(e.list) <=> s \in ToSet(f.list) /\ s.ts > ts
             /\ f.list = <<>> \/ f.list[1].ts > ts => e = f
             /\ e.list # <<>> => f.list # <<>> /\ e.list[Len(e.list)] = f.list[Len(f.list)]
<1> DEFINE q == f.list
           S == Expired(q, ts)
           Past == {i \in 1 .. Len(q) + 1 : i \notin S}
           e == Expire(f, ts)
<1>1. Fields(f) /\ q \in Seq(Segment) /\ Len(q) \in Nat
  BY Ends DEF Consistent, Typed
<1>2. \A i \in 1 .. Len(q) : /\ q[i] \in Segment /\ q[i] \in ToSet(q) /\ q[i].ts \in Int /\ q[i].w \in Nat
                             /\ Start(q[i].w) <= q[i].ts /\ q[i].ts < End(q[i].w)
  <2>1. \A i \in 1 .. Len(q) : q[i] \in Segment /\ q[i] \in ToSet(q)
    BY <1>1, Ends
  <2> QED
    BY <2>1, OfSegment DEF Consistent
<1>3. \A i, j \in 1 .. Len(q) : i < j => q[i].ts < q[j].ts
  <2> SUFFICES ASSUME NEW i \in 1 .. Len(q), NEW j \in 1 .. Len(q), i < j PROVE q[i].ts < q[j].ts
    OBVIOUS
  <2>1. q[i].w < q[j].w
    BY DEF Consistent, InOrderOfTime
  <2>2. /\ q[i].w \in Int /\ q[j].w \in Int /\ q[i].ts \in Int /\ q[j].ts \in Int
        /\ q[i].ts < End(q[i].w) /\ Start(q[j].w) <= q[j].ts
    BY <1>2
  <2>3. End(q[i].w) <= Start(q[j].w) /\ End(q[i].w) \in Int /\ Start(q[j].w) \in Int
    BY <2>1, <2>2, WindowsApart, WindowsAre
  <2> QED
    BY <2>2, <2>3
<1>4. \A i \in 1 .. Len(q) : i \in S <=> q[i].ts <= ts
  <2> SUFFICES ASSUME NEW i \in 1 .. Len(q) PROVE i \in S <=> q[i].ts <= ts
    OBVIOUS
  <2>1. ASSUME q[i].ts <= ts, NEW j \in 1 .. i PROVE q[j].ts <= ts
    <3>1. j \in 1 .. Len(q) /\ (j = i \/ j < i)
      BY <1>1
    <3>2. j < i => q[j].ts < q[i].ts
      BY <1>3, <3>1
    <3>3. q[j].ts \in Int /\ q[i].ts \in Int
      BY <1>2, <3>1
    <3> QED
      BY <2>1, <3>1, <3>2, <3>3
  <2>2. i \in 1 .. i
    BY <1>1
  <2> QED
    BY <2>1, <2>2 DEF Expired
<1>5. PICK k \in Past : \A m \in Past : k <= m
  <2>1. Past \in SUBSET Nat
    BY <1>1
  <2>2. Len(q) + 1 \in Past
    BY <1>1 DEF Expired
  <2> HIDE DEF Past
  <2> QED
    BY <2>1, <2>2, LeastIs
<1>6. k \in 1 .. Len(q) + 1 /\ k \notin S /\ \A i \in 1 .. k - 1 : i \in S
  BY <1>1, <1>5
<1>7. S = 1 .. k - 1
  <2>1. ASSUME NEW i \in S PROVE i \in 1 .. k - 1
    <3>1. i \in 1 .. Len(q)
      BY DEF Expired
    <3>2. CASE k <= i
      <4>1. k \in 1 .. Len(q) /\ q[i].ts <= ts /\ ~(q[k].ts <= ts) /\ (k = i \/ k < i)
        BY <1>1, <1>4, <1>6, <3>1, <3>2
      <4>2. k < i => q[k].ts < q[i].ts
        BY <1>3, <3>1, <4>1
      <4>3. q[k].ts \in Int /\ q[i].ts \in Int
        BY <1>2, <3>1, <4>1
      <4> QED
        BY <4>1, <4>2, <4>3
    <3> QED
      BY <1>1, <1>6, <3>1, <3>2
  <2> QED
    BY <1>6, <2>1
<1> HIDE DEF S, Past
<1> DEFINE n == k - 1
           r == SubSeq(q, n + 1, Len(q))
<1>8. n \in Nat /\ Cardinality(S) = n
  <2>1. n \in Nat /\ 1 \in Int
    BY <1>1, <1>6
  <2>2. Cardinality(1 .. n) = n
    BY <2>1, FS_Interval
  <2> QED
    BY <1>7, <2>1, <2>2
<1>9. e = [f EXCEPT !.list = r]
  <2>1. e = [f EXCEPT !.list = SubSeq(f.list, Cardinality(Expired(f.list, ts)) + 1, Len(f.list))]
    BY DEF Expire
  <2> QED
    BY <1>8, <2>1 DEF S
<1>10. /\ r \in Seq(Segment) /\ Neighbours(r, Gapped) /\ InOrderOfTime(r)
       /\ r # <<>> => q # <<>> /\ r[Len(r)] = q[Len(q)]
       /\ ToSet(r) = {q[i] : i \in n + 1 .. Len(q)}
  BY <1>1, <1>8, Shortened DEF Consistent
<1>11. r = q \/ n # 0
  <2> SUFFICES ASSUME n = 0 PROVE r = q
    OBVIOUS
  <2>1. r = SubSeq(q, 1, Len(q))
    OBVIOUS
  <2> HIDE DEF r
  <2>2. SubSeq(q, 1, Len(q)) = q
    <3> DEFINE V == Segment
    <3> HIDE DEF V
    <3>1. q \in Seq(V)
      BY <1>1 DEF V
    <3> HIDE DEF q
    <3> QED
      BY <3>1
  <2> QED
    BY <2>1, <2>2
<1> HIDE DEF r, e
<1>12. Kept(f, e) /\ e.min = f.min /\ e.list = r
  BY <1>1, <1>9 DEF Fields, Kept
<1>13. \A s : s \in ToSet(r) <=> s \in ToSet(q) /\ s.ts > ts
  <2>1. \A s : s \in ToSet(q) <=> \E i \in 1 .. Len(q) : q[i] = s
    <3>1. ToSet(q) = {q[i] : i \in 1 .. Len(q)}
      BY <1>1, Ends
    <3> QED
      BY <3>1, Zenon
  <2>2. \A s : s \in ToSet(r) <=> \E i \in n + 1 .. Len(q) : q[i] = s
    BY <1>10, Zenon
  <2>3. ASSUME NEW i \in 1 .. Len(q) PROVE i \in n + 1 .. Len(q) <=> q[i].ts > ts
    <3>1. i \in S <=> i < k
      BY <1>1, <1>6, <1>7
    <3>2. q[i].ts \in Int /\ (i \in S <=> q[i].ts <= ts)
      BY <1>2, <1>4
    <3>3. i \in n + 1 .. Len(q) <=> ~(i < k)
      BY <1>1, <1>6
    <3> QED
      BY <3>1, <3>2, <3>3
  <2>4. \A i \in n + 1 .. Len(q) : i \in 1 .. Len(q)
    BY <1>1, <1>8
  <2> QED
    BY <2>1, <2>2, <2>3, <2>4
<1>14. f.list = <<>> \/ f.list[1].ts > ts => e = f
  <2> SUFFICES ASSUME f.list = <<>> \/ f.list[1].ts > ts PROVE e = f
    OBVIOUS
  <2>1. n = 0
    <3>1. CASE f.list = <<>>
      <4>1. Len(q) = 0
        BY <3>1, <1>1, Ends
      <4> QED
        BY <1>1, <1>6, <4>1
    <3>2. CASE f.list # <<>> /\ f.list[1].ts > ts
      <4>1. 1 \in 1 .. Len(q) /\ q[1].ts \in Int
        BY <1>1, <1>2, <3>2, Ends
      <4>2. 1 \notin S
        BY <1>4, <3>2, <4>1
      <4> QED
        BY <1>1, <1>6, <4>2
    <3> QED
      BY <3>1, <3>2
  <2>2. e = [f EXCEPT !.list = f.list]
    BY <1>9, <1>11, <2>1
  <2> QED
    BY <1>1, <2>2 DEF Fields
<1>15. Typed(e)
  BY <1>10, <1>12 DEF Typed, Consistent, Kept
<1>16. Consistent(e)
  BY <1>10, <1>12, <1>13, <1>15 DEF Consistent, Kept
<1> QED
  BY <1>10, <1>12, <1>13, <1>14, <1>16 DEF e

\* The minimum only goes up.
MinGrows(f, e) == e.min = f.min \/ (e.min \in Int /\ (f.min = Unset \/ e.min > f.min))

\* The minimum moves.
LEMMA MinMoved ==
    ASSUME NEW f, Consistent(f), NEW m \in Int, f.min = Unset \/ m > f.min
    PROVE  LET e == [f EXCEPT !.min = m] IN
             Consistent(e) /\ Kept(f, e) /\ MinGrows(f, e) /\ e.list = f.list /\ e.min = m
<1> DEFINE e == [f EXCEPT !.min = m]
<1>1. Fields(f)
  BY DEF Consistent, Typed
<1>2. Kept(f, e) /\ e.list = f.list /\ e.min = m
  BY <1>1 DEF Fields, Kept
<1> HIDE DEF e
<1>3. Typed(e)
  BY <1>2 DEF Consistent, Typed, Kept
<1>4. Consistent(e)
  BY <1>2, <1>3 DEF Consistent, Kept
<1> QED
  BY <1>2, <1>4 DEF MinGrows, e

\* It follows the first segment of the list.
LEMMA SyncedIs ==
    ASSUME NEW f, Consistent(f), NEW removed
    PROVE  LET e == Synced(f, removed) IN
             /\ Consistent(e) /\ Kept(f, e) /\ MinGrows(f, e) /\ e.list = f.list
             /\ removed \/ e = f
<1> DEFINE e == Synced(f, removed)
           h == Head(f.list).ts
<1>1. CASE e = f
  BY <1>1 DEF Kept, MinGrows, Consistent, Typed
<1>2. CASE removed /\ f.list # <<>> /\ (f.min = Unset \/ h > f.min) /\ e = [f EXCEPT !.min = h]
  <2>1. h \in Int
    BY <1>2, Ends, OfSegment DEF Consistent, Typed
  <2> DEFINE x == [f EXCEPT !.min = h]
  <2> HIDE DEF h
  <2>2. Consistent(x) /\ Kept(f, x) /\ MinGrows(f, x) /\ x.list = f.list
    BY <1>2, <2>1, MinMoved
  <2>3. e = x
    BY <1>2
  <2> HIDE DEF x, e
  <2>4. Consistent(e) /\ Kept(f, e) /\ MinGrows(f, e) /\ e.list = f.list
    BY <2>2, <2>3
  <2> QED
    BY <1>2, <2>4 DEF e
<1>3. \/ e = f
      \/ removed /\ f.list # <<>> /\ (f.min = Unset \/ h > f.min) /\ e = [f EXCEPT !.min = h]
  BY DEF Synced
<1> QED
  BY <1>1, <1>2, <1>3

\* A failure changes nothing else.
LEMMA FailedIs ==
    ASSUME NEW f, Consistent(f)
    PROVE  LET e == [f EXCEPT !.failed = TRUE] IN Consistent(e) /\ Same(f, e)
<1> DEFINE e == [f EXCEPT !.failed = TRUE]
<1>1. Fields(f)
  BY DEF Consistent, Typed
<1>2. e = [f EXCEPT !.failed = TRUE]
  OBVIOUS
<1> HIDE DEF e
<1>3. Same(f, e)
  BY <1>1, <1>2 DEF Fields, Same
<1>4. Typed(e)
  BY <1>3 DEF Consistent, Typed, Same
<1>5. Consistent(e)
  BY <1>4, <1>3 DEF Consistent, Same
<1> QED
  BY <1>5, <1>3 DEF e

-----------------------------------------------------------------------------
(* where chunks and segments are *)

\* The chunks in segments are finitely many, all in the past and in their windows.
LEMMA AllIsFinite ==
    ASSUME SegmenterInv, Placed
    PROVE  IsFiniteSet(All) /\ All \subseteq Nat /\ \A a \in All : a < now /\ a \in audio[Of(a)] /\ Of(a) \in Window
<1>1. \A a \in All : a \in Nat /\ a < now /\ a \in audio[Of(a)] /\ Of(a) \in Window
  <2> SUFFICES ASSUME NEW a \in All
               PROVE  a \in Nat /\ a < now /\ a \in audio[Of(a)] /\ Of(a) \in Window
    OBVIOUS
  <2>1. PICK w \in Window : a \in audio[w]
    BY DEF All
  <2> QED
    BY <2>1 DEF Placed
<1>2. now \in Nat
  BY DEF SegmenterInv
<1>3. All \subseteq 0 .. now
  BY <1>1, <1>2
<1>4. IsFiniteSet(0 .. now)
  BY <1>2, FS_Interval
<1> QED
  BY <1>1, <1>3, <1>4, FS_Subset

\* What a segment holds is audio of its window.
LEMMA HeldIs ==
    ASSUME SegmenterInv, Placed, NEW w \in Window, audio[w] # {}
    PROVE  AudioOf(w, audio[w])
BY DEF SegmenterInv, Placed, AudioOf

\* What a live chunk does to the injector's segments
LEMMA LiveIs ==
    ASSUME SegmenterInv, Placed
    PROVE  LET in == Injected(now)
               w == Of(now)
           IN  /\ in.last = w
               /\ last # Unset => last <= w
               /\ \/ last = Unset /\ in.first = Unset /\ in.push = <<>>
                  \/ last # Unset /\ w = last /\ in.first = first /\ in.push = <<>>
                  \/ last # Unset /\ last < w /\ first = Unset /\ in.first = last /\ in.push = <<>>
                  \/ last # Unset /\ last < w /\ first # Unset /\ in.first = first /\ in.push = <<last>>
<1> DEFINE in == Injected(now)
           w == Of(now)
<1>1. now \in Nat /\ w \in Nat
  BY WindowOf DEF SegmenterInv
<1>2. ASSUME last # Unset PROVE last \in Nat /\ last <= w
  <2>1. last \in Window /\ audio[last] # {}
    BY <1>2 DEF SegmenterInv, Placed
  <2>2. PICK a \in audio[last] : TRUE
    BY <2>1
  <2>3. a \in Nat /\ Of(a) = last /\ a < now
    BY <2>1, <2>2 DEF Placed
  <2>4. a <= now
    BY <1>1, <2>3
  <2>5. Of(a) <= Of(now)
    BY <1>1, <2>3, <2>4, OfGrows
  <2> QED
    BY <2>1, <2>3, <2>5, WindowsNumbered
<1>3. ASSUME first # Unset PROVE first \in Nat /\ last # Unset /\ first < last
  BY <1>3, WindowsNumbered DEF SegmenterInv, Placed
<1> HIDE DEF w
<1>4. in = CASE w \in {first, last} -> [first |-> first, last |-> last, push |-> <<>>]
            [] last = Unset -> [first |-> Unset, last |-> w, push |-> <<>>]
            [] last # Unset /\ w > last ->
                  IF first = Unset THEN [first |-> last, last |-> w, push |-> <<>>]
                  ELSE [first |-> first, last |-> w, push |-> <<last>>]
            [] OTHER -> [first |-> w, last |-> last, push |-> IF first = Unset THEN <<>> ELSE <<first>>]
  BY DEF Injected, w
<1>5. Unset \notin Nat
  BY SegmenterAssumption
<1> HIDE DEF in
<1>6. CASE last = Unset
  <2>1. first = Unset /\ w # Unset
    BY <1>1, <1>3, <1>5, <1>6
  <2> QED
    BY <1>4, <1>6, <2>1 DEF in, w
<1>7. CASE last # Unset /\ w = last
  <2>1. in = [first |-> first, last |-> last, push |-> <<>>]
    <3>1. w \in {first, last} /\ ~(w > last)
      BY <1>1, <1>2, <1>7
    <3> QED
      BY <1>4, <1>7, <3>1
  <2> QED
    BY <1>2, <1>7, <2>1 DEF in, w
<1>8. CASE last # Unset /\ last < w
  <2>1. w \notin {first, last} /\ w > last
    BY <1>1, <1>2, <1>3, <1>5, <1>8
  <2>2. in = IF first = Unset THEN [first |-> last, last |-> w, push |-> <<>>]
             ELSE [first |-> first, last |-> w, push |-> <<last>>]
    BY <1>4, <1>8, <2>1
  <2> QED
    BY <1>2, <1>8, <2>2 DEF in, w
<1> QED
  BY <1>1, <1>2, <1>6, <1>7, <1>8 DEF w

\* and what a loaded one does
LEMMA LoadedIs ==
    ASSUME SegmenterInv, Placed, NEW t \in Nat, \A a \in All : t < a
    PROVE  LET in == Injected(t)
               w == Of(t)
           IN  \/ last = Unset /\ first = Unset /\ in.first = Unset /\ in.last = w /\ in.push = <<>>
               \/ last # Unset /\ w = last /\ first = Unset /\ in.first = Unset /\ in.last = last /\ in.push = <<>>
               \/ first # Unset /\ w = first /\ in.first = first /\ in.last = last /\ in.push = <<>>
               \/ last # Unset /\ first = Unset /\ w < last /\ in.first = w /\ in.last = last /\ in.push = <<>>
               \/ first # Unset /\ w < first /\ in.first = w /\ in.last = last /\ in.push = <<first>>
<1> DEFINE in == Injected(t)
           w == Of(t)
<1>1. w \in Nat
  BY WindowOf
<1>2. ASSUME NEW v \in Window, audio[v] # {} PROVE v \in Nat /\ w <= v
  <2>1. PICK a \in audio[v] : TRUE
    BY <1>2
  <2>2. a \in Nat /\ Of(a) = v /\ a \in All
    BY <1>2, <2>1 DEF Placed, All
  <2>3. t <= a
    BY <2>2
  <2>4. Of(t) <= Of(a)
    BY <2>2, <2>3, OfGrows
  <2> QED
    BY <1>2, <2>2, <2>4, WindowsNumbered
<1>3. last # Unset => last \in Nat /\ w <= last
  BY <1>2 DEF SegmenterInv, Placed
<1>4. first # Unset => first \in Nat /\ w <= first /\ last # Unset /\ first < last
  BY <1>2 DEF SegmenterInv, Placed
<1> HIDE DEF w
<1>5. in = CASE w \in {first, last} -> [first |-> first, last |-> last, push |-> <<>>]
            [] last = Unset -> [first |-> Unset, last |-> w, push |-> <<>>]
            [] last # Unset /\ w > last ->
                  IF first = Unset THEN [first |-> last, last |-> w, push |-> <<>>]
                  ELSE [first |-> first, last |-> w, push |-> <<last>>]
            [] OTHER -> [first |-> w, last |-> last, push |-> IF first = Unset THEN <<>> ELSE <<first>>]
  BY DEF Injected, w
<1>6. Unset \notin Nat
  BY SegmenterAssumption
<1> HIDE DEF in
<1>7. CASE last = Unset
  <2>1. first = Unset /\ w # Unset
    BY <1>1, <1>4, <1>6, <1>7
  <2> QED
    BY <1>5, <1>7, <2>1 DEF in, w
<1>8. CASE last # Unset /\ first = Unset /\ w = last
  BY <1>5, <1>8 DEF in, w
<1>9. CASE first # Unset /\ w = first
  <2>1. in = [first |-> first, last |-> last, push |-> <<>>]
    <3>1. w \in {first, last} /\ last # Unset /\ ~(w > last)
      BY <1>1, <1>3, <1>4, <1>9
    <3> QED
      BY <1>5, <3>1
  <2> QED
    BY <1>9, <2>1 DEF in, w
<1>10. CASE last # Unset /\ first = Unset /\ w < last
  <2>1. w \notin {first, last} /\ ~(w > last)
    BY <1>1, <1>3, <1>6, <1>10
  <2>2. in = [first |-> w, last |-> last, push |-> <<>>]
    BY <1>5, <1>10, <2>1
  <2> QED
    BY <1>10, <2>2 DEF in, w
<1>11. CASE first # Unset /\ w < first
  <2>1. w \notin {first, last} /\ ~(w > last) /\ last # Unset
    BY <1>1, <1>3, <1>4, <1>6, <1>11
  <2>2. in = [first |-> w, last |-> last, push |-> <<first>>]
    BY <1>5, <1>11, <2>1
  <2> QED
    BY <1>11, <2>2 DEF in, w
<1>12. last # Unset /\ first = Unset => w = last \/ w < last
  BY <1>1, <1>3
<1>13. first # Unset => w = first \/ w < first
  BY <1>1, <1>4
<1> QED
  BY <1>7, <1>8, <1>9, <1>10, <1>11, <1>12, <1>13

\* With t taken in the buffer is beyond its limit, and m is its oldest chunk.
Oldest(m, t) ==
    /\ m \in chunks \cup {t} /\ \A c \in chunks \cup {t} : m <= c
    /\ Cardinality(chunks \cup {t}) > Capacity

\* What is written to the finalizer for t, and what the chunk that goes expires
LEMMA InsertIs ==
    ASSUME SegmenterInv, Cardinality(chunks) <= Capacity, NEW t \in Times, Insert(t)
    PROVE  /\ chunks' \subseteq chunks \cup {t} /\ Cardinality(chunks') <= Capacity
           /\ \/ chunks' = chunks /\ UNCHANGED segmenter
              \/ LET in == Injected(t)
                     f == WriteAll(fin, in.push, audio')
                 IN  /\ audio' = [audio EXCEPT ![Of(t)] = @ \cup {t}]
                     /\ first' = in.first /\ last' = in.last
                     /\ fin = Unset => fin' = fin /\ queue' = queue \o in.push
                     /\ fin # Unset =>
                          /\ queue' = queue
                          /\ \E g : /\ g = f \/ g = [f EXCEPT !.failed = TRUE]
                                    /\ \/ fin' = g
                                       \/ \E m : /\ Oldest(m, t) /\ m \in Nat
                                                 /\ fin' = Synced(Expire(g, m), Expire(g, m).list # g.list)
                     /\ \/ chunks' = chunks \cup {t}
                        \/ \E m : Oldest(m, t) /\ chunks' = (chunks \cup {t}) \ {m}
<1> DEFINE taken == chunks = {} \/ t > Max(chunks) \/ t < Min(chunks)
           all == IF taken THEN chunks \cup {t} ELSE chunks
           over == Cardinality(all) > Capacity
           in == Injected(t)
           held == [audio EXCEPT ![Of(t)] = @ \cup {t}]
           f == WriteAll(fin, in.push, held)
           g == IF Of(t) \in f.spent /\ Of(t) \in {first, last} THEN [f EXCEPT !.failed = TRUE] ELSE f
           e == IF over THEN Synced(Expire(g, Min(all)), Expire(g, Min(all)).list # g.list) ELSE g
<1>1. /\ chunks' = IF over THEN all \ {Min(all)} ELSE all
      /\ IF taken
         THEN /\ audio' = held
              /\ first' = in.first /\ last' = in.last
              /\ IF fin = Unset THEN queue' = queue \o in.push /\ UNCHANGED fin
                 ELSE fin' = e /\ UNCHANGED queue
         ELSE UNCHANGED segmenter
  BY DEF Insert
<1>2. /\ chunks \subseteq Nat /\ IsFiniteSet(chunks) /\ Cardinality(chunks) \in Nat
      /\ t \in Nat /\ Capacity \in Nat
  <2>1. MaxTime \in Nat /\ Capacity \in Nat
    BY SegmenterAssumption
  <2>2. IsFiniteSet(Times)
    BY <2>1, FS_Interval DEF Times
  <2>3. chunks \subseteq Times /\ Times \subseteq Nat
    BY DEF SegmenterInv, Times
  <2> QED
    BY <2>1, <2>2, <2>3, FS_Subset, FS_CardinalityType
<1> HIDE DEF taken
<1>3. CASE ~taken
  <2>1. all = chunks /\ UNCHANGED segmenter
    BY <1>1, <1>3
  <2>2. ~over
    BY <1>2, <2>1
  <2>3. chunks' = chunks
    BY <1>1, <2>1, <2>2
  <2> QED
    BY <2>1, <2>3
<1>4. CASE taken
  <2>1. all = chunks \cup {t}
    BY <1>4
  <2> HIDE DEF all
  <2>2. IsFiniteSet(all) /\ Cardinality(all) \in Nat /\ all \subseteq Nat /\ all # {}
    BY <1>2, <2>1, FS_AddElement, FS_CardinalityType
  <2>3. Min(all) \in all /\ \A c \in all : Min(all) <= c
    BY <2>2, MinIs
  <2>4. Cardinality(all) <= Cardinality(chunks) + 1
    <3>1. CASE t \in chunks
      <4>1. all = chunks
        BY <2>1, <3>1
      <4> QED
        BY <1>2, <4>1
    <3>2. CASE t \notin chunks
      BY <1>2, <2>1, <3>2, FS_AddElement
    <3> QED
      BY <3>1, <3>2
  <2>5. over => Oldest(Min(all), t) /\ Min(all) \in Nat
    BY <2>1, <2>2, <2>3 DEF Oldest
  <2>6. Cardinality(chunks') <= Capacity
    <3>1. CASE over
      <4>1. chunks' = all \ {Min(all)}
        BY <1>1, <3>1
      <4>2. Cardinality(all \ {Min(all)}) = Cardinality(all) - 1
        BY <2>2, <2>3, FS_RemoveElement
      <4> QED
        BY <1>2, <2>2, <2>4, <4>1, <4>2
    <3>2. CASE ~over
      <4>1. chunks' = all
        BY <1>1, <3>2
      <4> QED
        BY <1>2, <2>2, <3>2, <4>1
    <3> QED
      BY <3>1, <3>2
  <2>7. \/ chunks' = all
        \/ over /\ chunks' = all \ {Min(all)}
    BY <1>1
  <2> HIDE DEF over
  <2>8. /\ audio' = held /\ first' = in.first /\ last' = in.last
        /\ fin = Unset => queue' = queue \o in.push /\ fin' = fin
        /\ fin # Unset => fin' = e /\ queue' = queue
    BY <1>1, <1>4
  <2>9. g = f \/ g = [f EXCEPT !.failed = TRUE]
    OBVIOUS
  <2>10. e = g \/ (over /\ e = Synced(Expire(g, Min(all)), Expire(g, Min(all)).list # g.list))
    OBVIOUS
  <2>11. f = WriteAll(fin, in.push, audio')
    BY <2>8
  <2> HIDE DEF f, g, e, in
  <2>12. \/ chunks' = chunks \cup {t}
         \/ \E m : Oldest(m, t) /\ chunks' = (chunks \cup {t}) \ {m}
    BY <2>1, <2>5, <2>7
  <2>13. \/ e = g
         \/ \E m : Oldest(m, t) /\ m \in Nat /\ e = Synced(Expire(g, m), Expire(g, m).list # g.list)
    BY <2>5, <2>10
  <2>14. \E x : /\ x = f \/ x = [f EXCEPT !.failed = TRUE]
                /\ \/ e = x
                   \/ \E m : /\ Oldest(m, t) /\ m \in Nat
                             /\ e = Synced(Expire(x, m), Expire(x, m).list # x.list)
    BY <2>9, <2>13
  <2>15. fin # Unset =>
           /\ queue' = queue
           /\ \E x : /\ x = WriteAll(fin, in.push, audio') \/ x = [WriteAll(fin, in.push, audio') EXCEPT !.failed = TRUE]
                     /\ \/ fin' = x
                        \/ \E m : /\ Oldest(m, t) /\ m \in Nat
                                  /\ fin' = Synced(Expire(x, m), Expire(x, m).list # x.list)
    <3> SUFFICES ASSUME fin # Unset PROVE
           /\ queue' = queue
           /\ \E x : /\ x = WriteAll(fin, in.push, audio') \/ x = [WriteAll(fin, in.push, audio') EXCEPT !.failed = TRUE]
                     /\ \/ fin' = x
                        \/ \E m : /\ Oldest(m, t) /\ m \in Nat
                                  /\ fin' = Synced(Expire(x, m), Expire(x, m).list # x.list)
      OBVIOUS
    <3>1. fin' = e /\ queue' = queue
      BY <2>8
    <3> QED
      BY <2>11, <2>14, <3>1, Zenon
  <2>16. chunks' \subseteq chunks \cup {t}
    BY <2>12
  <2> QED
    BY <2>6, <2>8, <2>12, <2>15, <2>16 DEF in
<1> QED
  BY <1>3, <1>4

\* A chunk is put into the segment of its window.
LEMMA HeldGrows ==
    ASSUME SegmenterInv, Placed, NEW t \in Times, audio' = [audio EXCEPT ![Of(t)] = @ \cup {t}]
    PROVE  /\ Of(t) \in Window /\ Of(t) \in Nat /\ t \in Nat
           /\ \A w \in Window : audio'[w] = IF w = Of(t) THEN audio[w] \cup {t} ELSE audio[w]
           /\ \A w \in Window : audio[w] # {} \/ w = Of(t) => audio'[w] # {} /\ AudioOf(w, audio'[w])
           /\ All' = All \cup {t}
<1>1. t \in Nat /\ Of(t) \in Window /\ Of(t) \in Nat
  <2>1. t \in Nat
    BY DEF Times
  <2> QED
    BY <2>1, WindowOfTime, WindowOf
<1>2. \A w \in Window : audio'[w] = IF w = Of(t) THEN audio[w] \cup {t} ELSE audio[w]
  BY <1>1 DEF SegmenterInv
<1>3. ASSUME NEW w \in Window, audio[w] # {} \/ w = Of(t) PROVE audio'[w] # {} /\ AudioOf(w, audio'[w])
  <2>1. /\ IsFiniteSet(audio[w]) /\ IsFiniteSet(audio[w] \cup {t})
        /\ \A a \in audio[w] : a \in Nat /\ Of(a) = w
    BY FS_AddElement DEF SegmenterInv, Placed
  <2>2. CASE w = Of(t)
    <3>1. audio'[w] = audio[w] \cup {t}
      BY <1>2, <2>2
    <3> QED
      BY <1>1, <2>1, <2>2, <3>1 DEF AudioOf
  <2>3. CASE w # Of(t)
    <3>1. audio'[w] = audio[w]
      BY <1>2, <2>3
    <3> QED
      BY <1>3, <2>1, <2>3, <3>1 DEF AudioOf
  <2> QED
    BY <2>2, <2>3
<1>4. All' = All \cup {t}
  <2>1. All' = UNION {audio'[w] : w \in Window}
    BY DEF All, Window
  <2>2. ASSUME NEW a \in All' PROVE a \in All \cup {t}
    <3>1. PICK w \in Window : a \in audio'[w]
      BY <2>1
    <3>2. a \in audio[w] \cup {t}
      BY <1>2, <3>1
    <3> QED
      BY <3>2 DEF All
  <2>3. ASSUME NEW a \in All \cup {t} PROVE a \in All'
    <3>1. PICK w \in Window : a \in audio'[w]
      <4>1. CASE a \in All
        <5>1. PICK w \in Window : a \in audio[w]
          BY <4>1 DEF All
        <5>2. a \in audio'[w]
          BY <1>2, <5>1
        <5> QED
          BY <5>2
      <4>2. CASE a = t
        BY <1>1, <1>2, <4>2
      <4> QED
        BY <4>1, <4>2
    <3> QED
      BY <2>1, <3>1
  <2> QED
    BY <2>2, <2>3
<1> QED
  BY <1>1, <1>2, <1>3, <1>4

\* The injector takes a live chunk.
LEMMA LivePlaced ==
    ASSUME SegmenterInv, Placed, now \in Times, now' = now + 1, UNCHANGED toLoad,
           audio' = [audio EXCEPT ![Of(now)] = @ \cup {now}],
           first' = Injected(now).first, last' = Injected(now).last,
           chunks' \subseteq chunks \cup {now}
    PROVE  /\ Placed'
           /\ \A w \in Window : Between(w) => Between(w)'
           /\ \A w \in Window : Injected(now).push = <<w>> => first # Unset /\ w = last /\ Between(w)'
           /\ first # Unset => first' = first /\ audio'[first] = audio[first]
<1> DEFINE w == Of(now)
<1>1. /\ w \in Window /\ w \in Nat /\ now \in Nat
      /\ \A v \in Window : audio'[v] = IF v = w THEN audio[v] \cup {now} ELSE audio[v]
      /\ All' = All \cup {now}
      /\ \A v \in Window : audio[v] # {} \/ v = w => audio'[v] # {}
  BY HeldGrows
<1>2. /\ last' = w
      /\ last # Unset => last <= w
      /\ \/ last = Unset /\ first' = Unset /\ Injected(now).push = <<>>
         \/ last # Unset /\ w = last /\ first' = first /\ Injected(now).push = <<>>
         \/ last # Unset /\ last < w /\ first = Unset /\ first' = last /\ Injected(now).push = <<>>
         \/ last # Unset /\ last < w /\ first # Unset /\ first' = first /\ Injected(now).push = <<last>>
  BY LiveIs
<1>3. last # Unset => last \in Window /\ last \in Nat /\ audio[last] # {}
  BY WindowsNumbered DEF SegmenterInv, Placed
<1>4. first # Unset => first \in Window /\ first \in Nat /\ last # Unset /\ first < last /\ audio[first] # {}
  BY WindowsNumbered DEF SegmenterInv, Placed
<1>5. Unset \notin Nat
  BY SegmenterAssumption
<1> HIDE DEF w
<1>6. first' # Unset => first' < last' /\ audio'[first'] # {}
  BY <1>1, <1>2, <1>3, <1>4
<1>7. last' # Unset /\ audio'[last'] # {}
  BY <1>1, <1>2, <1>5
<1>8. \A v \in Window : audio[v] # {} => v = last' \/ (first' # Unset /\ first' <= v /\ v < last')
  <2> SUFFICES ASSUME NEW v \in Window, audio[v] # {}
               PROVE  v = last' \/ (first' # Unset /\ first' <= v /\ v < last')
    OBVIOUS
  <2>1. v \in Nat /\ last # Unset /\ (v = last \/ (first # Unset /\ first <= v /\ v < last))
    BY WindowsNumbered DEF Placed
  <2> QED
    BY <1>1, <1>2, <1>3, <1>4, <1>5, <2>1
<1>9. \A v \in Window : \A a \in audio'[v] :
          /\ a \in Nat /\ Of(a) = v /\ a < now' /\ last' # Unset
          /\ v = last' \/ (first' # Unset /\ first' <= v /\ v < last')
  <2> SUFFICES ASSUME NEW v \in Window, NEW a \in audio'[v]
               PROVE  /\ a \in Nat /\ Of(a) = v /\ a < now' /\ last' # Unset
                      /\ v = last' \/ (first' # Unset /\ first' <= v /\ v < last')
    OBVIOUS
  <2>1. CASE a \in audio[v]
    <3>1. a \in Nat /\ Of(a) = v /\ a < now
      BY <2>1 DEF Placed
    <3> QED
      BY <1>1, <1>7, <1>8, <2>1, <3>1
  <2>2. CASE a \notin audio[v]
    <3>1. v = w /\ a = now
      BY <1>1, <2>2
    <3> QED
      BY <1>1, <1>2, <1>7, <3>1 DEF w
  <2> QED
    BY <2>1, <2>2
<1>10. chunks' \subseteq All'
  BY <1>1 DEF Placed
<1>11. toLoad' # Unset => \A t \in toLoad' : t \in Nat /\ t < now' /\ \A a \in All' : t < a
  BY <1>1 DEF Placed
<1>12. Placed'
  BY <1>6, <1>7, <1>9, <1>10, <1>11 DEF Placed, Window
<1>13. \A v \in Window : Between(v) => Between(v)'
  <2> SUFFICES ASSUME NEW v \in Window, Between(v) PROVE Between(v)'
    OBVIOUS
  <2>1. v \in Nat
    BY WindowsNumbered
  <2> QED
    BY <1>1, <1>2, <1>3, <1>4, <1>7, <2>1 DEF Between
<1>14. ASSUME NEW v \in Window, Injected(now).push = <<v>>
       PROVE  first # Unset /\ v = last /\ Between(v)'
  <2>1. first # Unset /\ v = last
    BY <1>2, <1>14
  <2>2. last' # Unset /\ v <= last' /\ first' # Unset /\ first' < v /\ v < last'
    BY <1>1, <1>2, <1>3, <1>4, <1>7, <1>14, <2>1
  <2> QED
    BY <2>1, <2>2 DEF Between
<1>15. first # Unset => first' = first /\ audio'[first] = audio[first]
  <2> SUFFICES ASSUME first # Unset PROVE first' = first /\ audio'[first] = audio[first]
    OBVIOUS
  <2>1. first' = first /\ first # w
    BY <1>1, <1>2, <1>3, <1>4
  <2> QED
    BY <1>1, <1>4, <2>1
<1> QED
  BY <1>12, <1>13, <1>14, <1>15

\* The injector takes a chunk that was loaded.
LEMMA LoadedPlaced ==
    ASSUME SegmenterInv, Placed, toLoad # Unset, NEW t \in toLoad, t \in Times, \A u \in toLoad : u <= t,
           toLoad' = toLoad \ {t}, now' = now,
           audio' = [audio EXCEPT ![Of(t)] = @ \cup {t}],
           first' = Injected(t).first, last' = Injected(t).last,
           chunks' \subseteq chunks \cup {t}
    PROVE  /\ Placed'
           /\ \A w \in Window : Between(w) => Between(w)'
           /\ \A w \in Window : Injected(t).push = <<w>> => first # Unset /\ w = first /\ Between(w)'
           /\ Injected(t).push = <<>> \/ Injected(t).push = <<first>>
           /\ first # Unset => first' # Unset /\ first' <= first
           /\ first' # Unset => Of(t) <= first'
<1> DEFINE w == Of(t)
<1>1. /\ w \in Window /\ w \in Nat /\ t \in Nat
      /\ \A v \in Window : audio'[v] = IF v = w THEN audio[v] \cup {t} ELSE audio[v]
      /\ All' = All \cup {t}
      /\ \A v \in Window : audio[v] # {} \/ v = w => audio'[v] # {}
  BY HeldGrows
<1>2. \A a \in All : t < a
  BY DEF Placed
<1>3. \/ last = Unset /\ first = Unset /\ first' = Unset /\ last' = w /\ Injected(t).push = <<>>
      \/ last # Unset /\ w = last /\ first = Unset /\ first' = Unset /\ last' = last /\ Injected(t).push = <<>>
      \/ first # Unset /\ w = first /\ first' = first /\ last' = last /\ Injected(t).push = <<>>
      \/ last # Unset /\ first = Unset /\ w < last /\ first' = w /\ last' = last /\ Injected(t).push = <<>>
      \/ first # Unset /\ w < first /\ first' = w /\ last' = last /\ Injected(t).push = <<first>>
  BY <1>1, <1>2, LoadedIs
<1>4. last # Unset => last \in Window /\ last \in Nat /\ audio[last] # {}
  BY WindowsNumbered DEF SegmenterInv, Placed
<1>5. first # Unset => first \in Window /\ first \in Nat /\ last # Unset /\ first < last /\ audio[first] # {}
  BY WindowsNumbered DEF SegmenterInv, Placed
<1>6. Unset \notin Nat
  BY SegmenterAssumption
<1> HIDE DEF w
<1>7. first' # Unset => first' < last' /\ audio'[first'] # {} /\ w <= first'
  BY <1>1, <1>3, <1>4, <1>5
<1>8. last' # Unset /\ audio'[last'] # {}
  BY <1>1, <1>3, <1>4, <1>5, <1>6
<1>9. \A v \in Window : audio[v] # {} => v = last' \/ (first' # Unset /\ first' <= v /\ v < last')
  <2> SUFFICES ASSUME NEW v \in Window, audio[v] # {}
               PROVE  v = last' \/ (first' # Unset /\ first' <= v /\ v < last')
    OBVIOUS
  <2>1. v \in Nat /\ last # Unset /\ (v = last \/ (first # Unset /\ first <= v /\ v < last))
    BY WindowsNumbered DEF Placed
  <2> QED
    BY <1>1, <1>3, <1>4, <1>5, <1>6, <2>1
<1>10. \A v \in Window : \A a \in audio'[v] :
          /\ a \in Nat /\ Of(a) = v /\ a < now' /\ last' # Unset
          /\ v = last' \/ (first' # Unset /\ first' <= v /\ v < last')
  <2> SUFFICES ASSUME NEW v \in Window, NEW a \in audio'[v]
               PROVE  /\ a \in Nat /\ Of(a) = v /\ a < now' /\ last' # Unset
                      /\ v = last' \/ (first' # Unset /\ first' <= v /\ v < last')
    OBVIOUS
  <2>1. CASE a \in audio[v]
    <3>1. a \in Nat /\ Of(a) = v /\ a < now
      BY <2>1 DEF Placed
    <3> QED
      BY <1>1, <1>8, <1>9, <2>1, <3>1
  <2>2. CASE a \notin audio[v]
    <3>1. v = w /\ a = t
      BY <1>1, <2>2
    <3>2. w = last' \/ (first' # Unset /\ first' <= w /\ w < last')
      BY <1>1, <1>3, <1>4, <1>5, <1>6
    <3>3. t < now
      BY DEF Placed
    <3> QED
      BY <1>1, <1>8, <3>1, <3>2, <3>3 DEF w
  <2> QED
    BY <2>1, <2>2
<1>11. chunks' \subseteq All'
  BY <1>1 DEF Placed
<1>12. \A u \in toLoad' : u \in Nat /\ u < now' /\ \A a \in All' : u < a
  <2> SUFFICES ASSUME NEW u \in toLoad' PROVE u \in Nat /\ u < now' /\ \A a \in All' : u < a
    OBVIOUS
  <2>1. u \in toLoad /\ u # t /\ u <= t /\ u \in Nat /\ u < now /\ \A a \in All : u < a
    BY DEF Placed
  <2> QED
    BY <1>1, <2>1
<1>13. Placed'
  BY <1>7, <1>8, <1>10, <1>11, <1>12 DEF Placed, Window
<1>14. \A v \in Window : Between(v) => Between(v)'
  <2> SUFFICES ASSUME NEW v \in Window, Between(v) PROVE Between(v)'
    OBVIOUS
  <2>1. v \in Nat /\ last # Unset /\ v <= last /\ first # Unset /\ first < v /\ v < last
    BY WindowsNumbered DEF Between
  <2>2. last' = last /\ first' # Unset /\ first' <= first
    BY <1>1, <1>3, <1>5, <1>6, <2>1
  <2>3. first' \in Nat
    BY <1>1, <1>3, <1>5, <2>1
  <2> QED
    BY <1>4, <1>5, <2>1, <2>2, <2>3 DEF Between
<1>15. Injected(t).push = <<>> \/ Injected(t).push = <<first>>
  BY <1>3
<1>16. ASSUME NEW v \in Window, Injected(t).push = <<v>>
       PROVE  first # Unset /\ v = first /\ Between(v)'
  <2>1. first # Unset /\ v = first /\ first' = w /\ w < first /\ last' = last
    BY <1>3, <1>16
  <2>2. last' # Unset /\ v <= last' /\ first' # Unset /\ first' < v /\ v < last'
    BY <1>1, <1>4, <1>5, <1>6, <2>1
  <2> QED
    BY <2>1, <2>2 DEF Between
<1>17. first # Unset => first' # Unset /\ first' <= first
  BY <1>1, <1>3, <1>5, <1>6
<1> QED
  BY <1>7, <1>13, <1>14, <1>15, <1>16, <1>17 DEF w

\* What is in a longer queue was in it or was added.
LEMMA QueueGrows ==
    ASSUME NEW p \in Seq(Window), NEW q \in Seq(Window)
    PROVE  \A i \in 1 .. Len(p \o q) :
             \/ \E j \in 1 .. Len(p) : (p \o q)[i] = p[j]
             \/ \E j \in 1 .. Len(q) : (p \o q)[i] = q[j]
<1> DEFINE r == p \o q
<1>1. /\ Len(p) \in Nat /\ Len(q) \in Nat /\ Len(r) = Len(p) + Len(q)
      /\ \A i \in 1 .. Len(r) : r[i] = IF i <= Len(p) THEN p[i] ELSE q[i - Len(p)]
  OBVIOUS
<1> HIDE DEF r
<1>2. ASSUME NEW i \in 1 .. Len(r)
      PROVE  (\E j \in 1 .. Len(p) : r[i] = p[j]) \/ (\E j \in 1 .. Len(q) : r[i] = q[j])
  <2>1. CASE i <= Len(p)
    BY <1>1, <2>1
  <2>2. CASE ~(i <= Len(p))
    <3>1. i - Len(p) \in 1 .. Len(q)
      BY <1>1, <2>2
    <3> QED
      BY <1>1, <2>2, <3>1
  <2> QED
    BY <2>1, <2>2
<1> QED
  BY <1>2 DEF r

\* What becomes of a finalizer when segments were written to it and the buffer was full
LEMMA Trimmed ==
    ASSUME NEW f, Consistent(f), NEW g, g = f \/ g = [f EXCEPT !.failed = TRUE],
           NEW t, NEW e,
           \/ e = g
           \/ \E m : /\ Oldest(m, t) /\ m \in Nat
                     /\ e = Synced(Expire(g, m), Expire(g, m).list # g.list)
    PROVE  /\ Consistent(e) /\ e.map = f.map /\ MinGrows(f, e)
           /\ ToSet(e.list) \subseteq ToSet(f.list)
           /\ \/ e.list = f.list /\ (Whole(f) => Whole(e))
              \/ \E m \in Nat : Oldest(m, t) /\ f.list # <<>> /\ f.list[1].ts <= m
<1>1. Consistent(g) /\ g.list = f.list /\ g.map = f.map /\ g.min = f.min /\ (Whole(f) => Whole(g))
  BY FailedIs DEF Same, Whole
<1>2. CASE e = g
  BY <1>1, <1>2 DEF MinGrows
<1>3. ASSUME NEW m, Oldest(m, t), m \in Nat, e = Synced(Expire(g, m), Expire(g, m).list # g.list)
      PROVE  /\ Consistent(e) /\ e.map = f.map /\ MinGrows(f, e)
             /\ ToSet(e.list) \subseteq ToSet(f.list)
             /\ \/ e.list = f.list /\ (Whole(f) => Whole(e))
                \/ \E n \in Nat : Oldest(n, t) /\ f.list # <<>> /\ f.list[1].ts <= n
  <2> DEFINE x == Expire(g, m)
  <2>1. /\ Consistent(x) /\ Kept(g, x) /\ x.min = g.min
        /\ \A s : s \in ToSet(x.list) <=> s \in ToSet(g.list) /\ s.ts > m
        /\ g.list = <<>> \/ g.list[1].ts > m => x = g
    <3>1. m \in Int
      BY <1>3
    <3> QED
      BY <1>1, <3>1, ExpireIs
  <2> HIDE DEF x
  <2>2. /\ Consistent(e) /\ Kept(x, e) /\ MinGrows(x, e) /\ e.list = x.list
    BY <1>3, <2>1, SyncedIs DEF x
  <2>3. e.map = f.map /\ MinGrows(f, e)
    BY <1>1, <2>1, <2>2 DEF Kept, MinGrows
  <2>4. ToSet(e.list) \subseteq ToSet(f.list)
    BY <1>1, <2>1, <2>2
  <2>5. CASE g.list = <<>> \/ g.list[1].ts > m
    <3>1. x = g
      BY <2>1, <2>5
    <3>2. e.list = f.list /\ e.dseq = g.dseq /\ e.dseqR = g.dseqR
      BY <1>1, <2>2, <3>1 DEF Kept
    <3>3. Whole(f) => Whole(e)
      BY <1>1, <3>2 DEF Whole
    <3> QED
      BY <2>2, <2>3, <2>4, <3>2, <3>3
  <2>6. CASE ~(g.list = <<>> \/ g.list[1].ts > m)
    <3>1. f.list # <<>> /\ f.list[1].ts \in Int
      BY <1>1, <2>6, Ends, OfSegment DEF Consistent, Typed
    <3>2. f.list[1].ts <= m
      BY <1>1, <1>3, <2>6, <3>1
    <3> QED
      BY <1>3, <2>2, <2>3, <2>4, <3>1, <3>2
  <2> QED
    BY <2>5, <2>6
<1> QED
  BY <1>2, <1>3

-----------------------------------------------------------------------------
(* each step keeps the discontinuities at the gaps *)

GapParts ==
    /\ Placed /\ Queued /\ Loads /\ HeaderTyped
    /\ fin # Unset => Consistent(fin) /\ ListPlaced(fin) /\ Fits(fin)

\* What is listed by a consistent finalizer
LEMMA WindowListed ==
    ASSUME NEW f, Consistent(f)
    PROVE  /\ \A s \in ToSet(f.list) : /\ s \in Segment /\ s.w \in Window /\ s.w \in Nat /\ s.ts \in Int
                                       /\ s.w \in f.spent /\ Start(s.w) <= s.ts /\ s.ts < End(s.w)
           /\ f.list # <<>> => f.list[1] \in ToSet(f.list)
           /\ f.list = <<>> => ToSet(f.list) = {}
<1>1. f.list \in Seq(Segment)
  BY DEF Consistent, Typed
<1> QED
  BY <1>1, Ends, OfSegment DEF Consistent

\* The segments that wait are still between when others are added that are.
LEMMA QueueStays ==
    ASSUME SegmenterInv, Queued, NEW p, p \in Seq(Window), queue' = queue \o p,
           \A w \in Window : Between(w) /\ audio[w] # {} => Between(w)' /\ audio'[w] # {},
           \A w \in Window : (\E i \in 1 .. Len(p) : p[i] = w) => Between(w)' /\ audio'[w] # {}
    PROVE  Queued'
<1>1. queue \in Seq(Window)
  BY DEF SegmenterInv
<1>2. \A i \in 1 .. Len(queue) : queue[i] \in Window
  BY <1>1
<1>3. \A i \in 1 .. Len(p) : p[i] \in Window
  OBVIOUS
<1>4. \A i \in 1 .. Len(queue') :
         \/ \E j \in 1 .. Len(queue) : queue'[i] = queue[j]
         \/ \E j \in 1 .. Len(p) : queue'[i] = p[j]
  BY <1>1, QueueGrows
<1> SUFFICES ASSUME NEW i \in 1 .. Len(queue')
             PROVE  \E w \in Window : w = queue'[i] /\ Between(w)' /\ audio'[w] # {}
  BY DEF Queued, Between
<1>5. CASE \E j \in 1 .. Len(queue) : queue'[i] = queue[j]
  <2>1. PICK j \in 1 .. Len(queue) : queue'[i] = queue[j]
    BY <1>5
  <2>2. queue[j] \in Window /\ Between(queue[j]) /\ audio[queue[j]] # {}
    BY <1>2 DEF Queued
  <2>3. PICK w \in Window : w = queue[j]
    BY <2>2
  <2> QED
    BY <2>1, <2>2, <2>3
<1>6. CASE \E j \in 1 .. Len(p) : queue'[i] = p[j]
  <2>1. PICK j \in 1 .. Len(p) : queue'[i] = p[j]
    BY <1>6
  <2>2. PICK w \in Window : w = p[j]
    BY <1>3
  <2> QED
    BY <2>1, <2>2
<1> QED
  BY <1>4, <1>5, <1>6

\* While a header is unread, what came is younger than its load.
LEMMA LiveLoads ==
    ASSUME Loads, now \in Times, header # Unset => now < readBy,
           now' = now + 1, UNCHANGED <<toLoad, header, readBy>>,
           All' = All \/ All' = All \cup {now},
           Cardinality(chunks') <= Capacity,
           header # Unset /\ HeaderInTime => fin' = fin /\ queue' = queue
    PROVE  Loads'
<1>1. now \in Nat /\ HeaderTime \in Nat
  BY SegmenterAssumption DEF Times
<1>2. ASSUME header # Unset, HeaderInTime
      PROVE  /\ fin' = Unset /\ queue' = <<>>
             /\ readBy \in Int /\ now + 1 <= readBy /\ readBy - HeaderTime <= now + 1
             /\ \A a \in All' : readBy - HeaderTime <= a
  <2>1. fin = Unset /\ queue = <<>> /\ readBy \in Int /\ readBy - HeaderTime <= now
        /\ \A a \in All : readBy - HeaderTime <= a
    BY <1>2 DEF Loads
  <2>2. \A a \in All' : a \in All \/ a = now
    OBVIOUS
  <2> QED
    BY <1>1, <1>2, <2>1, <2>2
<1>3. toLoad' = Unset => header' = Unset
  BY DEF Loads
<1> QED
  BY <1>2, <1>3 DEF Loads

\* What came since is of two segments at most, which are not pushed.
LEMMA NoneIsPushed ==
    ASSUME SegmenterInv, Placed, Loads, HeaderInTime, header # Unset, now < readBy
    PROVE  Injected(now).push = <<>>
<1> DEFINE in == Injected(now)
           w == Of(now)
<1>1. \/ in.push = <<>>
      \/ last # Unset /\ last < w /\ first # Unset /\ in.push = <<last>>
  BY LiveIs
<1> HIDE DEF in
<1>2. CASE last # Unset /\ last < w /\ first # Unset
  <2>1. /\ first \in Nat /\ last \in Nat /\ first < last /\ audio[first] # {} /\ first \in Window
    BY <1>2, WindowsNumbered DEF SegmenterInv, Placed
  <2>2. PICK a \in audio[first] : TRUE
    BY <2>1
  <2>3. a \in Nat /\ Of(a) = first /\ a \in All /\ now \in Nat
    BY <2>1, <2>2 DEF Placed, All, SegmenterInv
  <2>4. a < End(first) /\ Start(w) <= now /\ w \in Nat
    BY <2>3, WindowOf
  <2>5. End(first) <= Start(last) /\ End(last) <= Start(w)
    BY <1>2, <2>1, <2>4, WindowsApart
  <2>6. /\ End(last) = Start(last) + Length /\ End(first) \in Int /\ Start(last) \in Int
        /\ End(last) \in Int /\ Start(w) \in Int
    BY <2>1, <2>4, WindowsAre
  <2>7. readBy - HeaderTime <= a /\ readBy \in Int
    BY <2>3 DEF Loads
  <2>8. HeaderTime <= Length /\ HeaderTime \in Nat /\ Length \in Nat
    BY SegmenterAssumption DEF HeaderInTime
  <2> HIDE DEF w
  <2> QED
    BY <2>3, <2>4, <2>5, <2>6, <2>7, <2>8
<1> QED
  BY <1>1, <1>2 DEF in

\* A live chunk: it pushes the last segment, which goes to the end, and may make the oldest
\* chunk go, but not while a load goes on.
LEMMA ChunkGaps ==
    ASSUME GapInv, SegmenterInv', Chunk, ~crowded'
    PROVE  GapParts'
<1>1. /\ now \in Times /\ now' = now + 1 /\ Insert(now) /\ UNCHANGED <<toLoad, header, readBy>>
      /\ header # Unset => now < readBy
      /\ toLoad # Unset => ~(Cardinality(chunks \cup {now}) > Capacity)
  <2>1. /\ now < MaxTime /\ now' = now + 1 /\ Insert(now) /\ UNCHANGED <<toLoad, header, readBy>>
        /\ header # Unset => now < readBy
    BY DEF Chunk, Passing, loading
  <2>2. toLoad # Unset => ~(Cardinality(chunks \cup {now}) > Capacity)
    BY DEF Chunk
  <2>3. now \in Times
    BY <2>1, SegmenterAssumption DEF GapInv, SegmenterInv, Times
  <2> QED
    BY <2>1, <2>2, <2>3
<1>2. SegmenterInv /\ Placed /\ Queued /\ Loads /\ HeaderTyped
  BY DEF GapInv
<1>3. Cardinality(chunks) <= Capacity /\ now \in Nat
  BY <1>2 DEF Loads, SegmenterInv
<1>4. HeaderTyped'
  BY <1>1, <1>2 DEF HeaderTyped
<1> DEFINE in == Injected(now)
           f == WriteAll(fin, in.push, audio')
<1>5. /\ chunks' \subseteq chunks \cup {now} /\ Cardinality(chunks') <= Capacity
      /\ \/ chunks' = chunks /\ UNCHANGED segmenter
         \/ /\ audio' = [audio EXCEPT ![Of(now)] = @ \cup {now}]
            /\ first' = in.first /\ last' = in.last
            /\ fin = Unset => fin' = fin /\ queue' = queue \o in.push
            /\ fin # Unset =>
                 /\ queue' = queue
                 /\ \E g : /\ g = f \/ g = [f EXCEPT !.failed = TRUE]
                           /\ \/ fin' = g
                              \/ \E m : /\ Oldest(m, now) /\ m \in Nat
                                        /\ fin' = Synced(Expire(g, m), Expire(g, m).list # g.list)
  BY <1>1, <1>2, <1>3, InsertIs
<1>6. CASE chunks' = chunks /\ UNCHANGED segmenter
  <2>1. UNCHANGED <<audio, first, last, queue, fin, chunks, toLoad>>
    BY <1>1, <1>6 DEF segmenter
  <2>2. All' = All
    BY <2>1 DEF All, Window
  <2>3. Placed'
    BY <1>1, <1>2, <1>3, <2>1, <2>2 DEF Placed, Window
  <2>4. Queued'
    BY <1>2, <2>1 DEF Queued, Between
  <2>5. Loads'
    BY <1>1, <1>2, <1>5, <2>1, <2>2, LiveLoads
  <2>6. ASSUME fin' # Unset PROVE (Consistent(fin) /\ ListPlaced(fin) /\ Fits(fin))'
    <3>1. Consistent(fin) /\ ListPlaced(fin) /\ Fits(fin)
      BY <2>1, <2>6 DEF GapInv
    <3>2. Consistent(fin') /\ ListPlaced(fin)'
      BY <2>1, <3>1 DEF ListPlaced, Between
    <3>3. Fits(fin)'
      BY <2>1, <3>1 DEF Fits, Cut
    <3> QED
      BY <3>2, <3>3
  <2> QED
    BY <1>4, <2>3, <2>4, <2>5, <2>6 DEF GapParts
<1>7. CASE /\ audio' = [audio EXCEPT ![Of(now)] = @ \cup {now}]
           /\ first' = in.first /\ last' = in.last
           /\ fin = Unset => fin' = fin /\ queue' = queue \o in.push
           /\ fin # Unset =>
                /\ queue' = queue
                /\ \E g : /\ g = f \/ g = [f EXCEPT !.failed = TRUE]
                          /\ \/ fin' = g
                             \/ \E m : /\ Oldest(m, now) /\ m \in Nat
                                       /\ fin' = Synced(Expire(g, m), Expire(g, m).list # g.list)
  <2>1. /\ \A w \in Window : audio[w] # {} => audio'[w] # {} /\ AudioOf(w, audio'[w])
        /\ All' = All \cup {now}
    BY <1>1, <1>2, <1>7, HeldGrows
  <2>2. /\ Placed'
        /\ \A w \in Window : Between(w) => Between(w)'
        /\ \A w \in Window : in.push = <<w>> => first # Unset /\ w = last /\ Between(w)'
        /\ first # Unset => first' = first /\ audio'[first] = audio[first]
    BY <1>1, <1>2, <1>5, <1>7, LivePlaced
  <2>3. /\ in.push = <<>> \/ (first # Unset /\ in.push = <<last>>)
        /\ last = Unset => in.first = Unset
        /\ first = Unset => in.push = <<>>
    BY <1>2, LiveIs
  <2>4. first # Unset => /\ first \in Window /\ first \in Nat /\ last \in Window /\ last \in Nat
                         /\ first < last /\ audio[first] # {} /\ audio[last] # {}
    BY <1>2, WindowsNumbered DEF SegmenterInv, Placed
  <2>5. in.push \in Seq(Window)
    <3>1. <<>> \in Seq(Window)
      OBVIOUS
    <3>2. first # Unset => <<last>> \in Seq(Window)
      BY <2>4
    <3> QED
      BY <2>3, <3>1, <3>2
  <2>6. Queued'
    <3>1. CASE fin = Unset
      <4>1. \A w \in Window : Between(w) /\ audio[w] # {} => Between(w)' /\ audio'[w] # {}
        BY <2>1, <2>2
      <4>2. \A w \in Window : (\E i \in 1 .. Len(in.push) : in.push[i] = w) => Between(w)' /\ audio'[w] # {}
        <5>1. CASE in.push = <<>>
          BY <5>1
        <5>2. CASE in.push = <<last>> /\ first # Unset
          <6>1. Len(<<last>>) = 1 /\ <<last>>[1] = last
            OBVIOUS
          <6>2. \A w \in Window : w = last => Between(w)' /\ audio'[w] # {}
            BY <2>1, <2>2, <2>4, <5>2
          <6> QED
            BY <5>2, <6>1, <6>2
        <5> QED
          BY <2>3, <5>1, <5>2
      <4>3. queue' = queue \o in.push
        BY <1>7, <3>1
      <4> HIDE DEF in
      <4> QED
        BY <1>2, <2>5, <4>1, <4>2, <4>3, QueueStays
    <3>2. CASE fin # Unset
      <4>1. queue' = queue
        BY <1>7, <3>2
      <4>2. queue \in Seq(Window)
        BY <1>2 DEF SegmenterInv
      <4>3. \A i \in 1 .. Len(queue) : queue[i] \in Window /\ audio[queue[i]] # {} /\ Between(queue[i])
        BY <1>2, <4>2 DEF Queued
      <4>4. \A i \in 1 .. Len(queue) : \E w \in Window : w = queue[i] /\ audio'[w] # {} /\ Between(w)'
        BY <2>1, <2>2, <4>3
      <4> QED
        BY <4>1, <4>4 DEF Queued, Between
    <3> QED
      BY <3>1, <3>2
  <2>7. Loads'
    <3>1. ASSUME header # Unset, HeaderInTime PROVE fin' = fin /\ queue' = queue
      <4>1. fin = Unset /\ queue = <<>> /\ in.push = <<>>
        BY <1>1, <1>2, <3>1, NoneIsPushed DEF Loads
      <4>2. queue' = <<>> \o <<>> /\ fin' = fin
        BY <1>7, <4>1
      <4> QED
        BY <4>1, <4>2
    <3> QED
      BY <1>1, <1>2, <1>5, <2>1, <3>1, LiveLoads
  <2>8. ASSUME fin' # Unset PROVE (Consistent(fin) /\ ListPlaced(fin) /\ Fits(fin))'
    <3>1. fin # Unset /\ Consistent(fin) /\ ListPlaced(fin) /\ Fits(fin)
      BY <1>7, <2>8 DEF GapInv
    <3>2. /\ Consistent(f) /\ f.map = fin.map /\ f.min = fin.min
          /\ \A s \in ToSet(f.list) : s \in ToSet(fin.list) \/ (s.w = last /\ in.push = <<last>> /\ first # Unset)
          /\ Whole(fin) => Whole(f)
      <4>1. CASE in.push = <<>>
        <5>1. f = fin
          BY <4>1, NoneWritten
        <5> QED
          BY <3>1, <5>1
      <4>2. CASE first # Unset /\ in.push = <<last>>
        <5>1. f = Write(fin, last, audio'[last])
          BY <4>2, OneWritten
        <5>2. last \in Window /\ AudioOf(last, audio'[last])
          BY <2>1, <2>4, <4>2
        <5>3. Fitting(fin, last)
          <6>1. fin.list # <<>> => fin.list[1] \in ToSet(fin.list) /\ fin.list[1].w \in Nat
            BY <3>1, WindowListed
          <6>2. fin.list # <<>> => fin.list[1].w <= last
            BY <3>1, <6>1 DEF ListPlaced, Between
          <6> QED
            BY <2>4, <4>2, <6>1, <6>2 DEF Fitting
        <5> HIDE DEF f, in
        <5> QED
          BY <3>1, <4>2, <5>1, <5>2, <5>3, WriteConsistent
      <4> QED
        BY <2>3, <4>1, <4>2
    <3> HIDE DEF f
    <3>3. PICK g : /\ g = f \/ g = [f EXCEPT !.failed = TRUE]
                   /\ \/ fin' = g
                      \/ \E m : /\ Oldest(m, now) /\ m \in Nat
                                /\ fin' = Synced(Expire(g, m), Expire(g, m).list # g.list)
      BY <1>7, <3>1
    <3>4. /\ Consistent(fin') /\ fin'.map = f.map /\ MinGrows(f, fin')
          /\ ToSet(fin'.list) \subseteq ToSet(f.list)
          /\ \/ fin'.list = f.list /\ (Whole(f) => Whole(fin'))
             \/ \E m \in Nat : Oldest(m, now) /\ f.list # <<>> /\ f.list[1].ts <= m
      BY <3>2, <3>3, Trimmed
    <3>5. ListPlaced(fin)'
      <4>1. \A s \in ToSet(f.list) : \E w \in Window : w = s.w /\ Between(w)'
        <5> SUFFICES ASSUME NEW s \in ToSet(f.list) PROVE s.w \in Window /\ \A w \in Window : w = s.w => Between(w)'
          OBVIOUS
        <5>1. s.w \in Window
          BY <3>2, WindowListed
        <5>2. CASE s \in ToSet(fin.list)
          <6>1. Between(s.w)
            BY <3>1, <5>2 DEF ListPlaced
          <6> QED
            BY <2>2, <5>1, <6>1
        <5>3. CASE s.w = last /\ in.push = <<last>>
          BY <2>2, <5>1, <5>3
        <5> QED
          BY <3>2, <5>1, <5>2, <5>3
      <4>2. \A s \in ToSet(fin'.list) : \E w \in Window : w = s.w /\ Between(w)'
        BY <3>4, <4>1
      <4> QED
        BY <4>2 DEF ListPlaced, Between
    <3>6. Fits(fin)'
      <4>1. CASE fin.map = NoMap
        BY <3>2, <3>4, <4>1 DEF Fits, NoMap
      <4>2. CASE toLoad = Unset
        BY <1>1, <4>2 DEF Fits
      <4>3. CASE Cut(fin)
        <5>1. first # Unset /\ first' = first /\ fin.min # Unset /\ End(first) < fin.min
          BY <2>2, <4>3 DEF Cut
        <5>2. fin.min \in Int
          BY <3>1, <5>1 DEF Consistent, Typed
        <5>6. End(first) \in Int
          <6>1. first \in Int
            BY <2>4, <5>1
          <6> QED
            BY <6>1, WindowsAre
        <5>7. fin'.min = fin.min \/ (fin'.min \in Int /\ fin'.min > fin.min)
          <6>1. f.min = fin.min /\ f.min # Unset
            BY <3>2, <5>1
          <6> QED
            BY <3>4, <6>1 DEF MinGrows
        <5>3. fin'.min \in Int /\ End(first) < fin'.min
          BY <5>1, <5>2, <5>6, <5>7
        <5>4. fin'.min # Unset
          BY <5>3, SegmenterAssumption
        <5>5. Cut(fin)'
          BY <5>1, <5>3, <5>4 DEF Cut, End
        <5> QED
          BY <5>5 DEF Fits
      <4>4. CASE Whole(fin)
        <5>1. CASE fin'.list = f.list /\ (Whole(f) => Whole(fin'))
          <6>1. Whole(fin')
            BY <3>2, <4>4, <5>1
          <6> QED
            BY <6>1 DEF Fits, Whole
        <5>2. CASE \E m \in Nat : Oldest(m, now) /\ f.list # <<>> /\ f.list[1].ts <= m
          <6>1. PICK m \in Nat : Oldest(m, now) /\ f.list # <<>> /\ f.list[1].ts <= m
            BY <5>2
          <6>2. toLoad = Unset
            BY <1>1, <6>1 DEF Oldest
          <6> QED
            BY <1>1, <6>2 DEF Fits
        <5> QED
          BY <3>4, <5>1, <5>2
      <4> QED
        BY <3>1, <4>1, <4>2, <4>3, <4>4 DEF Fits
    <3> QED
      BY <3>4, <3>5, <3>6
  <2> QED
    BY <1>4, <2>2, <2>6, <2>7, <2>8 DEF GapParts
<1> QED
  BY <1>5, <1>6, <1>7

\* Nothing of it changes.
LEMMA StillGaps ==
    ASSUME GapInv, UNCHANGED <<chunks, audio, first, last, queue, fin, toLoad, header, readBy, now>>
    PROVE  GapParts'
<1>1. All' = All
  BY DEF All, Window
<1>2. Placed'
  BY <1>1 DEF GapInv, Placed, Window
<1>3. Queued' /\ HeaderTyped'
  BY DEF GapInv, Queued, Between, HeaderTyped
<1>4. Loads'
  BY <1>1 DEF GapInv, Loads
<1>5. ASSUME fin' # Unset PROVE (Consistent(fin) /\ ListPlaced(fin) /\ Fits(fin))'
  <2>1. Consistent(fin) /\ ListPlaced(fin) /\ Fits(fin)
    BY <1>5 DEF GapInv
  <2>2. ListPlaced(fin)'
    BY <2>1 DEF ListPlaced, Between
  <2>3. Fits(fin)'
    BY <2>1 DEF Fits, Cut
  <2> QED
    BY <2>1, <2>2, <2>3
<1> QED
  BY <1>2, <1>3, <1>4, <1>5 DEF GapParts

\* Time passes.
LEMMA SilenceGaps ==
    ASSUME GapInv, Silence
    PROVE  GapParts'
<1>1. /\ now \in Times /\ now' = now + 1 /\ (header # Unset => now < readBy)
      /\ UNCHANGED <<chunks, audio, first, last, queue, fin, toLoad, header, readBy>>
  BY SegmenterAssumption DEF Silence, Passing, segmenter, loading, GapInv, SegmenterInv, Times
<1>2. SegmenterInv /\ Placed /\ Queued /\ Loads /\ HeaderTyped /\ now \in Nat
  BY DEF GapInv, SegmenterInv
<1>3. All' = All
  BY <1>1 DEF All, Window
<1>4. Placed'
  <2>1. now' > now
    BY <1>1, <1>2
  <2>2. \A w \in Window : \A a \in audio[w] : a \in Nat /\ a < now'
    BY <1>1, <1>2 DEF Placed
  <2>3. toLoad # Unset => \A t \in toLoad : t \in Nat /\ t < now'
    BY <1>1, <1>2 DEF Placed
  <2> QED
    BY <1>1, <1>2, <1>3, <2>2, <2>3 DEF Placed, Window
<1>5. Queued' /\ HeaderTyped'
  BY <1>1, <1>2 DEF Queued, Between, HeaderTyped
<1>6. Loads'
  <2>1. Cardinality(chunks') <= Capacity
    BY <1>1, <1>2 DEF Loads
  <2> QED
    BY <1>1, <1>2, <1>3, <2>1, LiveLoads
<1>7. ASSUME fin' # Unset PROVE (Consistent(fin) /\ ListPlaced(fin) /\ Fits(fin))'
  <2>1. Consistent(fin) /\ ListPlaced(fin) /\ Fits(fin)
    BY <1>1, <1>7 DEF GapInv
  <2>2. ListPlaced(fin)'
    BY <1>1, <2>1 DEF ListPlaced, Between
  <2>3. Fits(fin)'
    BY <1>1, <2>1 DEF Fits, Cut
  <2>4. Consistent(fin)'
    BY <1>1, <2>1
  <2> QED
    BY <2>2, <2>3, <2>4
<1> QED
  BY <1>4, <1>5, <1>6, <1>7 DEF GapParts

\* When only the finalizer, its queue and whether the header is read change
LEMMA OthersPlaced ==
    ASSUME GapInv, UNCHANGED <<now, chunks, audio, first, last, toLoad, readBy>>,
           header' = header \/ header' = Unset,
           header' # Unset /\ HeaderInTime => fin' = Unset /\ queue' = <<>>
    PROVE  /\ Placed' /\ Loads' /\ HeaderTyped'
           /\ \A w \in Window : Between(w) => Between(w)'
<1>1. All' = All
  BY DEF All, Window
<1>2. Placed'
  BY <1>1 DEF GapInv, Placed, Window
<1>3. Loads'
  BY <1>1 DEF GapInv, Loads
<1>4. HeaderTyped'
  BY DEF GapInv, HeaderTyped
<1> QED
  BY <1>2, <1>3, <1>4 DEF Between

\* A finalizer that was just made lists nothing and is whole.
LEMMA NewFinalizer ==
    ASSUME NEW map, map # Unset => /\ map.seq \in Nat /\ map.dseq \in Int /\ map.pts \in Int
                                   /\ DOMAIN map.ids \subseteq Int
                                   /\ \A k \in DOMAIN map.ids : map.ids[k] \in Nat
    PROVE  LET f == Finalizer(map) IN
             /\ Consistent(f) /\ Whole(f) /\ f.list = <<>>
             /\ map = Unset => f.map = NoMap
<1> DEFINE f == Finalizer(map)
           k == IF map = Unset THEN 0 ELSE map.seq
           d == IF map = Unset THEN 0 ELSE map.dseq
           p == IF map = Unset THEN 0 ELSE IF map.pts = 0 THEN map.seq * Length ELSE map.pts
           m == IF map = Unset THEN NoMap ELSE map.ids
<1>1. k \in Nat /\ d \in Int
  OBVIOUS
<1>2. p \in Int
  <2>1. map # Unset => map.seq * Length \in Int /\ map.pts \in Int
    BY SegmenterAssumption
  <2> QED
    BY <2>1
<1>3. DOMAIN m \subseteq Int /\ \A i \in DOMAIN m : m[i] \in Nat
  <2>1. DOMAIN NoMap = {}
    BY DEF NoMap
  <2> QED
    BY <2>1
<1>4. f = [seq |-> k, dseq |-> d, dseqR |-> d, pts |-> p, map |-> m, min |-> Unset, list |-> <<>>,
           spent |-> {}, dropped |-> {}, failed |-> FALSE]
  BY DEF Finalizer
<1>5. map = Unset => m = NoMap
  OBVIOUS
<1> HIDE DEF k, d, p, m, f
<1>6. Fields(f) /\ f.seq = k /\ f.dseq = d /\ f.dseqR = d /\ f.pts = p /\ f.map = m /\ f.min = Unset
      /\ f.list = <<>> /\ f.spent = {}
  BY <1>4 DEF Fields
<1>7. Typed(f)
  <2>1. <<>> \in Seq(Segment)
    OBVIOUS
  <2> QED
    BY <1>1, <1>2, <1>3, <1>6, <2>1 DEF Typed
<1>8. ToSet(f.list) = {} /\ Len(f.list) = 0
  BY <1>6, <1>7, Ends DEF Typed
<1>9. InOrderOfTime(f.list) /\ Neighbours(f.list, Gapped)
  BY <1>8 DEF InOrderOfTime, Neighbours
<1>10. Consistent(f)
  BY <1>6, <1>7, <1>8, <1>9 DEF Consistent
<1> QED
  BY <1>5, <1>6, <1>10 DEF Whole, f

\* No map came: no number is taken from one, and every segment goes to the end.
LEMMA NoMapCameGaps ==
    ASSUME GapInv, NoMapCame
    PROVE  GapParts'
<1>1. /\ queue # <<>> /\ fin = Unset /\ fin' = WriteAll(Finalizer(Unset), queue, audio) /\ queue' = <<>>
      /\ UNCHANGED <<now, chunks, audio, first, last, toLoad, header, readBy>>
  BY DEF NoMapCame, Create, loading
<1>2. SegmenterInv /\ Placed /\ Queued /\ Loads
  BY DEF GapInv
<1>3. HeaderInTime => header = Unset
  BY <1>1, <1>2 DEF Loads
<1>4. /\ Placed' /\ Loads' /\ HeaderTyped'
      /\ \A w \in Window : Between(w) => Between(w)'
  BY <1>1, <1>3, OthersPlaced
<1>5. Queued'
  BY <1>1 DEF Queued
<1> DEFINE f == Finalizer(Unset)
<1>6. Consistent(f) /\ f.list = <<>> /\ f.map = NoMap
  BY NewFinalizer
<1>7. queue \in Seq(Window)
  BY <1>2 DEF SegmenterInv
<1>8. \A i \in 1 .. Len(queue) : queue[i] \in Window /\ AudioOf(queue[i], audio[queue[i]]) /\ Between(queue[i])
  BY <1>2, <1>7, HeldIs DEF Queued
<1> HIDE DEF f
<1>9. /\ Consistent(fin') /\ fin'.map = NoMap
      /\ \A s \in ToSet(fin'.list) : s \in ToSet(f.list) \/ \E i \in 1 .. Len(queue) : s.w = queue[i]
  BY <1>1, <1>6, <1>7, <1>8, WrittenFits DEF f
<1>10. ToSet(f.list) = {}
  BY <1>6, WindowListed
<1>11. \A s \in ToSet(fin'.list) : s.w \in Window /\ \A w \in Window : w = s.w => Between(w)'
  <2> SUFFICES ASSUME NEW s \in ToSet(fin'.list)
               PROVE  s.w \in Window /\ \A w \in Window : w = s.w => Between(w)'
    OBVIOUS
  <2>1. PICK i \in 1 .. Len(queue) : s.w = queue[i]
    BY <1>9, <1>10
  <2> QED
    BY <1>4, <1>8, <2>1
<1>12. ListPlaced(fin)'
  BY <1>11 DEF ListPlaced, Between
<1>13. Fits(fin)'
  BY <1>9 DEF Fits, NoMap
<1> QED
  BY <1>4, <1>5, <1>9, <1>12, <1>13 DEF GapParts

\* The header is read: what waits is written to a finalizer that is whole, unless there is one.
LEMMA HeaderGaps ==
    ASSUME GapInv, LoadHeader
    PROVE  GapParts'
<1>1. /\ header # Unset /\ header' = Unset
      /\ UNCHANGED <<now, chunks, audio, first, last, toLoad, readBy>>
      /\ \/ UNCHANGED <<fin, queue>>
         \/ /\ header.map # Unset /\ fin = Unset /\ queue' = <<>>
            /\ fin' = WriteAll(Finalizer(header.map), queue, audio)
  BY DEF LoadHeader, Create, segmenter
<1>2. SegmenterInv /\ Placed /\ Queued /\ Loads /\ HeaderTyped
  BY DEF GapInv
<1>3. /\ Placed' /\ Loads' /\ HeaderTyped'
      /\ \A w \in Window : Between(w) => Between(w)'
  BY <1>1, OthersPlaced
<1>4. CASE UNCHANGED <<fin, queue>>
  <2>1. Queued'
    BY <1>1, <1>2, <1>4 DEF Queued, Between
  <2>2. ASSUME fin' # Unset PROVE (Consistent(fin) /\ ListPlaced(fin) /\ Fits(fin))'
    <3>1. Consistent(fin) /\ ListPlaced(fin) /\ Fits(fin)
      BY <1>4, <2>2 DEF GapInv
    <3> QED
      BY <1>1, <1>4, <3>1 DEF ListPlaced, Between, Fits, Cut
  <2> QED
    BY <1>3, <2>1, <2>2 DEF GapParts
<1>5. CASE /\ header.map # Unset /\ queue' = <<>>
           /\ fin' = WriteAll(Finalizer(header.map), queue, audio)
  <2> DEFINE f == Finalizer(header.map)
  <2>1. Queued'
    BY <1>5 DEF Queued
  <2>2. Consistent(f) /\ Whole(f) /\ f.list = <<>>
    BY <1>1, <1>2, <1>5, NewFinalizer DEF HeaderTyped
  <2>3. queue \in Seq(Window)
    BY <1>2 DEF SegmenterInv
  <2>4. \A i \in 1 .. Len(queue) : queue[i] \in Window /\ AudioOf(queue[i], audio[queue[i]]) /\ Between(queue[i])
    BY <1>2, <2>3, HeldIs DEF Queued
  <2> HIDE DEF f
  <2>5. /\ Consistent(fin') /\ (fin'.map = NoMap \/ Whole(fin'))
        /\ \A s \in ToSet(fin'.list) : s \in ToSet(f.list) \/ \E i \in 1 .. Len(queue) : s.w = queue[i]
    BY <1>5, <2>2, <2>3, <2>4, WrittenFits DEF f
  <2>6. ToSet(f.list) = {}
    BY <2>2, WindowListed
  <2>7. \A s \in ToSet(fin'.list) : s.w \in Window /\ \A w \in Window : w = s.w => Between(w)'
    <3> SUFFICES ASSUME NEW s \in ToSet(fin'.list)
                 PROVE  s.w \in Window /\ \A w \in Window : w = s.w => Between(w)'
      OBVIOUS
    <3>1. PICK i \in 1 .. Len(queue) : s.w = queue[i]
      BY <2>5, <2>6
    <3> QED
      BY <1>3, <2>4, <3>1
  <2>8. ListPlaced(fin)'
    BY <2>7 DEF ListPlaced, Between
  <2>9. Fits(fin)'
    BY <2>5 DEF Fits, Whole
  <2> QED
    BY <1>3, <2>1, <2>5, <2>8, <2>9 DEF GapParts
<1> QED
  BY <1>1, <1>4, <1>5

\* The group learns of the first segment after the load.
LEMMA SettleGaps ==
    ASSUME GapInv, Settle
    PROVE  GapParts'
<1>1. /\ toLoad = Unset /\ fin # Unset
      /\ \/ fin' = fin
         \/ /\ fin.list # <<>> /\ (fin.min = Unset \/ Head(fin.list).ts > fin.min)
            /\ fin' = [fin EXCEPT !.min = Head(fin.list).ts]
      /\ UNCHANGED <<now, chunks, audio, first, last, queue, toLoad, header, readBy>>
  BY DEF Settle
<1>2. Consistent(fin) /\ ListPlaced(fin) /\ Queued /\ Loads
  BY <1>1 DEF GapInv
<1>3. HeaderInTime => header = Unset
  BY <1>1, <1>2 DEF Loads
<1>4. /\ Placed' /\ Loads' /\ HeaderTyped'
      /\ \A w \in Window : Between(w) => Between(w)'
  BY <1>1, <1>3, OthersPlaced
<1>5. Queued'
  BY <1>1, <1>2 DEF Queued, Between
<1>6. Consistent(fin') /\ fin'.list = fin.list
  <2>1. CASE fin' = fin
    BY <1>2, <2>1
  <2>2. CASE fin' # fin
    <3> DEFINE m == Head(fin.list).ts
    <3>1. m \in Int
      BY <1>1, <1>2, <2>2, WindowListed, Ends DEF Consistent, Typed
    <3>2. fin' = [fin EXCEPT !.min = m] /\ (fin.min = Unset \/ m > fin.min)
      BY <1>1, <2>2
    <3> HIDE DEF m
    <3> QED
      BY <1>2, <3>1, <3>2, MinMoved
  <2> QED
    BY <2>1, <2>2
<1>7. ListPlaced(fin)'
  BY <1>1, <1>2, <1>6 DEF ListPlaced, Between
<1>8. Fits(fin)'
  BY <1>1 DEF Fits
<1> QED
  BY <1>4, <1>5, <1>6, <1>7, <1>8 DEF GapParts

\* Another bitrate moves the minimum.  What that removes is past what the injector holds at
\* the front, or else the minimum cuts off the front.
LEMMA GroupGaps ==
    ASSUME GapInv, GroupMin
    PROVE  GapParts'
<1>1. fin # Unset /\ UNCHANGED <<now, chunks, audio, first, last, queue, toLoad, header, readBy>>
  BY DEF GroupMin, loading
<1>2. Consistent(fin) /\ ListPlaced(fin) /\ Fits(fin) /\ SegmenterInv /\ Placed /\ Queued /\ Loads
  BY <1>1 DEF GapInv
<1>3. HeaderInTime => header = Unset
  BY <1>1, <1>2 DEF Loads
<1>4. /\ Placed' /\ Loads' /\ HeaderTyped'
      /\ \A w \in Window : Between(w) => Between(w)'
  BY <1>1, <1>3, OthersPlaced
<1>5. Queued'
  BY <1>1, <1>2 DEF Queued, Between
<1>6. PICK w \in Window :
         /\ fin.min # Unset => Start(w) > fin.min
         /\ LET f == Expire([fin EXCEPT !.min = Start(w)], Start(w) - 1)
            IN  fin' = Synced(f, f.list # fin.list)
  BY DEF GroupMin
<1> DEFINE m == Start(w)
           g == [fin EXCEPT !.min = m]
           e == Expire(g, m - 1)
<1>7. m \in Int /\ m - 1 \in Int
  <2>1. w \in Int
    BY WindowsNumbered
  <2>2. m \in Int
    BY <2>1, WindowsAre
  <2> HIDE DEF m
  <2> QED
    BY <2>2
<1>8. (fin.min = Unset \/ m > fin.min) /\ fin' = Synced(e, e.list # fin.list)
  BY <1>6
<1> HIDE DEF m
<1>9. Consistent(g) /\ Kept(fin, g) /\ g.list = fin.list /\ g.min = m
  BY <1>2, <1>7, <1>8, MinMoved
<1> HIDE DEF g
<1>10. /\ Consistent(e) /\ Kept(g, e) /\ e.min = m
       /\ \A s : s \in ToSet(e.list) <=> s \in ToSet(g.list) /\ s.ts > m - 1
       /\ g.list = <<>> \/ g.list[1].ts > m - 1 => e = g
  BY <1>7, <1>9, ExpireIs
<1> HIDE DEF e
<1>11. /\ Consistent(fin') /\ Kept(e, fin') /\ MinGrows(e, fin') /\ fin'.list = e.list
       /\ e.list # fin.list \/ fin' = e
  BY <1>8, <1>10, SyncedIs
<1>12. fin'.min \in Int /\ fin'.min >= m /\ fin'.min # Unset
  <2>1. m # Unset
    BY <1>7, SegmenterAssumption
  <2>2. fin'.min \in Int /\ fin'.min >= m
    BY <1>7, <1>10, <1>11, <2>1 DEF MinGrows
  <2> QED
    BY <2>2, SegmenterAssumption
<1>13. ListPlaced(fin)'
  BY <1>1, <1>2, <1>9, <1>10, <1>11 DEF ListPlaced, Between
<1>14. Fits(fin)'
  <2>1. CASE fin.map = NoMap
    BY <1>9, <1>10, <1>11, <2>1 DEF Fits, Kept, NoMap
  <2>2. CASE toLoad = Unset
    BY <1>1, <2>2 DEF Fits
  <2>3. CASE Cut(fin)
    <3>1. first # Unset /\ fin.min # Unset /\ End(first) < fin.min
      BY <2>3 DEF Cut
    <3>2. fin.min \in Int /\ m > fin.min
      BY <1>2, <1>8, <3>1 DEF Consistent, Typed
    <3>3. first \in Int
      BY <1>2, <3>1, WindowsNumbered DEF SegmenterInv
    <3>4. End(first) \in Int
      BY <3>3, WindowsAre
    <3>5. End(first) < fin'.min
      BY <1>7, <1>12, <3>1, <3>2, <3>4
    <3>6. Cut(fin)'
      BY <1>1, <1>12, <3>1, <3>5 DEF Cut, End
    <3> QED
      BY <3>6 DEF Fits
  <2>4. CASE Whole(fin)
    <3>1. CASE e = g
      <4>1. fin' = g
        BY <1>9, <1>11, <3>1
      <4>2. Whole(g)
        BY <1>9, <2>4 DEF Whole, Kept
      <4> QED
        BY <4>1, <4>2 DEF Fits, Whole
    <3>2. CASE toLoad = Unset
      BY <1>1, <3>2 DEF Fits
    <3>3. CASE e # g /\ toLoad # Unset
      <4> DEFINE h == g.list[1]
      <4>1. g.list # <<>> /\ ~(h.ts > m - 1)
        BY <1>10, <3>3
      <4>2. h \in ToSet(fin.list) /\ h.w \in Nat /\ h.ts \in Int /\ Start(h.w) <= h.ts
        BY <1>9, <4>1, WindowListed
      <4>3. first # Unset /\ first < h.w
        BY <1>2, <3>3, <4>2 DEF ListPlaced, Between
      <4>4. first \in Int
        BY <1>2, <4>3, WindowsNumbered DEF SegmenterInv
      <4> HIDE DEF h
      <4>5. End(first) <= Start(h.w) /\ End(first) \in Int /\ Start(h.w) \in Int
        BY <4>2, <4>3, <4>4, WindowsApart, WindowsAre
      <4>6. h.ts < m
        BY <1>7, <4>1, <4>2
      <4>7. End(first) < fin'.min
        BY <1>7, <1>12, <4>2, <4>5, <4>6
      <4>8. Cut(fin)'
        BY <1>1, <1>12, <4>3, <4>7 DEF Cut, End
      <4> QED
        BY <4>8 DEF Fits
    <3> QED
      BY <3>1, <3>2, <3>3
  <2> QED
    BY <1>2, <2>1, <2>2, <2>3, <2>4 DEF Fits
<1> QED
  BY <1>4, <1>5, <1>11, <1>13, <1>14 DEF GapParts

\* The map that is dumped has numbers for times.
LEMMA DumpedIsTyped ==
    ASSUME NEW f, Typed(f)
    PROVE  LET map == DumpMap(f) IN
             /\ map.seq \in Nat /\ map.dseq \in Int /\ map.pts \in Int
             /\ DOMAIN map.ids \subseteq Int
             /\ \A k \in DOMAIN map.ids : map.ids[k] \in Nat
<1>1. ToSet(f.list) \subseteq Segment
  BY Ends DEF Typed
<1> DEFINE D == {s.ts : s \in ToSet(f.list)}
           Named(k) == CHOOSE s \in ToSet(f.list) : s.ts = k
           ids == [k \in D |-> Named(k).id]
<1>2. ASSUME NEW k \in D PROVE k \in Int /\ Named(k).id \in Nat
  <2>1. \E s \in ToSet(f.list) : s.ts = k
    OBVIOUS
  <2>2. Named(k) \in ToSet(f.list) /\ Named(k).ts = k
    BY <2>1
  <2> HIDE DEF Named
  <2>3. Named(k) \in Segment
    BY <1>1, <2>2
  <2> QED
    BY <2>2, <2>3, OfSegment
<1>3. DumpMap(f) = [seq |-> f.seq, dseq |-> f.dseq, pts |-> f.pts, ids |-> ids]
  BY DEF DumpMap
<1> HIDE DEF D, Named
<1>4. DOMAIN ids = D /\ \A k \in D : ids[k] = Named(k).id
  OBVIOUS
<1> HIDE DEF ids
<1> QED
  BY <1>2, <1>3, <1>4 DEF Typed

\* A new process has nothing but what is to be loaded.
LEMMA RestartGaps ==
    ASSUME GapInv, Restart
    PROVE  GapParts'
<1>1. /\ toLoad' = dump.chunks /\ readBy' = now + HeaderTime /\ now' = now
      /\ header' = IF dump.chunks = {} THEN Unset ELSE [map |-> dump.map]
      /\ chunks' = {} /\ audio' = [w \in Window |-> {}]
      /\ first' = Unset /\ last' = Unset /\ queue' = <<>> /\ fin' = Unset
  BY DEF Restart
<1>2. DumpInTime /\ DumpTyped
  BY DEF GapInv, SegmenterInv
<1>3. /\ now \in Nat /\ HeaderTime \in Nat /\ Capacity \in Nat
      /\ dump.chunks \subseteq Times /\ dump.chunks # Unset
  <2>1. dump.chunks \subseteq 0 .. MaxTime
    BY <1>2 DEF DumpInTime, Times
  <2> QED
    BY <2>1, SegmenterAssumption DEF GapInv, SegmenterInv, Times
<1>4. All' = {}
  BY <1>1 DEF All, Window
<1>5. \A t \in dump.chunks : t \in Nat /\ t < now
  BY <1>2, <1>3, SegmenterAssumption DEF DumpTyped, Times
<1>6. Placed'
  BY <1>1, <1>4, <1>5 DEF Placed, Window
<1>7. Queued'
  BY <1>1 DEF Queued
<1>8. Loads'
  <2>1. Cardinality(chunks') = 0
    BY <1>1, FS_EmptySet
  <2>2. toLoad' # Unset
    BY <1>1, <1>3
  <2> QED
    BY <1>1, <1>3, <1>4, <2>1, <2>2 DEF Loads
<1>9. HeaderTyped'
  BY <1>1, <1>2 DEF HeaderTyped, DumpTyped
<1> QED
  BY <1>1, <1>6, <1>7, <1>8, <1>9 DEF GapParts

\* A chunk is loaded: it is older than all that is there, so that nothing listed expires.
LEMMA LoadChunkGaps ==
    ASSUME GapInv, SegmenterInv', LoadChunk
    PROVE  GapParts'
<1>1. /\ header = Unset /\ toLoad # Unset
      /\ UNCHANGED <<now, header, readBy>>
  BY DEF LoadChunk
<1>2. PICK t \in toLoad :
         /\ \A u \in toLoad : u <= t
         /\ toLoad' = toLoad \ {t}
         /\ Insert(t)
  BY DEF LoadChunk
<1>3. SegmenterInv /\ Placed /\ Queued /\ Loads /\ HeaderTyped
  BY DEF GapInv
<1>4. /\ t \in Times /\ t \in Nat /\ t < now /\ now \in Nat
      /\ (\A a \in All : t < a) /\ toLoad' # Unset
  <2>1. toLoad' \in SUBSET Times
    BY <1>1, <1>2, <1>3 DEF SegmenterInv
  <2> QED
    BY <1>1, <1>2, <1>3, <2>1, SegmenterAssumption DEF SegmenterInv, Placed, Times
<1> DEFINE in == Injected(t)
           f == WriteAll(fin, in.push, audio')
<1>5. /\ chunks' \subseteq chunks \cup {t} /\ Cardinality(chunks') <= Capacity
      /\ \/ chunks' = chunks /\ UNCHANGED segmenter
         \/ /\ audio' = [audio EXCEPT ![Of(t)] = @ \cup {t}]
            /\ first' = in.first /\ last' = in.last
            /\ fin = Unset => fin' = fin /\ queue' = queue \o in.push
            /\ fin # Unset =>
                 /\ queue' = queue
                 /\ \E g : /\ g = f \/ g = [f EXCEPT !.failed = TRUE]
                           /\ \/ fin' = g
                              \/ \E m : /\ Oldest(m, t) /\ m \in Nat
                                        /\ fin' = Synced(Expire(g, m), Expire(g, m).list # g.list)
  BY <1>2, <1>3, <1>4, InsertIs DEF Loads
<1>7. HeaderTyped'
  BY <1>1 DEF HeaderTyped
<1>8. CASE chunks' = chunks /\ UNCHANGED segmenter
  <2>1. UNCHANGED <<audio, first, last, queue, fin, chunks>>
    BY <1>8 DEF segmenter
  <2>2. All' = All
    BY <2>1 DEF All, Window
  <2>3. Placed'
    BY <1>1, <1>2, <1>3, <2>1, <2>2 DEF Placed, Window
  <2>4. Queued'
    BY <1>1, <1>3, <2>1 DEF Queued, Between
  <2>5. Loads'
    BY <1>1, <1>4, <1>5 DEF Loads
  <2>6. ASSUME fin' # Unset PROVE (Consistent(fin) /\ ListPlaced(fin) /\ Fits(fin))'
    <3>1. Consistent(fin) /\ ListPlaced(fin) /\ Fits(fin)
      BY <2>1, <2>6 DEF GapInv
    <3>2. Consistent(fin') /\ ListPlaced(fin)'
      BY <1>1, <2>1, <3>1 DEF ListPlaced, Between
    <3>4. Fits(fin)'
      BY <1>1, <2>1, <3>1 DEF Fits, Cut
    <3> QED
      BY <3>2, <3>4
  <2> QED
    BY <1>7, <2>3, <2>4, <2>5, <2>6 DEF GapParts
<1>9. CASE /\ audio' = [audio EXCEPT ![Of(t)] = @ \cup {t}]
           /\ first' = in.first /\ last' = in.last
           /\ fin = Unset => fin' = fin /\ queue' = queue \o in.push
           /\ fin # Unset =>
                /\ queue' = queue
                /\ \E g : /\ g = f \/ g = [f EXCEPT !.failed = TRUE]
                          /\ \/ fin' = g
                             \/ \E m : /\ Oldest(m, t) /\ m \in Nat
                                       /\ fin' = Synced(Expire(g, m), Expire(g, m).list # g.list)
  <2>1. /\ \A w \in Window : audio[w] # {} => audio'[w] # {} /\ AudioOf(w, audio'[w])
        /\ All' = All \cup {t}
    BY <1>3, <1>4, <1>9, HeldGrows
  <2>2. /\ Placed'
        /\ \A w \in Window : Between(w) => Between(w)'
        /\ \A w \in Window : in.push = <<w>> => first # Unset /\ w = first /\ Between(w)'
        /\ in.push = <<>> \/ in.push = <<first>>
        /\ first # Unset => first' # Unset /\ first' <= first
        /\ first' # Unset => Of(t) <= first'
    BY <1>1, <1>2, <1>3, <1>4, <1>5, <1>9, LoadedPlaced
  <2>3. in.push = <<>> \/ (first # Unset /\ in.push = <<first>> /\ Of(t) < first)
    BY <1>3, <1>4, LoadedIs
  <2>4. first # Unset => /\ first \in Window /\ first \in Nat /\ last \in Window /\ last \in Nat
                         /\ first < last /\ audio[first] # {}
    BY <1>3, WindowsNumbered DEF SegmenterInv, Placed
  <2>5. in.push \in Seq(Window)
    <3>1. <<>> \in Seq(Window)
      OBVIOUS
    <3>2. first # Unset => <<first>> \in Seq(Window)
      BY <2>4
    <3> QED
      BY <2>3, <3>1, <3>2
  <2>6. Queued'
    <3>1. CASE fin = Unset
      <4>1. \A w \in Window : Between(w) /\ audio[w] # {} => Between(w)' /\ audio'[w] # {}
        BY <2>1, <2>2
      <4>2. \A w \in Window : (\E i \in 1 .. Len(in.push) : in.push[i] = w) => Between(w)' /\ audio'[w] # {}
        <5>1. CASE in.push = <<>>
          BY <5>1
        <5>2. CASE in.push = <<first>> /\ first # Unset
          <6>1. Len(<<first>>) = 1 /\ <<first>>[1] = first
            OBVIOUS
          <6>2. \A w \in Window : w = first => Between(w)' /\ audio'[w] # {}
            BY <2>1, <2>2, <2>4, <5>2
          <6> QED
            BY <5>2, <6>1, <6>2
        <5> QED
          BY <2>3, <5>1, <5>2
      <4>3. queue' = queue \o in.push
        BY <1>9, <3>1
      <4> HIDE DEF in
      <4> QED
        BY <1>3, <2>5, <4>1, <4>2, <4>3, QueueStays
    <3>2. CASE fin # Unset
      <4>1. queue' = queue
        BY <1>9, <3>2
      <4>2. queue \in Seq(Window)
        BY <1>3 DEF SegmenterInv
      <4>3. \A i \in 1 .. Len(queue) : queue[i] \in Window /\ audio[queue[i]] # {} /\ Between(queue[i])
        BY <1>3, <4>2 DEF Queued
      <4>4. \A i \in 1 .. Len(queue) : \E w \in Window : w = queue[i] /\ audio'[w] # {} /\ Between(w)'
        BY <2>1, <2>2, <4>3
      <4> QED
        BY <4>1, <4>4 DEF Queued, Between
    <3> QED
      BY <3>1, <3>2
  <2>7. Loads'
    BY <1>1, <1>4, <1>5 DEF Loads
  <2>8. ASSUME fin' # Unset PROVE (Consistent(fin) /\ ListPlaced(fin) /\ Fits(fin))'
    <3>1. fin # Unset /\ Consistent(fin) /\ ListPlaced(fin) /\ Fits(fin)
      BY <1>9, <2>8 DEF GapInv
    <3>2. fin.map = NoMap \/ Whole(fin) \/ Cut(fin)
      BY <1>1, <3>1 DEF Fits
    <3>3. /\ Consistent(f) /\ f.map = fin.map /\ f.min = fin.min
          /\ \A s \in ToSet(f.list) : s \in ToSet(fin.list) \/ (s.w = first /\ in.push = <<first>> /\ first # Unset)
          /\ Whole(fin) => Whole(f)
      <4>1. CASE in.push = <<>>
        <5>1. f = fin
          BY <4>1, NoneWritten
        <5> QED
          BY <3>1, <5>1
      <4>2. CASE first # Unset /\ in.push = <<first>>
        <5>1. f = Write(fin, first, audio'[first])
          BY <4>2, OneWritten
        <5>2. first \in Window /\ AudioOf(first, audio'[first])
          BY <2>1, <2>4, <4>2
        <5>3. Fitting(fin, first)
          BY <3>2 DEF Fitting, Numbered, NoMap, Cut, BelowMin
        <5> HIDE DEF f, in
        <5> QED
          BY <3>1, <4>2, <5>1, <5>2, <5>3, WriteConsistent
      <4> QED
        BY <2>3, <4>1, <4>2
    <3> HIDE DEF f
    <3>4. PICK g : /\ g = f \/ g = [f EXCEPT !.failed = TRUE]
                   /\ \/ fin' = g
                      \/ \E m : /\ Oldest(m, t) /\ m \in Nat
                                /\ fin' = Synced(Expire(g, m), Expire(g, m).list # g.list)
      BY <1>9, <3>1
    <3>5. /\ Consistent(fin') /\ fin'.map = f.map /\ MinGrows(f, fin')
          /\ ToSet(fin'.list) \subseteq ToSet(f.list)
          /\ \/ fin'.list = f.list /\ (Whole(f) => Whole(fin'))
             \/ \E m \in Nat : Oldest(m, t) /\ f.list # <<>> /\ f.list[1].ts <= m
      BY <3>3, <3>4, Trimmed
    <3>6. ~(\E m \in Nat : Oldest(m, t) /\ f.list # <<>> /\ f.list[1].ts <= m)
      <4> SUFFICES ASSUME NEW m \in Nat, Oldest(m, t), f.list # <<>>, f.list[1].ts <= m
                   PROVE  FALSE
        OBVIOUS
      <4> DEFINE h == f.list[1]
      <4>1. m <= t
        BY DEF Oldest
      <4>2. h \in ToSet(f.list) /\ h.w \in Nat /\ h.ts \in Int /\ Start(h.w) <= h.ts /\ h.ts <= t
        <5>1. h \in ToSet(f.list) /\ h.w \in Nat /\ h.ts \in Int /\ Start(h.w) <= h.ts
          BY <3>3, WindowListed
        <5> QED
          BY <1>4, <4>1, <5>1
      <4> HIDE DEF h
      <4>3. Of(t) < h.w
        <5>1. CASE h.w = first /\ in.push = <<first>> /\ first # Unset
          <6>1. <<>> # <<first>>
            OBVIOUS
          <6> QED
            BY <2>3, <5>1, <6>1
        <5>2. CASE h \in ToSet(fin.list)
          <6>1. first # Unset /\ first < h.w
            BY <1>1, <3>1, <5>2 DEF ListPlaced, Between
          <6>2. PICK a \in audio[first] : TRUE
            BY <2>4, <6>1
          <6>3. a \in Nat /\ Of(a) = first /\ t < a
            BY <1>3, <1>4, <2>4, <6>1, <6>2 DEF Placed, All
          <6>4. Of(t) <= first /\ Of(t) \in Nat
            BY <1>4, <6>3, OfGrows, WindowOf
          <6> QED
            BY <2>4, <4>2, <6>1, <6>4
        <5> QED
          BY <3>3, <4>2, <5>1, <5>2
      <4>4. Of(t) \in Nat /\ t < End(Of(t)) /\ End(Of(t)) \in Int /\ Start(h.w) \in Int
        <5>1. Of(t) \in Nat /\ t < End(Of(t))
          BY <1>4, WindowOf
        <5>2. Of(t) \in Int /\ h.w \in Int
          BY <4>2, <5>1
        <5> QED
          BY <5>1, <5>2, WindowsAre
      <4>5. End(Of(t)) <= Start(h.w)
        BY <4>2, <4>3, <4>4, WindowsApart
      <4> QED
        BY <1>4, <4>2, <4>4, <4>5
    <3>7. ListPlaced(fin)'
      <4>1. \A s \in ToSet(f.list) : \E w \in Window : w = s.w /\ Between(w)'
        <5> SUFFICES ASSUME NEW s \in ToSet(f.list)
                     PROVE  s.w \in Window /\ \A w \in Window : w = s.w => Between(w)'
          OBVIOUS
        <5>1. s.w \in Window
          BY <3>3, WindowListed
        <5>2. CASE s \in ToSet(fin.list)
          <6>1. Between(s.w)
            BY <3>1, <5>2 DEF ListPlaced
          <6> QED
            BY <2>2, <5>1, <6>1
        <5>3. CASE s.w = first /\ in.push = <<first>>
          BY <2>2, <5>1, <5>3
        <5> QED
          BY <3>3, <5>1, <5>2, <5>3
      <4>2. \A s \in ToSet(fin'.list) : \E w \in Window : w = s.w /\ Between(w)'
        BY <3>5, <4>1
      <4> QED
        BY <4>2 DEF ListPlaced, Between
    <3>8. Fits(fin)'
      <4>1. CASE fin.map = NoMap
        BY <3>3, <3>5, <4>1 DEF Fits, NoMap
      <4>2. CASE Cut(fin)
        <5>1. first # Unset /\ first' # Unset /\ first' <= first /\ fin.min # Unset /\ End(first) < fin.min
          BY <2>2, <4>2 DEF Cut
        <5>2. fin.min \in Int
          BY <3>1, <5>1 DEF Consistent, Typed
        <5>3. first \in Int /\ first' \in Int
          <6>1. first' \in Window
            BY <1>3, <5>1 DEF SegmenterInv, Window
          <6> QED
            BY <2>4, <5>1, <6>1, WindowsNumbered
        <5>4. End(first) \in Int /\ End(first') \in Int /\ End(first') <= End(first)
          <6>1. CASE first' = first
            BY <5>3, <6>1, WindowsAre
          <6>2. CASE first' < first
            BY <5>3, <6>2, WindowsAre, WindowsApart
          <6> QED
            BY <5>1, <5>3, <6>1, <6>2
        <5>5. fin'.min = fin.min \/ (fin'.min \in Int /\ fin'.min > fin.min)
          <6>1. f.min = fin.min /\ f.min # Unset
            BY <3>3, <5>1
          <6> QED
            BY <3>5, <6>1 DEF MinGrows
        <5>6. fin'.min \in Int /\ End(first') < fin'.min
          BY <5>1, <5>2, <5>4, <5>5
        <5>7. fin'.min # Unset
          BY <5>6, SegmenterAssumption
        <5>8. Cut(fin)'
          BY <5>1, <5>6, <5>7 DEF Cut, End
        <5> QED
          BY <5>8 DEF Fits
      <4>3. CASE Whole(fin)
        <5>1. Whole(fin')
          BY <3>3, <3>5, <3>6, <4>3
        <5> QED
          BY <5>1 DEF Fits, Whole
      <4> QED
        BY <3>2, <4>1, <4>2, <4>3
    <3> QED
      BY <3>5, <3>7, <3>8
  <2> QED
    BY <1>7, <2>2, <2>6, <2>7, <2>8 DEF GapParts
<1> QED
  BY <1>5, <1>8, <1>9

\* What _flush pushes
LEMMA FlushIs ==
    /\ Flush \in {<<>>, <<first>>, <<last>>, <<first, last>>}
    /\ Flush \in {<<first>>, <<first, last>>} => Complete(first)
    /\ Flush \in {<<last>>, <<first, last>>} => Complete(last)
<1> DEFINE S == {first, last}
<1>2. <<>> \in Seq(S) /\ <<first>> \in Seq(S) /\ <<last>> \in Seq(S)
  OBVIOUS
<1>3. <<first>> \o <<last>> = <<first, last>>
  <2> DEFINE p == <<first>> \o <<last>>
             q == <<first, last>>
  <2>1. Len(<<first>>) = 1 /\ Len(<<last>>) = 1 /\ <<first>>[1] = first /\ <<last>>[1] = last
    OBVIOUS
  <2>2. p \in Seq(S) /\ Len(p) = 2 /\ p[1] = first /\ p[2] = last
    BY <1>2, <2>1, ConcatProperties
  <2>3. q \in Seq(S) /\ Len(q) = 2 /\ q[1] = first /\ q[2] = last
    OBVIOUS
  <2> HIDE DEF p, q
  <2>4. \A i \in 1 .. 2 : i = 1 \/ i = 2
    OBVIOUS
  <2>5. p = q
    BY <2>2, <2>3, <2>4, SeqEqual
  <2> QED
    BY <2>5 DEF p, q
<1>4. /\ <<>> \o <<last>> = <<last>> /\ <<first>> \o <<>> = <<first>> /\ <<>> \o <<>> = <<>>
  BY <1>2, ConcatEmptySeq
<1>1. /\ Complete(first) /\ Complete(last) => Flush = <<first, last>>
      /\ Complete(first) /\ ~Complete(last) => Flush = <<first>>
      /\ ~Complete(first) /\ Complete(last) => Flush = <<last>>
      /\ ~Complete(first) /\ ~Complete(last) => Flush = <<>>
  <2> HIDE DEF Complete
  <2> QED
    BY <1>3, <1>4, Zenon DEF Flush
<1> QED
  BY <1>1

\* The load is over: what _flush pushes at the front fits it, or the minimum cuts it off.
LEMMA LoadedGaps ==
    ASSUME GapInv, Loaded
    PROVE  GapParts'
<1>1. /\ header = Unset /\ toLoad = {} /\ toLoad' = Unset /\ toLoad # Unset
      /\ UNCHANGED <<now, chunks, audio, first, last, header, readBy>>
      /\ IF fin = Unset THEN queue' = queue \o Flush /\ UNCHANGED fin
         ELSE fin' = WriteAll(fin, Flush, audio) /\ UNCHANGED queue
  <2>1. {} \in SUBSET (0 .. MaxTime)
    OBVIOUS
  <2>2. {} # Unset
    BY <2>1, SegmenterAssumption
  <2> QED
    BY <2>2 DEF Loaded, Pushed
<1>2. SegmenterInv /\ Placed /\ Queued /\ Loads
  BY DEF GapInv
<1>3. All' = All
  BY <1>1 DEF All, Window
<1>4. /\ Placed' /\ Loads' /\ HeaderTyped'
      /\ \A w \in Window : Between(w) => Between(w)'
  <2>1. Placed'
    BY <1>1, <1>2, <1>3 DEF Placed, Window
  <2>2. Loads'
    BY <1>1, <1>2 DEF Loads
  <2>3. HeaderTyped'
    BY <1>1 DEF HeaderTyped
  <2> QED
    BY <1>1, <2>1, <2>2, <2>3 DEF Between
<1>5. \A w \in Window : w \in {first, last} => Between(w)'
  <2> SUFFICES ASSUME NEW w \in Window, w \in {first, last} PROVE last' # Unset /\ w <= last'
    BY <1>1 DEF Between
  <2>1. last # Unset
    <3>1. w # Unset
      BY WindowsNumbered, SegmenterAssumption
    <3> QED
      BY <1>2, <3>1 DEF Placed
  <2>2. w \in Nat /\ last \in Nat
    BY <1>2, <2>1, WindowsNumbered DEF SegmenterInv
  <2>3. w = last \/ w < last
    <3>1. w # Unset
      BY <2>2, SegmenterAssumption
    <3> QED
      BY <1>2, <3>1 DEF Placed
  <2> QED
    BY <1>1, <2>1, <2>2, <2>3
<1>6. \A w \in {first, last} : Complete(w) => w \in Window /\ audio[w] # {} /\ AudioOf(w, audio[w])
  <2> SUFFICES ASSUME NEW w \in {first, last}, Complete(w)
               PROVE  w \in Window /\ audio[w] # {} /\ AudioOf(w, audio[w])
    OBVIOUS
  <2>1. w # Unset
    BY DEF Complete
  <2>2. w \in Window /\ audio[w] # {}
    BY <1>2, <2>1 DEF SegmenterInv, Placed
  <2> QED
    BY <1>2, <2>2, HeldIs
<1>7. Flush \in Seq(Window) /\ \A i \in 1 .. Len(Flush) : Flush[i] \in {first, last} /\ Complete(Flush[i])
  <2>1. CASE Flush = <<>>
    <3>1. <<>> \in Seq(Window) /\ Len(<<>>) = 0
      OBVIOUS
    <3> QED
      BY <2>1, <3>1
  <2>2. CASE Flush = <<first>>
    <3>1. Complete(first) /\ first \in Window
      BY <1>6, <2>2, FlushIs
    <3>2. <<first>> \in Seq(Window) /\ Len(<<first>>) = 1 /\ <<first>>[1] = first
      BY <3>1
    <3> QED
      BY <2>2, <3>1, <3>2
  <2>3. CASE Flush = <<last>>
    <3>1. Complete(last) /\ last \in Window
      BY <1>6, <2>3, FlushIs
    <3>2. <<last>> \in Seq(Window) /\ Len(<<last>>) = 1 /\ <<last>>[1] = last
      BY <3>1
    <3> QED
      BY <2>3, <3>1, <3>2
  <2>4. CASE Flush = <<first, last>>
    <3>1. Complete(first) /\ first \in Window /\ Complete(last) /\ last \in Window
      BY <1>6, <2>4, FlushIs
    <3>2. /\ <<first, last>> \in Seq(Window) /\ Len(<<first, last>>) = 2
          /\ <<first, last>>[1] = first /\ <<first, last>>[2] = last
      BY <3>1
    <3>3. \A i \in 1 .. 2 : i = 1 \/ i = 2
      OBVIOUS
    <3> QED
      BY <2>4, <3>1, <3>2, <3>3
  <2> QED
    BY <2>1, <2>2, <2>3, <2>4, FlushIs
<1>8. Queued'
  <2>1. CASE fin = Unset
    <3>1. \A w \in Window : Between(w) /\ audio[w] # {} => Between(w)' /\ audio'[w] # {}
      BY <1>1, <1>4
    <3>2. \A w \in Window : (\E i \in 1 .. Len(Flush) : Flush[i] = w) => Between(w)' /\ audio'[w] # {}
      <4> SUFFICES ASSUME NEW w \in Window, NEW i \in 1 .. Len(Flush), Flush[i] = w
                   PROVE  Between(w)' /\ audio'[w] # {}
        OBVIOUS
      <4>1. w \in {first, last} /\ Complete(w)
        BY <1>7
      <4> QED
        BY <1>1, <1>5, <1>6, <4>1
    <3> QED
      BY <1>1, <1>2, <1>7, <2>1, <3>1, <3>2, QueueStays
  <2>2. CASE fin # Unset
    <3>1. queue' = queue
      BY <1>1, <2>2
    <3>2. queue \in Seq(Window)
      BY <1>2 DEF SegmenterInv
    <3>3. \A i \in 1 .. Len(queue) : queue[i] \in Window /\ audio[queue[i]] # {} /\ Between(queue[i])
      BY <1>2, <3>2 DEF Queued
    <3>4. \A i \in 1 .. Len(queue) : \E w \in Window : w = queue[i] /\ audio'[w] # {} /\ Between(w)'
      BY <1>1, <1>4, <3>3
    <3> QED
      BY <3>1, <3>4 DEF Queued, Between
  <2> QED
    BY <2>1, <2>2
<1>9. ASSUME fin' # Unset PROVE (Consistent(fin) /\ ListPlaced(fin) /\ Fits(fin))'
  <2>1. fin # Unset /\ Consistent(fin) /\ ListPlaced(fin) /\ Fits(fin) /\ fin' = WriteAll(fin, Flush, audio)
    BY <1>1, <1>9 DEF GapInv
  <2> DEFINE Fine(g) == /\ Consistent(g) /\ g.map = fin.map /\ g.min = fin.min
                        /\ \A s \in ToSet(g.list) : s \in ToSet(fin.list) \/ s.w \in {first, last}
  <2>2. Fine(fin)
    BY <2>1
  <2>3. \A s \in ToSet(fin.list) : /\ s.w \in Nat /\ s.w \in Window /\ last # Unset /\ last \in Nat
                                   /\ s.w <= last /\ first # Unset
    <3> SUFFICES ASSUME NEW s \in ToSet(fin.list)
                 PROVE  /\ s.w \in Nat /\ s.w \in Window /\ last # Unset /\ last \in Nat
                        /\ s.w <= last /\ first # Unset
      OBVIOUS
    <3>1. s.w \in Nat /\ s.w \in Window
      BY <2>1, WindowListed
    <3>2. last # Unset /\ s.w <= last /\ first # Unset
      BY <1>1, <2>1 DEF ListPlaced, Between
    <3>3. last \in Nat
      BY <1>2, <3>2, WindowsNumbered DEF SegmenterInv
    <3> QED
      BY <3>1, <3>2, <3>3
  <2>4. ASSUME Complete(first)
        PROVE  Fine(Write(fin, first, audio[first]))
    <3>1. fin.map = NoMap \/ Whole(fin) \/ Cut(fin)
      BY <1>1, <2>1, <2>4 DEF Fits
    <3>2. Fitting(fin, first)
      BY <3>1 DEF Fitting, Numbered, NoMap, Cut, BelowMin
    <3>3. first \in Window /\ AudioOf(first, audio[first])
      BY <1>6, <2>4
    <3> QED
      BY <2>1, <3>2, <3>3, WriteConsistent
  <2>5. ASSUME NEW g, Fine(g), Complete(last)
        PROVE  Fine(Write(g, last, audio[last]))
    <3>1. last \in Window /\ AudioOf(last, audio[last])
      BY <1>6, <2>5
    <3>2. Fitting(g, last)
      <4>1. last \in Nat
        BY <3>1, WindowsNumbered
      <4>2. \A s \in ToSet(g.list) : s.w \in Nat /\ s.w <= last
        <5> SUFFICES ASSUME NEW s \in ToSet(g.list) PROVE s.w \in Nat /\ s.w <= last
          OBVIOUS
        <5>1. s.w \in Nat /\ s.w \in Window
          BY <2>5, WindowListed
        <5>2. CASE s \in ToSet(fin.list)
          BY <2>3, <5>2
        <5>3. CASE s.w = last
          BY <4>1, <5>3
        <5>4. CASE s.w = first
          <6>1. first # Unset
            BY <5>1, <5>4, SegmenterAssumption
          <6> QED
            BY <1>2, <4>1, <5>1, <5>4, <6>1 DEF Placed
        <5> QED
          BY <2>5, <5>2, <5>3, <5>4
      <4>3. g.list # <<>> => g.list[1] \in ToSet(g.list)
        BY <2>5, WindowListed
      <4>4. g.list # <<>> => ~(last < g.list[1].w)
        BY <4>1, <4>2, <4>3
      <4> QED
        BY <4>4 DEF Fitting
    <3>3. LET e == Write(g, last, audio[last]) IN
            /\ Consistent(e) /\ e.map = g.map /\ e.min = g.min
            /\ \A s \in ToSet(e.list) : s \in ToSet(g.list) \/ s.w = last
      BY <2>5, <3>1, <3>2, WriteConsistent
    <3> QED
      BY <2>5, <3>3
  <2> HIDE DEF Fine
  <2>6. Fine(fin')
    <3>1. CASE Flush = <<>>
      BY <2>1, <2>2, <3>1, NoneWritten
    <3>2. CASE Flush = <<first>>
      BY <2>1, <2>4, <3>2, FlushIs, OneWritten
    <3>3. CASE Flush = <<last>>
      BY <2>1, <2>2, <2>5, <3>3, FlushIs, OneWritten
    <3>4. CASE Flush = <<first, last>>
      <4>1. Complete(first) /\ Complete(last)
        BY <3>4, FlushIs
      <4>2. fin' = Write(Write(fin, first, audio[first]), last, audio[last])
        BY <2>1, <3>4, TwoWritten
      <4> QED
        BY <2>4, <2>5, <4>1, <4>2
    <3> QED
      BY <3>1, <3>2, <3>3, <3>4, FlushIs
  <2>7. Consistent(fin') /\ \A s \in ToSet(fin'.list) : s \in ToSet(fin.list) \/ s.w \in {first, last}
    BY <2>6 DEF Fine
  <2>8. \A s \in ToSet(fin'.list) : \E w \in Window : w = s.w /\ Between(w)'
    <3> SUFFICES ASSUME NEW s \in ToSet(fin'.list)
                 PROVE  s.w \in Window /\ \A w \in Window : w = s.w => Between(w)'
      OBVIOUS
    <3>1. s.w \in Window
      BY <2>7, WindowListed
    <3>2. CASE s \in ToSet(fin.list)
      <4>1. Between(s.w)
        BY <2>1, <3>2 DEF ListPlaced
      <4> QED
        BY <1>4, <3>1, <4>1
    <3>3. CASE s.w \in {first, last}
      BY <1>5, <3>1, <3>3
    <3> QED
      BY <2>7, <3>1, <3>2, <3>3
  <2>9. ListPlaced(fin)'
    BY <2>8 DEF ListPlaced, Between
  <2>10. Fits(fin)'
    BY <1>1 DEF Fits
  <2> QED
    BY <2>7, <2>9, <2>10
<1> QED
  BY <1>4, <1>8, <1>9 DEF GapParts

\* The invariant holds at the start,
LEMMA GapsStart == SegmenterInit => GapInv
<1> SUFFICES ASSUME SegmenterInit PROVE GapInv
  OBVIOUS
<1>1. SegmenterInv
  BY SegmenterStarts
<1>2. /\ chunks = {} /\ audio = [w \in Window |-> {}] /\ first = Unset /\ last = Unset
      /\ queue = <<>> /\ fin = Unset /\ toLoad = Unset /\ header = Unset
  BY DEF SegmenterInit
<1>3. Placed
  BY <1>2 DEF Placed
<1>4. Queued /\ HeaderTyped
  BY <1>2 DEF Queued, HeaderTyped
<1>5. Loads
  <2>1. Cardinality(chunks) = 0 /\ Capacity \in Nat
    BY <1>2, FS_EmptySet, SegmenterAssumption
  <2> QED
    BY <1>2, <2>1 DEF Loads
<1>6. DumpTyped
  BY DEF SegmenterInit, DumpTyped
<1> QED
  BY <1>1, <1>2, <1>3, <1>4, <1>5, <1>6 DEF GapInv

\* Time does not go back.
LEMMA TimePasses ==
    ASSUME [SegmenterNext]_segmenterVars
    PROVE  now' = now \/ now' = now + 1
<1>1. ASSUME Chunk \/ Silence \/ NoMapCame \/ GroupMin \/ LoadHeader PROVE now' = now \/ now' = now + 1
  BY <1>1 DEF Chunk, Silence, NoMapCame, GroupMin, LoadHeader
<1>2. ASSUME LoadChunk \/ Loaded \/ Settle \/ Dump \/ Restart \/ UNCHANGED segmenterVars
      PROVE  now' = now
  BY <1>2 DEF LoadChunk, Loaded, Settle, Dump, Restart, segmenterVars
<1> QED
  BY <1>1, <1>2 DEF SegmenterNext

\* What is dumped is a map, and chunks that came.
LEMMA DumpsAreTyped ==
    ASSUME GapInv, [SegmenterNext]_segmenterVars
    PROVE  DumpTyped'
<1>1. CASE Dump
  <2> DEFINE map == IF fin = Unset THEN Unset ELSE DumpMap(fin)
  <2>1. dump'.chunks = chunks /\ dump'.map = map /\ now' = now
    BY <1>1 DEF Dump
  <2>2. \A t \in chunks : t < now
    BY AllIsFinite DEF GapInv, Placed
  <2>3. map # Unset => fin # Unset /\ map = DumpMap(fin) /\ Typed(fin)
    BY DEF GapInv, Consistent
  <2> HIDE DEF map
  <2> QED
    BY <2>1, <2>2, <2>3, DumpedIsTyped DEF DumpTyped
<1>2. CASE UNCHANGED dump
  <2>1. \A t \in dump.chunks : t \in Nat /\ t < now
    BY SegmenterAssumption DEF GapInv, DumpTyped, SegmenterInv, DumpInTime, Times
  <2>2. now \in Nat
    BY DEF GapInv, SegmenterInv
  <2>3. \A t \in dump'.chunks : t < now'
    BY <1>2, <2>1, <2>2, TimePasses
  <2> QED
    BY <1>2, <2>3 DEF GapInv, DumpTyped
<1> QED
  BY <1>1, <1>2, DumpStays

\* A crowded load is not undone.
LEMMA CrowdedStays ==
    ASSUME [SegmenterNext]_segmenterVars
    PROVE  crowded => crowded'
<1>1. ASSUME Chunk \/ Silence \/ NoMapCame \/ GroupMin \/ LoadHeader PROVE crowded => crowded'
  BY <1>1 DEF Chunk, Silence, NoMapCame, GroupMin, LoadHeader, lives
<1>2. ASSUME LoadChunk \/ Loaded \/ Settle \/ Dump \/ Restart \/ UNCHANGED segmenterVars
      PROVE  crowded' = crowded
  BY <1>2 DEF LoadChunk, Loaded, Settle, Dump, Restart, segmenterVars, lives
<1> QED
  BY <1>1, <1>2 DEF SegmenterNext

\* each step that does not crowd the buffer during a load keeps it,
LEMMA GapsKept ==
    ASSUME GapInv, [SegmenterNext]_segmenterVars, ~crowded'
    PROVE  GapInv'
<1>1. SegmenterInv'
  BY SegmenterKeeps DEF GapInv
<1>2. GapParts'
  <2>1. CASE Chunk
    BY <1>1, <2>1, ChunkGaps
  <2>2. CASE Silence
    BY <2>2, SilenceGaps
  <2>3. CASE NoMapCame
    BY <2>3, NoMapCameGaps
  <2>4. CASE GroupMin
    BY <2>4, GroupGaps
  <2>5. CASE LoadHeader
    BY <2>5, HeaderGaps
  <2>6. CASE LoadChunk
    BY <1>1, <2>6, LoadChunkGaps
  <2>7. CASE Loaded
    BY <2>7, LoadedGaps
  <2>8. CASE Settle
    BY <2>8, SettleGaps
  <2>9. CASE Restart
    BY <2>9, RestartGaps
  <2>10. CASE Dump
    BY <2>10, StillGaps DEF Dump, segmenter, loading
  <2>11. CASE UNCHANGED segmenterVars
    BY <2>11, StillGaps DEF segmenterVars, segmenter, loading
  <2> QED
    BY <2>1, <2>2, <2>3, <2>4, <2>5, <2>6, <2>7, <2>8, <2>9, <2>10, <2>11 DEF SegmenterNext
<1>3. DumpTyped'
  BY DumpsAreTyped
<1> QED
  BY <1>1, <1>2, <1>3 DEF GapInv, GapParts

\* and it is what a player is promised.
LEMMA GapsShow == GapInv => DiscontinuityAtGaps
<1> SUFFICES ASSUME GapInv, NEW i \in 1 .. Len(List) - 1
             PROVE  List[i + 1].dseq = List[i].dseq + (IF List[i + 1].ts = List[i].end THEN 0 ELSE 1)
  BY DEF DiscontinuityAtGaps
<1>1. CASE fin = Unset
  <2>1. List = <<>> /\ Len(<<>>) = 0
    BY <1>1 DEF List
  <2>2. i \in 1 .. -1
    BY <2>1
  <2> QED
    BY <2>2
<1>2. CASE fin # Unset
  <2>1. List = fin.list /\ Neighbours(fin.list, Gapped)
    BY <1>2 DEF List, GapInv, Consistent
  <2> QED
    BY <2>1 DEF Neighbours, Gapped
<1> QED
  BY <1>1, <1>2

\* As long as no load was crowded, the discontinuity sequence of the list
\* (hls_segmenter.coffee:390-428) goes up by one between two segments if the second does not
\* begin at the end of the first one's window, and stays if it does.
THEOREM DiscontinuitiesAreGaps == SegmenterSpec => []DiscontinuityAtGaps
<1>1. SegmenterInit => GapInv
  BY GapsStart
<1>2. (~crowded => GapInv) /\ [SegmenterNext]_segmenterVars => (~crowded => GapInv)'
  BY GapsKept, CrowdedStays
<1>3. (~crowded => GapInv) => DiscontinuityAtGaps
  BY GapsShow DEF DiscontinuityAtGaps
<1> QED
  BY <1>1, <1>2, <1>3, PTL DEF SegmenterSpec

-----------------------------------------------------------------------------
(* The numbers of the segments.  Numbers grow with time (Numbers), and the list   *)
(* has all from its first segment on (Contiguous).  So that a segment without a   *)
(* number is listed only after all that have one, what has a number and is not    *)
(* listed is accounted for: it is gone from the buffer or waits for the load      *)
(* (Accounted); and none that the buffer has in full lies, without a number, next *)
(* before the last one (Below).  The last dump has the same of its chunks and its *)
(* map (DumpHolds).                                                               *)

\* The chunks a segment of window w can have
LEMMA SpanIs ==
    ASSUME NEW w \in Window
    PROVE  /\ IsFiniteSet(Span(w)) /\ Cardinality(Span(w)) = Length /\ Span(w) \subseteq Nat
           /\ Start(w) \in Span(w) /\ Start(w) \in Nat /\ End(w) \in Nat
           /\ Start(w) < End(w) /\ End(w) = Start(w) + Length
           /\ \A t \in Span(w) : Of(t) = w /\ Start(w) <= t /\ t < End(w)
           /\ \A t \in Nat : Of(t) = w => t \in Span(w)
<1>1. w \in Nat /\ Length \in Nat /\ Length > 0
  BY WindowsNumbered, SegmenterAssumption
<1>2. w * Length \in Nat
  BY <1>1
<1>3. Start(w) \in Nat /\ End(w) = Start(w) + Length
  BY <1>1, <1>2 DEF Start, End
<1>4. IsFiniteSet(Span(w)) /\ Cardinality(Span(w)) = Length
  <2>1. Cardinality(Start(w) .. End(w) - 1) = Length
    BY <1>1, <1>3, FS_Interval
  <2>2. IsFiniteSet(Start(w) .. End(w) - 1)
    BY <1>1, <1>3, FS_Interval
  <2> QED
    BY <2>1, <2>2 DEF Span
<1>5. \A t \in Span(w) : t \in Nat /\ Of(t) = w /\ Start(w) <= t /\ t < End(w)
  <2> SUFFICES ASSUME NEW t \in Span(w) PROVE t \in Nat /\ Of(t) = w /\ Start(w) <= t /\ t < End(w)
    OBVIOUS
  <2>1. t \in Nat /\ Start(w) <= t /\ t < End(w)
    BY <1>1, <1>3 DEF Span
  <2> QED
    BY <1>1, <2>1, OfIs
<1>6. \A t \in Nat : Of(t) = w => t \in Span(w)
  BY <1>3, <1>1, WindowOf DEF Span
<1>7. Start(w) \in Span(w) /\ Start(w) < End(w) /\ End(w) \in Nat
  BY <1>1, <1>3 DEF Span
<1> QED
  BY <1>3, <1>4, <1>5, <1>6, <1>7

\* A segment is complete if it has all of them.
LEMMA CompleteIs ==
    ASSUME SegmenterInv, Placed, NEW w \in Window
    PROVE  audio[w] \subseteq Span(w) /\ (Complete(w) <=> Span(w) \subseteq audio[w])
<1>1. \A t \in audio[w] : t \in Nat /\ Of(t) = w
  BY DEF Placed
<1>2. audio[w] \subseteq Span(w)
  BY <1>1, SpanIs
<1>3. IsFiniteSet(audio[w]) /\ Cardinality(audio[w]) \in Nat /\ Length \in Nat
  BY FS_CardinalityType, SegmenterAssumption DEF SegmenterInv
<1>4. IsFiniteSet(Span(w)) /\ Cardinality(Span(w)) = Length
  BY SpanIs
<1>5. w # Unset
  BY WindowsNumbered, SegmenterAssumption
<1>6. ASSUME Span(w) \subseteq audio[w] PROVE Cardinality(audio[w]) >= Length
  <2>1. audio[w] = Span(w)
    BY <1>2, <1>6
  <2>2. Cardinality(audio[w]) = Length
    BY <1>4, <2>1, Zenon
  <2> QED
    BY <1>3, <2>2
<1>7. ASSUME Cardinality(audio[w]) >= Length PROVE Span(w) \subseteq audio[w]
  <2>1. Cardinality(audio[w]) <= Cardinality(Span(w)) /\ (Cardinality(audio[w]) = Cardinality(Span(w)) => audio[w] = Span(w))
    BY <1>2, <1>4, FS_Subset
  <2>2. audio[w] = Span(w)
    BY <1>3, <1>4, <1>7, <2>1
  <2> QED
    BY <2>2
<1> QED
  BY <1>2, <1>5, <1>6, <1>7 DEF Complete

\* What a list holds with one more at its end,
LEMMA AppendedSet ==
    ASSUME NEW q \in Seq(Segment), NEW x
    PROVE  ToSet(Append(q, x)) = ToSet(q) \cup {x}
<1> DEFINE S == Segment \cup {x}
           r == Append(q, x)
<1>1. q \in Seq(S) /\ x \in S
  OBVIOUS
<1> HIDE DEF S
<1>2. /\ r \in Seq(S) /\ Len(r) = Len(q) + 1 /\ Len(q) \in Nat /\ r[Len(r)] = x
      /\ \A i \in 1 .. Len(q) : r[i] = q[i]
      /\ DOMAIN r = 1 .. Len(r) /\ DOMAIN q = 1 .. Len(q)
  BY <1>1
<1> HIDE DEF r
<1>3. \A i \in 1 .. Len(r) : i \in 1 .. Len(q) \/ i = Len(r)
  BY <1>2
<1>4. \A i \in 1 .. Len(q) : i \in 1 .. Len(r)
  BY <1>2
<1>5. Len(r) \in 1 .. Len(r)
  BY <1>2
<1>6. \A y : (\E i \in 1 .. Len(r) : y = r[i]) <=> (\E i \in 1 .. Len(q) : y = q[i]) \/ y = x
  BY <1>2, <1>3, <1>4, <1>5
<1>7. ToSet(r) = {r[i] : i \in 1 .. Len(r)} /\ ToSet(q) = {q[i] : i \in 1 .. Len(q)}
  BY <1>2 DEF ToSet
<1>8. \A y : y \in ToSet(r) <=> y \in ToSet(q) \cup {x}
  BY <1>6, <1>7
<1> QED
  BY <1>8 DEF r

\* or at its front
LEMMA PrependedSet ==
    ASSUME NEW q \in Seq(Segment), NEW x
    PROVE  ToSet(<<x>> \o q) = ToSet(q) \cup {x}
<1> DEFINE S == Segment \cup {x}
           r == <<x>> \o q
<1>1. q \in Seq(S) /\ x \in S /\ <<x>> \in Seq(S)
  OBVIOUS
<1> HIDE DEF S
<1>2. /\ r \in Seq(S) /\ Len(r) = Len(q) + 1 /\ Len(q) \in Nat /\ r[1] = x
      /\ \A i \in 2 .. Len(r) : r[i] = q[i - 1]
      /\ DOMAIN r = 1 .. Len(r) /\ DOMAIN q = 1 .. Len(q)
  BY <1>1
<1> HIDE DEF r
<1>3. \A i \in 1 .. Len(r) : i = 1 \/ (i \in 2 .. Len(r) /\ i - 1 \in 1 .. Len(q))
  BY <1>2
<1>4. ASSUME NEW i \in 1 .. Len(q) PROVE i + 1 \in 1 .. Len(r) /\ r[i + 1] = q[i]
  <2>1. i + 1 \in 2 .. Len(r) /\ (i + 1) - 1 = i
    BY <1>2
  <2> QED
    BY <1>2, <2>1
<1>5. 1 \in 1 .. Len(r)
  BY <1>2
<1>6. \A y : (\E i \in 1 .. Len(r) : y = r[i]) <=> (\E i \in 1 .. Len(q) : y = q[i]) \/ y = x
  BY <1>2, <1>3, <1>4, <1>5
<1>7. ToSet(r) = {r[i] : i \in 1 .. Len(r)} /\ ToSet(q) = {q[i] : i \in 1 .. Len(q)}
  BY <1>2 DEF ToSet
<1>8. \A y : y \in ToSet(r) <=> y \in ToSet(q) \cup {x}
  BY <1>6, <1>7
<1> QED
  BY <1>8 DEF r

\* At most what was thrown out, or has failed, differs; or window w's segment is listed.
Unlisted(f, e) ==
    e.map = f.map /\ e.min = f.min /\ e.list = f.list /\ e.seq = f.seq /\ e.spent = f.spent
Enlisted(f, e, w) ==
    /\ e.map = f.map /\ e.min = f.min
    /\ w \notin f.spent /\ e.spent = f.spent \cup {w}
    /\ Numbered(f, w) \/ After(f, w)
    /\ e.seq = (IF Numbered(f, w) THEN f.seq ELSE f.seq + 1)
    /\ \E x \in ToSet(e.list) : /\ x.w = w /\ x.id = IdOf(f, w)
                                /\ ToSet(e.list) = ToSet(f.list) \cup {x}

\* A segment that is written is listed, with its number, unless it is none of the finalizer's:
\* whatever is listed comes before it, or whatever is listed comes after it.
LEMMA WriteLists ==
    ASSUME NEW f, Consistent(f), NEW w \in Window, NEW parts, AudioOf(w, parts),
           \/ \A s \in ToSet(f.list) : s.w < w
           \/ \A s \in ToSet(f.list) : w < s.w
           \/ w \in f.spent
    PROVE  LET e == Write(f, w, parts)
           IN  \/ /\ Unlisted(f, e)
                  /\ \/ Numbered(f, w) /\ BelowMin(f, w)
                     \/ ~Numbered(f, w) /\ ~After(f, w)
                     \/ w \in f.spent
               \/ Enlisted(f, e, w)
<1> DEFINE e == Write(f, w, parts)
           s == Timed(w, parts)
           id == IdOf(f, w)
<1>1. Typed(f) /\ f.list \in Seq(Segment)
  BY DEF Consistent, Typed
<1>2. \/ /\ Same(f, e)
         /\ \/ Numbered(f, w) /\ BelowMin(f, w)
            \/ ~Numbered(f, w) /\ ~After(f, w)
            \/ w \in f.spent
      \/ /\ Taken(f, e, w)
         /\ AtEnd(f, e, s, id) \/ AtFront(f, e, s, id) \/ Within(f, e, s)
  BY <1>1, WriteIs
<1>3. s.w = w /\ s.ts \in Int /\ Start(w) <= s.ts /\ s.ts < End(w) /\ s.end = End(w)
  BY TimedIs
<1>4. \A x \in ToSet(f.list) : x.w \in Nat /\ x.ts \in Int /\ Start(x.w) <= x.ts /\ x.ts < End(x.w)
  BY WindowListed
<1>5. w \in Nat /\ Start(w) \in Int /\ End(w) \in Int
  BY WindowsNumbered, WindowsAre
<1>6. f.list # <<>> => Head(f.list) \in ToSet(f.list) /\ Last(f.list) \in ToSet(f.list)
  BY <1>1, Ends
<1> HIDE DEF e, s, id
<1>7. CASE Same(f, e)
  BY <1>2, <1>7 DEF Same, Taken, Unlisted, e
<1>8. CASE Taken(f, e, w) /\ AtEnd(f, e, s, id)
  <2>1. PICK x : e.list = Append(f.list, x) /\ x = Listed(s, id, e.dseq, f.pts)
    BY <1>8 DEF AtEnd
  <2>2. x.w = w /\ x.id = id
    BY <1>3, <2>1 DEF Listed
  <2>3. ToSet(Append(f.list, x)) = ToSet(f.list) \cup {x}
    BY <1>1, AppendedSet
  <2>4. ToSet(e.list) = ToSet(f.list) \cup {x}
    BY <2>1, <2>3, Zenon
  <2> QED
    BY <1>8, <2>2, <2>4 DEF Taken, Enlisted, e, id
<1>9. CASE Taken(f, e, w) /\ AtFront(f, e, s, id)
  <2>1. PICK d, p : e.list = <<Listed(s, id, d, p)>> \o f.list
    BY <1>9 DEF AtFront
  <2> DEFINE x == Listed(s, id, d, p)
  <2>2. x.w = w /\ x.id = id
    BY <1>3 DEF Listed
  <2> HIDE DEF x
  <2>3. ToSet(<<x>> \o f.list) = ToSet(f.list) \cup {x}
    BY <1>1, PrependedSet
  <2>4. ToSet(e.list) = ToSet(f.list) \cup {x}
    BY <2>1, <2>3, Zenon DEF x
  <2> QED
    BY <1>9, <2>2, <2>4 DEF Taken, Enlisted, e, id
<1>10. CASE Taken(f, e, w) /\ Within(f, e, s)
  <2>1. /\ f.list # <<>> /\ ~(s.ts > Last(f.list).ts) /\ ~(s.ts < Head(f.list).ts) /\ w \notin f.spent
    BY <1>10 DEF Within, Taken
  <2> DEFINE v == Last(f.list).w
             u == Head(f.list).w
  <2>a. /\ v \in Int /\ u \in Int /\ w \in Int
        /\ Last(f.list).ts \in Int /\ Last(f.list).ts < End(v)
        /\ Head(f.list).ts \in Int /\ Start(u) <= Head(f.list).ts
    BY <1>4, <1>5, <1>6, <2>1
  <2> HIDE DEF v, u
  <2>2. CASE v < w
    <3>1. End(v) <= Start(w) /\ End(v) \in Int
      BY <2>a, <2>2, WindowsApart, WindowsAre
    <3> QED
      BY <1>3, <1>5, <2>1, <2>a, <3>1
  <2>3. CASE w < u
    <3>1. End(w) <= Start(u) /\ Start(u) \in Int
      BY <2>a, <2>3, WindowsApart, WindowsAre
    <3> QED
      BY <1>3, <1>5, <2>1, <2>a, <3>1
  <2>4. v < w \/ w < u
    BY <1>6, <2>1 DEF v, u
  <2> QED
    BY <2>2, <2>3, <2>4
<1> QED
  BY <1>2, <1>7, <1>8, <1>9, <1>10

\* Windows begin at different times.
LEMMA StartIs ==
    ASSUME NEW v \in Window, NEW w \in Window
    PROVE  /\ Start(v) \in Nat /\ End(v) \in Nat /\ Start(v) < End(v)
           /\ Start(v) = Start(w) <=> v = w
           /\ Start(v) < Start(w) <=> v < w
           /\ v < w <=> End(v) <= Start(w)
           /\ v < w <=> Start(v) < End(w) - Length
<1>1. v \in Nat /\ w \in Nat /\ v \in Int /\ w \in Int
  BY WindowsNumbered
<1>2. /\ Start(v) \in Nat /\ End(v) \in Nat /\ Start(v) < End(v) /\ End(v) = Start(v) + Length
      /\ Start(w) \in Nat /\ End(w) \in Nat /\ Start(w) < End(w) /\ End(w) = Start(w) + Length
  BY SpanIs
<1>3. Length \in Nat /\ Length > 0
  BY SegmenterAssumption
<1>4. v < w => End(v) <= Start(w)
  BY <1>1, WindowsApart
<1>5. w < v => End(w) <= Start(v)
  BY <1>1, WindowsApart
<1>6. v < w \/ v = w \/ w < v
  BY <1>1
<1> QED
  BY <1>1, <1>2, <1>3, <1>4, <1>5, <1>6

\* What is listed has its numbers; a segment that is not written, or is written with the next
\* number at the end of time, or with that of the map, keeps the numbers in order.
LEMMA NumbersGrow ==
    ASSUME NEW f, Consistent(f), NEW w \in Window, NEW e, NEW P, Numbers(f, P),
           \/ Unlisted(f, e)
           \/ /\ Enlisted(f, e, w)
              /\ Numbered(f, w) \/ \A p \in P : p[2] < w
    PROVE  /\ Numbers(e, P \cup Notes(e))
           /\ Unlisted(f, e) => P \cup Notes(e) = P
           /\ Enlisted(f, e, w) => /\ P \cup Notes(e) = P \cup {<<IdOf(f, w), w>>}
                                   /\ Windows(e) = Windows(f) \cup {w}
                                   /\ Numbered(f, w) => P \cup Notes(e) = P
<1>1. CASE Unlisted(f, e)
  <2>1. Notes(e) = Notes(f)
    BY <1>1 DEF Unlisted, Notes
  <2>2. P \cup Notes(e) = P
    BY <2>1 DEF Numbers
  <2>3. Numbers(e, P)
    BY <1>1, <2>1 DEF Numbers, Unlisted
  <2>4. ~Enlisted(f, e, w)
    BY <1>1 DEF Enlisted, Unlisted
  <2> QED
    BY <1>1, <2>2, <2>3, <2>4
<1>2. CASE Enlisted(f, e, w) /\ (Numbered(f, w) \/ \A p \in P : p[2] < w)
  <2> DEFINE id == IdOf(f, w)
             q == <<id, w>>
  <2>1. PICK x \in ToSet(e.list) : x.w = w /\ x.id = id /\ ToSet(e.list) = ToSet(f.list) \cup {x}
    BY <1>2 DEF Enlisted
  <2>2. Notes(e) = Notes(f) \cup {q} /\ Windows(e) = Windows(f) \cup {w}
    BY <2>1 DEF Notes, Windows
  <2>3. P \cup Notes(e) = P \cup {q}
    BY <2>2 DEF Numbers
  <2>4. ~Unlisted(f, e)
    BY <1>2 DEF Enlisted, Unlisted
  <2>5. f.seq \in Nat /\ w \in Nat /\ w \in Int
    BY WindowsNumbered DEF Consistent, Typed
  <2>6. /\ P \subseteq Nat \X Window
        /\ \A p \in P : p[1] < f.seq
        /\ \A n \in 0 .. f.seq - 1 : \E p \in P : p[1] = n
        /\ \A p, r \in P : (p[2] < r[2] => p[1] < r[1]) /\ (p[2] = r[2] => p[1] = r[1])
        /\ Notes(f) \subseteq P
        /\ \A k \in DOMAIN f.map : \E p \in P : k = Start(p[2]) /\ f.map[k] = p[1]
    BY DEF Numbers
  <2>7. e.map = f.map /\ e.seq = (IF Numbered(f, w) THEN f.seq ELSE f.seq + 1)
    BY <1>2 DEF Enlisted
  <2>8. CASE Numbered(f, w)
    <3>1. Start(w) \in DOMAIN f.map /\ id = f.map[Start(w)]
      BY <2>8 DEF Numbered, IdOf
    <3>2. PICK p \in P : Start(w) = Start(p[2]) /\ f.map[Start(w)] = p[1]
      BY <2>6, <3>1
    <3>3. p[2] \in Window /\ p = <<p[1], p[2]>>
      BY <2>6
    <3>4. p[2] = w
      BY <3>2, <3>3, StartIs
    <3>5. p = q
      BY <3>1, <3>2, <3>3, <3>4
    <3>6. P \cup Notes(e) = P
      BY <2>3, <3>5
    <3>7. Notes(e) \subseteq P
      BY <3>6
    <3>8. Numbers(e, P)
      BY <2>6, <2>7, <2>8, <3>7 DEF Numbers
    <3> QED
      BY <1>2, <2>2, <2>3, <2>4, <3>6, <3>8
  <2>9. CASE ~Numbered(f, w) /\ \A p \in P : p[2] < w
    <3>1. id = f.seq /\ e.seq = f.seq + 1 /\ q = <<f.seq, w>> /\ q[1] = f.seq /\ q[2] = w
      BY <2>7, <2>9 DEF IdOf
    <3> DEFINE Q == P \cup {q}
    <3>2. Q \subseteq Nat \X Window
      BY <2>5, <2>6, <3>1
    <3>3. \A p \in P : p[1] \in Nat /\ p[2] \in Nat /\ p[1] < f.seq /\ p[2] < w
      BY <2>6, <2>9, WindowsNumbered
    <3>4. \A p \in Q : p[1] < e.seq
      BY <2>5, <3>1, <3>3
    <3>5. ASSUME NEW n \in 0 .. e.seq - 1 PROVE \E p \in Q : p[1] = n
      <4>1. n \in 0 .. f.seq - 1 \/ n = f.seq
        BY <2>5, <3>1
      <4> HIDE DEF q
      <4> QED
        BY <2>6, <3>1, <4>1
    <3>6. ASSUME NEW p \in Q, NEW r \in Q
          PROVE  (p[2] < r[2] => p[1] < r[1]) /\ (p[2] = r[2] => p[1] = r[1])
      <4>1. p \in P \/ p = q
        OBVIOUS
      <4>2. r \in P \/ r = q
        OBVIOUS
      <4> HIDE DEF q, Q
      <4> QED
        BY <2>5, <2>6, <3>1, <3>3, <4>1, <4>2
    <3>7. Notes(e) \subseteq Q
      BY <2>2, <2>6
    <3>8. \A k \in DOMAIN e.map : \E p \in Q : k = Start(p[2]) /\ e.map[k] = p[1]
      BY <2>6, <2>7
    <3> HIDE DEF Q
    <3>9. Numbers(e, Q)
      BY <3>2, <3>4, <3>5, <3>6, <3>7, <3>8 DEF Numbers
    <3> QED
      BY <1>2, <2>2, <2>3, <2>4, <2>9, <3>9 DEF Q
  <2> QED
    BY <1>2, <2>8, <2>9
<1> QED
  BY <1>1, <1>2

\* The minimum follows the list only once the load is settled.
LEMMA SyncedTo ==
    ASSUME NEW f, Consistent(f), NEW removed
    PROVE  LET e == Synced(f, removed)
           IN  e.min = f.min \/ (~settling /\ f.list # <<>> /\ e.min = Head(f.list).ts)
<1> DEFINE h == Head(f.list).ts
           e == [f EXCEPT !.min = h]
<1>1. Fields(f)
  BY DEF Consistent, Typed
<1>2. e = [f EXCEPT !.min = h]
  OBVIOUS
<1> HIDE DEF h, e
<1>3. e.min = h
  BY <1>1, <1>2 DEF Fields
<1>4. \/ Synced(f, removed) = f
      \/ ~settling /\ f.list # <<>> /\ Synced(f, removed) = e
  BY <1>2 DEF Synced, h
<1> QED
  BY <1>3, <1>4 DEF h

\* What the insertion of chunk t leaves of the finalizer f
Cleared(f, e, t) ==
    \E g : /\ g = f \/ g = [f EXCEPT !.failed = TRUE]
           /\ \/ e = g
              \/ \E m : /\ Oldest(m, t) /\ m \in Nat
                        /\ e = Synced(Expire(g, m), Expire(g, m).list # g.list)

\* The finalizer keeps all but the oldest of its list.
LEMMA ClearedIs ==
    ASSUME NEW f, Consistent(f), NEW t, NEW e, Cleared(f, e, t)
    PROVE  /\ Consistent(e) /\ e.map = f.map /\ e.seq = f.seq /\ e.spent = f.spent
           /\ e.min = f.min \/ (~settling /\ e.list # <<>> /\ e.min = Head(e.list).ts)
           /\ \/ e.list = f.list
              \/ \E m \in Nat : Oldest(m, t) /\ \A s : s \in ToSet(e.list) <=> s \in ToSet(f.list) /\ s.ts > m
<1>0. PICK g : /\ g = f \/ g = [f EXCEPT !.failed = TRUE]
               /\ \/ e = g
                  \/ \E m : /\ Oldest(m, t) /\ m \in Nat
                            /\ e = Synced(Expire(g, m), Expire(g, m).list # g.list)
  BY DEF Cleared
<1>1. Consistent(g) /\ g.list = f.list /\ g.map = f.map /\ g.min = f.min /\ g.seq = f.seq /\ g.spent = f.spent
  BY <1>0, FailedIs DEF Same
<1>2. CASE e = g
  BY <1>1, <1>2
<1>3. ASSUME NEW m, Oldest(m, t), m \in Nat, e = Synced(Expire(g, m), Expire(g, m).list # g.list)
      PROVE  /\ Consistent(e) /\ e.map = f.map /\ e.seq = f.seq /\ e.spent = f.spent
             /\ e.min = f.min \/ (~settling /\ e.list # <<>> /\ e.min = Head(e.list).ts)
             /\ \A s : s \in ToSet(e.list) <=> s \in ToSet(f.list) /\ s.ts > m
  <2> DEFINE x == Expire(g, m)
             r == x.list # g.list
  <2>0. m \in Int
    BY <1>3
  <2>1. /\ Consistent(x) /\ Kept(g, x) /\ x.min = g.min
        /\ \A s : s \in ToSet(x.list) <=> s \in ToSet(g.list) /\ s.ts > m
    BY <1>1, <2>0, ExpireIs
  <2>2. e = Synced(x, r)
    BY <1>3
  <2> HIDE DEF x, r
  <2>3. /\ Consistent(e) /\ Kept(x, e) /\ e.list = x.list
    BY <2>1, <2>2, SyncedIs
  <2>4. e.min = x.min \/ (~settling /\ x.list # <<>> /\ e.min = Head(x.list).ts)
    BY <2>1, <2>2, SyncedTo
  <2> QED
    BY <1>1, <2>1, <2>3, <2>4 DEF Kept
<1> QED
  BY <1>0, <1>2, <1>3

\* What is listed is recorded.
LEMMA RecordIs ==
    ASSUME Record, group # "moved"
    PROVE  Given' = Given \cup (IF fin' = Unset THEN {} ELSE Notes(fin'))
<1> DEFINE N == {<<s.id, s.w, s.pts>> : s \in ToSet(fin'.list)}
<1>1. CASE fin' = Unset
  BY <1>1 DEF Record, Given
<1>2. CASE fin' # Unset
  <2>1. listed' = listed \cup N
    BY <1>2 DEF Record
  <2>2. Given' = Given \cup {<<a[1], a[2]>> : a \in N}
    BY <2>1 DEF Given
  <2>3. {<<a[1], a[2]>> : a \in N} = Notes(fin')
    <3> DEFINE T == ToSet(fin'.list)
    <3> HIDE DEF N
    <3>1. \A a : a \in N <=> \E s \in T : a = <<s.id, s.w, s.pts>>
      BY DEF N
    <3>2. \A p : p \in Notes(fin') <=> \E s \in T : p = <<s.id, s.w>>
      BY DEF Notes
    <3> HIDE DEF T
    <3>3. ASSUME NEW s \in T PROVE <<s.id, s.w>> \in {<<a[1], a[2]>> : a \in N}
      <4> DEFINE a == <<s.id, s.w, s.pts>>
      <4>1. a \in N /\ a[1] = s.id /\ a[2] = s.w
        BY <3>1
      <4> HIDE DEF a
      <4> QED
        BY <4>1
    <3>4. ASSUME NEW a \in N PROVE \E s \in T : <<a[1], a[2]>> = <<s.id, s.w>>
      <4>1. PICK s \in T : a = <<s.id, s.w, s.pts>>
        BY <3>1
      <4>2. a[1] = s.id /\ a[2] = s.w
        BY <4>1
      <4> QED
        BY <4>2
    <3> QED
      BY <3>2, <3>3, <3>4
  <2> QED
    BY <1>2, <2>2, <2>3
<1> QED
  BY <1>1, <1>2

\* Where chunks are
LEMMA WhereIs ==
    ASSUME SegmenterInv, Placed
    PROVE  /\ Left \subseteq Nat /\ All \subseteq Nat /\ chunks \subseteq Nat /\ now \in Nat
           /\ \A c \in Left : c < now
           /\ chunks \subseteq Left /\ chunks \subseteq All
           /\ Loading => All \subseteq Left
           /\ last # Unset => last \in Window /\ last \in Nat /\ \E a \in All : Of(a) = last
           /\ first # Unset => /\ first \in Window /\ first \in Nat /\ \E a \in All : Of(a) = first
                               /\ last # Unset /\ first < last
           /\ \A a \in All : /\ last # Unset /\ Of(a) \in Window /\ Of(a) \in Nat /\ Of(a) <= last /\ a \in audio[Of(a)]
                             /\ Of(a) = last \/ (first # Unset /\ first <= Of(a) /\ Of(a) < last)
           /\ last # Unset => \A c \in Left : Of(c) <= last
           /\ \A w \in Window : audio[w] # {} => \E a \in All : Of(a) = w
           /\ \A c \in Left : Of(c) \in Nat
<1>1. All \subseteq Nat /\ \A a \in All : a < now /\ a \in audio[Of(a)] /\ Of(a) \in Window
  BY AllIsFinite
<1>2. now \in Nat /\ chunks \subseteq All
  BY DEF SegmenterInv, Placed
<1>3. Loading => \A t \in toLoad : t \in Nat /\ t < now /\ \A a \in All : t < a
  BY DEF Placed, Loading
<1>4. Left = (IF Loading THEN All \cup toLoad ELSE chunks)
  BY DEF Left
<1>5. Left \subseteq Nat /\ (\A c \in Left : c < now) /\ chunks \subseteq Left /\ (Loading => All \subseteq Left)
  BY <1>1, <1>2, <1>3, <1>4
<1>6. \A w \in Window : audio[w] # {} => \E a \in All : Of(a) = w
  BY DEF Placed, All
<1>7. last # Unset => last \in Window /\ last \in Nat /\ \E a \in All : Of(a) = last
  BY <1>6, WindowsNumbered DEF SegmenterInv, Placed
<1>8. first # Unset => /\ first \in Window /\ first \in Nat /\ \E a \in All : Of(a) = first
                       /\ last # Unset /\ first < last
  BY <1>6, WindowsNumbered DEF SegmenterInv, Placed
<1>9. ASSUME NEW a \in All
      PROVE  /\ last # Unset /\ Of(a) \in Window /\ Of(a) \in Nat /\ Of(a) <= last /\ a \in audio[Of(a)]
             /\ Of(a) = last \/ (first # Unset /\ first <= Of(a) /\ Of(a) < last)
  <2>1. Of(a) \in Window /\ a \in audio[Of(a)] /\ Of(a) \in Nat
    BY <1>1, WindowsNumbered
  <2>2. last # Unset /\ (Of(a) = last \/ (first # Unset /\ first <= Of(a) /\ Of(a) < last))
    BY <2>1 DEF Placed
  <2> QED
    BY <1>7, <2>1, <2>2
<1>10. ASSUME last # Unset, NEW c \in Left PROVE Of(c) <= last
  <2>1. CASE c \in All
    BY <1>9, <2>1
  <2>2. CASE c \notin All
    <3>1. \A a \in All : c < a
      BY <1>2, <1>3, <1>4, <2>2
    <3>2. PICK a \in All : Of(a) = last
      BY <1>7, <1>10
    <3>3. c \in Nat /\ a \in Nat /\ c <= a
      BY <1>1, <1>5, <3>1, <3>2
    <3> QED
      BY <3>2, <3>3, OfGrows
  <2> QED
    BY <2>1, <2>2
<1>11. \A c \in Left : Of(c) \in Nat
  BY <1>5, WindowOf
<1> QED
  BY <1>1, <1>2, <1>5, <1>6, <1>7, <1>8, <1>9, <1>10, <1>11

\* The buffer has a chunk that is as new as any.
LEMMA NewestIs ==
    ASSUME SegmenterInv, Placed, Newest, NEW a \in All
    PROVE  \E c \in chunks : a <= c /\ Of(a) <= Of(c)
<1>1. a \in Nat /\ chunks \subseteq Nat /\ chunks # {}
  BY WhereIs DEF Newest
<1>2. PICK c \in chunks : TRUE
  BY <1>1
<1>3. CASE c <= a
  <2>1. a \in chunks /\ Of(a) \in Nat
    BY <1>2, <1>3, WhereIs DEF Newest
  <2> QED
    BY <1>1, <2>1
<1>4. CASE a < c
  BY <1>1, <1>4, OfGrows
<1> QED
  BY <1>1, <1>3, <1>4

\* What was listed
LEMMA SeenIs ==
    ASSUME GapInv, Numbering
    PROVE  /\ Seen \subseteq Window /\ Seen \subseteq Nat /\ Shown \subseteq Seen /\ Shown \subseteq Window
           /\ \A w \in Window : (Current # Unset /\ Start(w) \in DOMAIN Current.map) => w \in Seen
           /\ \A u \in Shown : fin # Unset /\ u \in fin.spent /\ Between(u)
           /\ fin # Unset => Current = fin
           /\ Current = Unset => Seen = {} /\ Given = {}
<1>1. CASE Current = Unset
  <2>1. fin = Unset
    BY <1>1 DEF Current
  <2>2. Given = {}
    BY <1>1 DEF Numbering
  <2> QED
    BY <1>1, <2>1, <2>2 DEF Seen, Shown
<1>2. CASE Current # Unset
  <2>1. Numbers(Current, Given)
    BY <1>2 DEF Numbering
  <2>2. \A p \in Given : p[2] \in Window
    BY <2>1 DEF Numbers
  <2>3. Seen \subseteq Window
    BY <2>2 DEF Seen
  <2>4. ASSUME NEW w \in Window, Start(w) \in DOMAIN Current.map PROVE w \in Seen
    <3>1. PICK p \in Given : Start(w) = Start(p[2])
      BY <2>1, <2>4 DEF Numbers
    <3>2. p[2] = w
      BY <2>2, <3>1, StartIs
    <3> QED
      BY <3>2 DEF Seen
  <2>5. ASSUME NEW u \in Shown PROVE fin # Unset /\ u \in fin.spent /\ Between(u) /\ u \in Seen
    <3>1. fin # Unset /\ Current = fin
      BY <2>5 DEF Shown, Current
    <3>2. PICK s \in ToSet(fin.list) : u = s.w
      BY <2>5, <3>1 DEF Shown, Windows
    <3>3. Between(u) /\ u \in fin.spent
      BY <3>1, <3>2, WindowListed DEF GapInv, ListPlaced
    <3>4. <<s.id, s.w>> \in Given
      BY <2>1, <3>1, <3>2 DEF Numbers, Notes
    <3>5. <<s.id, s.w>>[2] = u
      BY <3>2
    <3> HIDE DEF Given
    <3> QED
      BY <3>1, <3>3, <3>4, <3>5 DEF Seen
  <2> QED
    BY <1>2, <2>3, <2>4, <2>5, WindowsNumbered DEF Current
<1> QED
  BY <1>1, <1>2

\* What was listed is no later than the last segment.
LEMMA SeenUpTo ==
    ASSUME GapInv, Numbering, Reached, last # Unset, NEW s \in Seen
    PROVE  s <= last
<1>1. PICK c \in Left : s <= Of(c)
  BY DEF Reached
<1>2. Of(c) <= last /\ Of(c) \in Nat /\ last \in Nat /\ s \in Nat
  BY WhereIs, SeenIs DEF GapInv
<1> QED
  BY <1>1, <1>2

\* Where the chunks stay
LEMMA ChunksStay ==
    ASSUME UNCHANGED <<audio, chunks, toLoad>>
    PROVE  /\ All' = All /\ Left' = Left /\ (Loading' <=> Loading)
           /\ \A w \in Window : /\ Passed(w)' <=> Passed(w)
                                /\ InFull(w)' <=> InFull(w)
                                /\ OnTop(w)' <=> OnTop(w)
                                /\ Complete(w)' <=> Complete(w)
<1>1. All' = All
  BY DEF All, Window
<1>2. Left' = Left /\ (Loading' <=> Loading)
  BY <1>1 DEF Left, Loading
<1> QED
  BY <1>1, <1>2 DEF Passed, InFull, OnTop, Complete, Span

\* A step that changes neither the chunks nor the segments nor what the finalizer has numbered
LEMMA NumbersStay ==
    ASSUME GapInv, NumberParts, UNCHANGED <<chunks, audio, first, last, queue, toLoad, Given>>,
           now' \in Nat, now <= now', MinPlaced',
           Current = Unset <=> Current' = Unset,
           Current # Unset => /\ Current'.map = Current.map /\ Current'.seq = Current.seq
                              /\ Current'.list = Current.list /\ Current'.spent = Current.spent,
           Current # Unset => Current.spent = {} \/ fin # Unset,
           fin # Unset => fin' # Unset,
           fin = Unset => Shown' = {},
           fin' # Unset /\ fin = Unset => queue = <<>> /\ Loading
    PROVE  NumberParts'
<1>1. SegmenterInv /\ Placed /\ Numbering /\ Contiguous /\ InPast /\ Newest /\ Used /\ Reached
      /\ Accounted /\ LastIsFull /\ TopIsFull /\ Middle /\ Below /\ LastQueued
  BY DEF GapInv, NumberParts
<1>2. /\ All' = All /\ Left' = Left /\ (Loading' <=> Loading)
      /\ \A w \in Window : /\ Passed(w)' <=> Passed(w)
                           /\ InFull(w)' <=> InFull(w)
                           /\ OnTop(w)' <=> OnTop(w)
                           /\ Complete(w)' <=> Complete(w)
  BY ChunksStay
<1>3. Given' = Given /\ Seen' = Seen
  BY DEF Seen
<1>4. /\ Seen \subseteq Window /\ Seen \subseteq Nat /\ Shown \subseteq Seen /\ Shown \subseteq Window
      /\ fin # Unset => Current = fin /\ Current' = fin'
      /\ fin' # Unset => Current' = fin'
  BY <1>1, SeenIs DEF Current
<1>5. Shown' = Shown
  <2>1. CASE fin = Unset
    BY <2>1 DEF Shown
  <2>2. CASE fin # Unset
    <3>1. fin'.list = fin.list /\ fin' # Unset /\ Current # Unset
      BY <1>4, <2>2
    <3> QED
      BY <2>2, <3>1 DEF Shown, Windows
  <2> QED
    BY <2>1, <2>2
<1>6. Numbering'
  <2>1. CASE Current = Unset
    BY <1>1, <2>1 DEF Numbering
  <2>2. CASE Current # Unset
    <3>1. Numbers(Current, Given)
      BY <1>1, <2>2 DEF Numbering
    <3>2. Notes(Current') = Notes(Current)
      BY <2>2 DEF Notes
    <3>3. Numbers(Current', Given)
      BY <2>2, <3>1, <3>2 DEF Numbers
    <3>4. Numbers(Current, Given)'
      BY <1>3, <3>3
    <3> QED
      BY <2>2, <3>4 DEF Numbering
  <2> QED
    BY <2>1, <2>2
<1>7. Contiguous'
  BY <1>1, <1>2, <1>3, <1>5 DEF Contiguous
<1>8. InPast'
  <2>1. \A s \in Seen : End(s) \in Int /\ End(s) <= now
    BY <1>1, <1>4, WindowsAre DEF InPast
  <2>2. queue \in Seq(Window) /\ now \in Nat
    BY <1>1 DEF SegmenterInv
  <2>3. \A i \in 1 .. Len(queue) : queue[i] \in Window
    BY <2>2
  <2>4. \A i \in 1 .. Len(queue) : End(queue[i]) \in Int /\ End(queue[i]) <= now
    BY <1>1, <2>3, StartIs DEF InPast
  <2>5. \A s \in Seen : End(s) <= now'
    BY <2>1, <2>2
  <2>6. \A i \in 1 .. Len(queue) : End(queue[i]) <= now'
    BY <2>2, <2>4
  <2> QED
    BY <1>3, <2>5, <2>6 DEF InPast
<1>9. Newest'
  BY <1>1, <1>2 DEF Newest
<1>10. Used'
  <2>1. CASE fin = Unset
    <3>1. fin' # Unset => fin'.spent = {}
      BY <1>4, <2>1
    <3> QED
      BY <3>1 DEF Used
  <2>2. CASE fin # Unset
    <3>1. fin'.spent = fin.spent
      BY <1>4, <2>2
    <3> QED
      BY <1>1, <1>2, <2>2, <3>1 DEF Used
  <2> QED
    BY <2>1, <2>2
<1>11. Reached'
  BY <1>1, <1>2, <1>3 DEF Reached
<1>12. Accounted'
  <2> SUFFICES ASSUME NEW s \in Seen \ Shown PROVE Gone(s)' \/ Waits(s)'
    BY <1>3, <1>5 DEF Accounted
  <2>1. s \in Window /\ (Gone(s) \/ Waits(s))
    BY <1>1, <1>4 DEF Accounted
  <2>2. Gone(s) => Gone(s)'
    BY <1>2, <2>1 DEF Gone, Span
  <2>3. Waits(s) => Waits(s)'
    BY <1>2, <2>1 DEF Waits
  <2> QED
    BY <2>1, <2>2, <2>3
<1>13. LastIsFull'
  <2>1. CASE fin = Unset
    <3>1. ~Loading => Current = Unset
      BY <1>1, <2>1 DEF Current, Loading, GapInv, Loads
    <3>2. ~Loading => Seen = {}
      BY <1>1, <3>1, SeenIs
    <3> QED
      BY <1>2, <1>3, <3>2 DEF LastIsFull
  <2>2. CASE fin # Unset
    <3>1. fin'.spent = fin.spent
      BY <1>4, <2>2
    <3> QED
      BY <1>1, <1>2, <1>3, <3>1 DEF LastIsFull, Complete
  <2> QED
    BY <2>1, <2>2
<1>14. TopIsFull'
  BY <1>1, <1>2, <1>3, <1>4 DEF TopIsFull, Span
<1>15. Middle'
  <2>1. CASE fin = Unset /\ fin' # Unset
    <3>1. queue = <<>> /\ Loading
      BY <2>1
    <3>2. Len(queue) = 0
      BY <3>1
    <3>3. \A w \in Window : ~(\E i \in 1 .. Len(queue) : queue[i] = w)
      BY <3>2
    <3> QED
      BY <1>1, <1>2, <2>1, <3>3 DEF Middle
  <2>2. CASE ~(fin = Unset /\ fin' # Unset)
    BY <1>1, <1>2, <1>3, <2>2 DEF Middle
  <2> QED
    BY <2>1, <2>2
<1>16. Below'
  BY <1>1, <1>2, <1>3, <1>4 DEF Below
<1>17. LastQueued'
  BY <1>1, <1>2 DEF LastQueued, Complete
<1> QED
  BY <1>6, <1>7, <1>8, <1>9, <1>10, <1>11, <1>12, <1>13, <1>14, <1>15, <1>16, <1>17 DEF NumberParts

\* At first nothing was listed.
LEMMA NumbersStart ==
    ASSUME SegmenterInit
    PROVE  NumberInv /\ DumpInv
<1>1. /\ now = Length /\ chunks = {} /\ audio = [w \in Window |-> {}] /\ first = Unset /\ last = Unset
      /\ queue = <<>> /\ fin = Unset /\ toLoad = Unset /\ header = Unset /\ settling = FALSE /\ listed = {}
  BY DEF SegmenterInit
<1>2. Current = Unset /\ Given = {} /\ Seen = {} /\ Shown = {} /\ ~Loading /\ Left = {} /\ Len(queue) = 0
  BY <1>1 DEF Current, Given, Seen, Shown, Loading, Left
<1>3. All = {}
  BY <1>1 DEF All
<1>4. Numbering /\ Contiguous /\ MinPlaced /\ InPast /\ Newest /\ Used /\ Reached
  BY <1>1, <1>2, <1>3 DEF Numbering, Contiguous, MinPlaced, InPast, Newest, Used, Reached
<1>5. Accounted /\ LastIsFull /\ TopIsFull /\ Middle /\ Below /\ LastQueued
  BY <1>1, <1>2 DEF Accounted, LastIsFull, TopIsFull, Middle, Below, LastQueued
<1>6. dump.map = Unset /\ DumpGiven = {} /\ DumpSeen = {}
  <2>1. dump.map = Unset /\ dump.listed = {}
    BY DEF SegmenterInit
  <2> QED
    BY <2>1 DEF DumpGiven, DumpSeen
<1>7. DumpHolds
  BY <1>6 DEF DumpHolds
<1> QED
  BY <1>4, <1>5, <1>7 DEF NumberInv, NumberParts, DumpInv

\* Nothing happens that matters, or time goes by.
LEMMA SilenceNumbers ==
    ASSUME GapInv, NumberParts, UNCHANGED <<chunks, segmenter, toLoad, header, settling, Given>>,
           now' = now \/ now' = now + 1
    PROVE  NumberParts'
<1>1. UNCHANGED <<chunks, audio, first, last, queue, fin, toLoad, header, settling, Given>>
  BY DEF segmenter
<1>2. now \in Nat /\ now' \in Nat /\ now <= now'
  BY DEF GapInv, SegmenterInv
<1>3. Current' = Current /\ Shown' = Shown
  BY <1>1 DEF Current, Shown
<1>4. MinPlaced'
  BY <1>1 DEF NumberParts, MinPlaced, Loading
<1>5. fin = Unset => Shown = {}
  BY DEF Shown
<1>6. Current # Unset => Current.spent = {} \/ fin # Unset
  BY DEF Current, Finalizer
<1> QED
  BY <1>1, <1>2, <1>3, <1>4, <1>5, <1>6, NumbersStay

\* The header is read: the finalizer it makes is the one it was to make.
LEMMA HeaderNumbers ==
    ASSUME UnsetIsNoRecord, HeaderInTime, GapInv, NumberParts, group # "moved", LoadHeader
    PROVE  NumberParts'
<1>1. /\ header # Unset /\ header' = Unset /\ UNCHANGED <<now, chunks, toLoad, settling>>
      /\ IF header.map # Unset /\ fin = Unset THEN Create(header.map) ELSE UNCHANGED segmenter
      /\ Record
  BY DEF LoadHeader
<1>2. fin = Unset /\ queue = <<>> /\ toLoad # Unset /\ now \in Nat
  BY <1>1 DEF GapInv, Loads, SegmenterInv
<1>3. Given' = Given \cup (IF fin' = Unset THEN {} ELSE Notes(fin'))
  BY <1>1, RecordIs
<1>4. CASE header.map = Unset
  <2>1. UNCHANGED <<audio, first, last, queue, fin>>
    BY <1>1, <1>4 DEF segmenter
  <2>2. Current = Unset /\ Current' = Unset /\ Shown' = {}
    BY <1>1, <1>2, <1>4, <2>1 DEF Current, Shown
  <2>3. Given' = Given
    BY <1>2, <1>3, <2>1
  <2>4. MinPlaced'
    BY <1>1, <1>2, <2>1 DEF NumberParts, MinPlaced, Loading
  <2> QED
    BY <1>1, <1>2, <2>1, <2>2, <2>3, <2>4, NumbersStay
<1>5. CASE header.map # Unset
  <2> DEFINE f == Finalizer(header.map)
  <2>1. f # Unset /\ f.list = <<>> /\ f.spent = {} /\ f.min = Unset /\ ToSet(f.list) = {}
    <3>1. Consistent(f) /\ f.list = <<>>
      BY <1>1, <1>5, NewFinalizer DEF GapInv, HeaderTyped
    <3>2. ToSet(f.list) = {}
      BY <3>1, WindowListed
    <3>3. f.spent = {} /\ f.min = Unset
      BY DEF Finalizer
    <3>4. f # Unset
      BY <3>1 DEF UnsetIsNoRecord, Consistent, Typed
    <3> QED
      BY <3>1, <3>2, <3>3, <3>4
  <2>2. Current = f
    BY <1>1, <1>2, <1>5 DEF Current
  <2> HIDE DEF f
  <2>3. UNCHANGED <<audio, first, last, queue>> /\ fin' = f
    BY <1>1, <1>2, <1>5, NoneWritten DEF Create, f
  <2>4. Current' = f /\ Shown' = {}
    BY <2>1, <2>3 DEF Current, Shown, Windows
  <2>5. Given' = Given
    BY <1>3, <2>1, <2>3 DEF Notes
  <2>6. MinPlaced'
    BY <1>1, <2>1, <2>3 DEF NumberParts, MinPlaced, Loading
  <2> QED
    BY <1>1, <1>2, <2>1, <2>2, <2>3, <2>4, <2>5, <2>6, NumbersStay DEF Loading
<1> QED
  BY <1>4, <1>5

\* The first of a list begins before the end of the last segment.
LEMMA HeadPlaced ==
    ASSUME GapInv, fin # Unset, fin.list # <<>>
    PROVE  last # Unset /\ Head(fin.list).ts \in Int /\ Head(fin.list).ts < End(last)
<1> DEFINE h == Head(fin.list)
<1>1. Consistent(fin) /\ ListPlaced(fin) /\ SegmenterInv
  BY DEF GapInv
<1>2. h \in ToSet(fin.list)
  BY <1>1, Ends DEF Consistent, Typed
<1> HIDE DEF h
<1>3. h.w \in Window /\ h.ts \in Int /\ h.ts < End(h.w) /\ Between(h.w)
  BY <1>1, <1>2, WindowListed DEF ListPlaced, Consistent
<1>4. last \in Window /\ h.w <= last /\ last # Unset /\ last \in Nat /\ h.w \in Nat
  BY <1>1, <1>3, WindowsNumbered DEF Between, SegmenterInv
<1>5. h.w = last \/ h.w < last
  BY <1>4
<1>6. End(h.w) <= End(last) /\ End(h.w) \in Int /\ End(last) \in Int
  BY <1>3, <1>4, <1>5, StartIs
<1> QED
  BY <1>3, <1>4, <1>6 DEF h

\* The group learns of the first segment after a load.
LEMMA SettleNumbers ==
    ASSUME UnsetIsNoRecord, GapInv, NumberParts, Settle
    PROVE  NumberParts'
<1> DEFINE h == Head(fin.list).ts
<1>1. /\ settling /\ toLoad = Unset /\ ~settling' /\ fin # Unset
      /\ \/ fin' = fin
         \/ fin.list # <<>> /\ (fin.min = Unset \/ h > fin.min) /\ fin' = [fin EXCEPT !.min = h]
      /\ UNCHANGED <<now, chunks, audio, first, last, queue, toLoad, Given>>
  BY DEF Settle, Given
<1>2. Consistent(fin) /\ now \in Nat
  BY <1>1 DEF GapInv, SegmenterInv
<1>3. fin.list # <<>> => last # Unset /\ h \in Int /\ h < End(last)
  BY <1>1, HeadPlaced
<1>4. fin.min = Unset
  BY <1>1 DEF NumberParts, MinPlaced
<1> DEFINE x == [fin EXCEPT !.min = h]
<1> HIDE DEF h
<1>5. fin.list # <<>> => Consistent(x) /\ Kept(fin, x) /\ x.list = fin.list /\ x.min = h
  BY <1>2, <1>3, <1>4, MinMoved
<1> HIDE DEF x
<1>6. /\ Consistent(fin') /\ Fields(fin')
      /\ fin'.map = fin.map /\ fin'.seq = fin.seq /\ fin'.spent = fin.spent /\ fin'.list = fin.list
      /\ fin'.min = Unset \/ (last # Unset /\ fin'.min = h /\ h < End(last))
  <2>1. CASE fin' = fin
    BY <1>2, <1>4, <2>1 DEF Consistent, Typed
  <2>2. CASE fin.list # <<>> /\ fin' = x
    BY <1>3, <1>5, <2>2 DEF Kept
  <2> QED
    BY <1>1, <2>1, <2>2 DEF x
<1>7. fin' # Unset
  BY <1>6 DEF UnsetIsNoRecord
<1>8. Current = fin /\ Current' = fin'
  BY <1>1, <1>7 DEF Current
<1>9. MinPlaced'
  BY <1>1, <1>6 DEF MinPlaced, Loading
<1> QED
  BY <1>1, <1>2, <1>6, <1>7, <1>8, <1>9, NumbersStay

\* What is dumped of a finalizer has its numbers.
LEMMA DumpedNumbers ==
    ASSUME NEW f, Consistent(f), NEW P, Numbers(f, P), \A s \in ToSet(f.list) : s.ts = Start(s.w)
    PROVE  LET e == Finalizer(DumpMap(f)) IN
             DumpMap(f) # Unset =>
               /\ Numbers(e, P) /\ e.list = <<>> /\ e.spent = {}
               /\ \A w \in Windows(f) : Start(w) \in DOMAIN e.map
<1> SUFFICES ASSUME DumpMap(f) # Unset
             PROVE  LET e == Finalizer(DumpMap(f)) IN
                      /\ Numbers(e, P) /\ e.list = <<>> /\ e.spent = {}
                      /\ \A w \in Windows(f) : Start(w) \in DOMAIN e.map
  OBVIOUS
<1> DEFINE m == DumpMap(f)
           e == Finalizer(m)
           K == {s.ts : s \in ToSet(f.list)}
           v(ts) == (CHOOSE s \in ToSet(f.list) : s.ts = ts).id
<1>1. m.seq = f.seq /\ m.ids = [ts \in K |-> v(ts)]
  BY DEF DumpMap
<1>2. m # Unset
  OBVIOUS
<1> HIDE DEF m
<1>3. e.seq = m.seq /\ e.map = m.ids /\ e.list = <<>> /\ e.spent = {}
  BY <1>2 DEF Finalizer
<1>4. ToSet(e.list) = {}
  <2>1. e.list \in Seq(Segment)
    BY <1>3
  <2> QED
    BY <1>3, <2>1, Ends
<1> HIDE DEF e, K, v
<1>5. Notes(e) = {}
  BY <1>4 DEF Notes
<1>6. ASSUME NEW k \in DOMAIN e.map PROVE \E p \in P : k = Start(p[2]) /\ e.map[k] = p[1]
  <2>1. k \in K /\ e.map[k] = v(k)
    BY <1>1, <1>3, <1>6
  <2>2. PICK s \in ToSet(f.list) : s.ts = k /\ v(k) = s.id
    BY <2>1 DEF K, v
  <2>3. <<s.id, s.w>> \in P
    BY <2>2 DEF Numbers, Notes
  <2>4. <<s.id, s.w>>[1] = s.id /\ <<s.id, s.w>>[2] = s.w /\ k = Start(s.w)
    BY <2>2
  <2> QED
    BY <2>1, <2>2, <2>3, <2>4
<1>7. Numbers(e, P)
  BY <1>1, <1>3, <1>5, <1>6 DEF Numbers
<1>8. ASSUME NEW w \in Windows(f) PROVE Start(w) \in DOMAIN e.map
  <2>1. PICK s \in ToSet(f.list) : s.w = w
    BY DEF Windows
  <2>2. Start(w) \in K
    BY <2>1 DEF K
  <2> QED
    BY <1>1, <1>3, <2>2
<1> QED
  BY <1>3, <1>7, <1>8 DEF e, m

\* Where a map has no segment under another time than its window's, all that is listed
\* begins with its window.
LEMMA WellPlaced ==
    ASSUME NEW f, Consistent(f), DumpMap(f) # Unset, ~Misplaced(DumpMap(f)), NEW s \in ToSet(f.list)
    PROVE  s.ts = Start(s.w)
<1> DEFINE m == DumpMap(f)
           K == {x.ts : x \in ToSet(f.list)}
<1>1. DOMAIN m.ids = K
  BY DEF DumpMap
<1>2. ~Misplaced(m) /\ m # Unset
  OBVIOUS
<1> HIDE DEF m
<1>3. s.ts \in K
  OBVIOUS
<1>4. Start(Of(s.ts)) = s.ts
  BY <1>1, <1>2, <1>3 DEF Misplaced
<1>5. s.w \in Window /\ s.ts \in Int /\ Start(s.w) <= s.ts /\ s.ts < End(s.w)
  BY WindowListed DEF Consistent
<1>6. Start(s.w) \in Nat /\ End(s.w) = Start(s.w) + Length /\ s.w \in Nat
  BY <1>5, SpanIs, WindowsNumbered
<1>7. Of(s.ts) = s.w
  BY <1>5, <1>6, OfIs
<1> QED
  BY <1>4, <1>7

\* A dump has what is listed, each in its map or gone from the buffer.
LEMMA DumpNumbers ==
    ASSUME UnsetIsNoRecord, GapInv, NumberParts, Dump, ~dump'.astray
    PROVE  DumpHolds'
<1>1. /\ toLoad = Unset /\ UNCHANGED now
      /\ dump'.chunks = chunks /\ dump'.map = (IF fin = Unset THEN Unset ELSE DumpMap(fin))
      /\ dump'.listed = listed /\ ~Misplaced(dump'.map)
  BY DEF Dump
<1>2. /\ SegmenterInv /\ Placed /\ Numbering /\ Contiguous /\ InPast /\ Newest /\ Used /\ Reached
      /\ Accounted /\ LastIsFull /\ Below
      /\ chunks \subseteq Nat
  BY <1>1, WhereIs DEF GapInv, NumberParts
<1>3. ~Loading /\ Left = chunks /\ Shown = (IF fin = Unset THEN {} ELSE Windows(fin))
      /\ (fin # Unset => Current = fin) /\ (fin = Unset => Current = Unset)
  BY <1>1, <1>2 DEF Loading, Left, Current, Shown, GapInv, Loads
<1>4. DumpGiven' = Given /\ DumpSeen' = Seen
  BY <1>1 DEF DumpGiven, DumpSeen, Given, Seen
<1>8. \A w \in Window : /\ DumpPassed(w)' <=> Passed(w)
                        /\ DumpInFull(w)' <=> InFull(w)
                        /\ DumpOnTop(w)' <=> OnTop(w)
                        /\ DumpGone(w)' <=> Gone(w)
  BY <1>1, <1>3 DEF DumpPassed, DumpInFull, DumpOnTop, DumpGone, Passed, InFull, OnTop, Gone, Span
<1>9. /\ Seen \subseteq Window /\ Shown \subseteq Seen /\ Shown \subseteq Window
      /\ \A u \in Shown : fin # Unset /\ u \in fin.spent
      /\ Current = Unset => Seen = {} /\ Given = {}
  BY <1>2, SeenIs
<1>10. fin # Unset => dump'.map # Unset /\ \A s \in ToSet(fin.list) : s.ts = Start(s.w)
  <2> SUFFICES ASSUME fin # Unset, NEW s \in ToSet(fin.list)
               PROVE  dump'.map # Unset /\ s.ts = Start(s.w)
    BY <1>1 DEF UnsetIsNoRecord
  <2>1. Consistent(fin) /\ DumpMap(fin) # Unset /\ dump'.map = DumpMap(fin)
    BY <1>1 DEF GapInv, UnsetIsNoRecord
  <2> QED
    BY <1>1, <2>1, WellPlaced
<1>11. IF dump'.map = Unset THEN DumpGiven' = {} ELSE Numbers(Finalizer(dump'.map), DumpGiven')
  <2>1. CASE fin = Unset
    BY <1>1, <1>3, <1>4, <1>9, <2>1
  <2>2. CASE fin # Unset
    <3>1. Consistent(fin) /\ Numbers(fin, Given) /\ dump'.map = DumpMap(fin) /\ dump'.map # Unset
      BY <1>1, <1>2, <1>3, <1>10, <2>2 DEF GapInv, Numbering, UnsetIsNoRecord
    <3>2. Numbers(Finalizer(DumpMap(fin)), Given)
      BY <1>10, <2>2, <3>1, DumpedNumbers
    <3> QED
      BY <1>4, <3>1, <3>2
  <2> QED
    BY <2>1, <2>2
<1>12. ASSUME NEW s \in Seen PROVE DumpGone(s)' \/ DumpWaits(s)'
  <2>0. s \in Window /\ Start(s) \in Span(s) /\ Span(s) \subseteq Nat /\ Start(s) \in Nat
    BY <1>9, SpanIs
  <2>1. CASE Gone(s)
    BY <1>8, <2>0, <2>1
  <2>2. CASE s \in Shown
    <3>1. Start(s) \in DOMAIN dump'.map.ids /\ dump'.map # Unset
      <4>1. fin # Unset /\ dump'.map = DumpMap(fin) /\ dump'.map # Unset
        BY <1>1, <1>9, <1>10, <2>2
      <4>2. PICK x \in ToSet(fin.list) : x.w = s
        BY <1>3, <2>2, <4>1 DEF Windows
      <4>3. x.ts = Start(s)
        BY <1>10, <4>1, <4>2
      <4>4. x.ts \in DOMAIN DumpMap(fin).ids
        BY DEF DumpMap
      <4> QED
        BY <4>1, <4>3, <4>4
    <3>2. audio[s] # {}
      BY <1>2, <1>9, <2>2 DEF Used
    <3>3. PICK a \in All : Of(a) = s
      BY <1>2, <2>0, <3>2, WhereIs
    <3>4. CASE \E c \in chunks : Of(c) = s
      BY <1>1, <3>1, <3>4 DEF DumpWaits
    <3>5. CASE \A c \in chunks : Of(c) # s
      <4>1. ~Passed(s)
        <5> SUFFICES ASSUME NEW c \in chunks, c < Start(s) PROVE FALSE
          BY <1>3 DEF Passed
        <5>1. a \in Nat /\ a \in Span(s) /\ Start(s) <= a
          <6>1. a \in Nat
            BY <1>2, WhereIs
          <6> QED
            BY <2>0, <3>3, <6>1, SpanIs
        <5>2. c <= a /\ c \in Nat
          BY <1>2, <2>0, <5>1
        <5>3. a \in chunks
          BY <1>2, <5>2 DEF Newest
        <5> QED
          BY <3>3, <3>5, <5>3
      <4>2. ~(Span(s) \subseteq chunks)
        <5>1. Of(Start(s)) = s
          BY <2>0, SpanIs
        <5> QED
          BY <2>0, <3>5, <5>1
      <4> QED
        BY <1>3, <1>8, <2>0, <4>1, <4>2 DEF Gone
    <3> QED
      BY <3>4, <3>5
  <2>3. Gone(s) \/ s \in Shown
    <3>1. ~Waits(s)
      BY <1>3 DEF Waits
    <3> QED
      BY <1>2, <3>1 DEF Accounted
  <2> QED
    BY <2>1, <2>2, <2>3
<1>13. ASSUME NEW s \in Seen, OnTop(s), Passed(s) PROVE Span(s) \subseteq chunks
  <2>1. s \in Window /\ s \in Nat /\ OnTop(s) /\ Passed(s)
    BY <1>9, <1>13, WindowsNumbered
  <2>2. PICK c \in chunks : c < Start(s)
    BY <1>3, <2>1 DEF Passed
  <2>3. last # Unset /\ last \in Nat /\ last \in Window
    BY <1>2, WhereIs
  <2>4. s <= last
    BY <1>2, <2>3, SeenUpTo
  <2>5. last <= s
    <3>1. PICK a \in All : Of(a) = last
      BY <1>2, <2>3, WhereIs
    <3>2. PICK d \in chunks : Of(a) <= Of(d)
      BY <1>2, NewestIs
    <3>3. Of(d) <= s /\ Of(d) \in Nat
      BY <1>2, <1>3, <2>1, WhereIs DEF OnTop
    <3> QED
      BY <2>1, <2>3, <3>1, <3>2, <3>3
  <2>6. s = last
    BY <2>1, <2>3, <2>4, <2>5
  <2>7. first # Unset
    <3>1. c \in All /\ Of(c) # last
      <4>1. c \in Nat /\ c \in All
        BY <1>2, WhereIs
      <4>2. c \notin Span(s)
        BY <2>1, <2>2, <4>1, SpanIs
      <4> QED
        BY <2>1, <2>6, <4>1, <4>2, SpanIs
    <3> QED
      BY <1>2, <3>1, WhereIs
  <2>8. Complete(s)
    BY <1>2, <1>3, <2>6, <2>7 DEF LastIsFull
  <2>9. Span(s) \subseteq audio[s]
    BY <1>2, <2>1, <2>8, CompleteIs
  <2>10. ASSUME NEW t \in Span(s) PROVE t \in chunks
    <3>1. t \in All /\ t \in Nat /\ Start(s) <= t /\ Start(s) \in Nat /\ c \in Nat
      BY <1>2, <2>1, <2>9, SpanIs DEF All
    <3>2. c <= t
      BY <2>2, <3>1
    <3> QED
      BY <1>2, <3>1, <3>2 DEF Newest
  <2> QED
    BY <2>10
<1>14. \A s \in Seen : /\ End(s) <= now' /\ \E c \in chunks : s <= Of(c)
                       /\ OnTop(s) /\ Passed(s) => Span(s) \subseteq chunks
  BY <1>1, <1>2, <1>3, <1>13 DEF InPast, Reached
<1>15. \A s \in DumpSeen' :
          /\ End(s) <= now' /\ \E c \in dump'.chunks : s <= Of(c)
          /\ DumpGone(s)' \/ DumpWaits(s)'
          /\ DumpOnTop(s)' /\ DumpPassed(s)' => Span(s) \subseteq dump'.chunks
  BY <1>1, <1>4, <1>8, <1>9, <1>12, <1>14
<1>16. \A x \in DumpSeen' : DumpOnTop(x)' =>
          \A w \in Window : w < x /\ w \notin DumpSeen' /\ DumpInFull(w)' =>
              \E v \in DumpSeen' : w < v /\ v < x
  BY <1>2, <1>4, <1>8, <1>9 DEF Below
<1> QED
  BY <1>11, <1>15, <1>16 DEF DumpHolds, Span

\* The last dump stays what it is.
LEMMA DumpHoldsStill ==
    ASSUME GapInv, DumpHolds, UNCHANGED dump, now' \in Nat, now <= now'
    PROVE  DumpHolds'
<1>1. DumpGiven' = DumpGiven /\ DumpSeen' = DumpSeen
  BY DEF DumpGiven, DumpSeen
<1>2. now \in Nat
  BY DEF GapInv, SegmenterInv
<1>3. ASSUME NEW s \in DumpSeen PROVE End(s) <= now'
  <2>1. dump.map # Unset
    BY DEF DumpHolds, DumpSeen
  <2>2. \A p \in DumpGiven : p[2] \in Window
    BY <2>1 DEF DumpHolds, Numbers
  <2>3. s \in Window
    BY <2>2 DEF DumpSeen
  <2>4. End(s) \in Nat /\ End(s) <= now
    BY <2>3, SpanIs DEF DumpHolds
  <2> QED
    BY <1>2, <2>4
<1> QED
  BY <1>1, <1>3 DEF DumpHolds, DumpPassed, DumpOnTop, DumpInFull, DumpGone, DumpWaits, Span

\* A new process: the numbers are those of the last dump, whose chunks are to be loaded.
LEMMA RestartNumbers ==
    ASSUME UnsetIsNoRecord, GapInv, DumpHolds, Restart
    PROVE  NumberParts'
<1>1. /\ toLoad' = dump.chunks /\ chunks' = {} /\ audio' = [w \in Window |-> {}] /\ settling'
      /\ first' = Unset /\ last' = Unset /\ queue' = <<>> /\ fin' = Unset /\ UNCHANGED now
      /\ listed' = dump.listed
      /\ header' = IF dump.chunks = {} THEN Unset ELSE [map |-> dump.map]
  BY DEF Restart
<1>2. now \in Nat /\ dump.chunks \subseteq Times
  BY DEF GapInv, SegmenterInv, DumpInTime
<1>3. Given' = DumpGiven /\ Seen' = DumpSeen /\ Shown' = {}
  BY <1>1 DEF Given, Seen, Shown, DumpGiven, DumpSeen
<1>4. dump.chunks # Unset
  <2>1. dump.chunks \in SUBSET (0 .. MaxTime)
    BY <1>2 DEF Times
  <2> QED
    BY <2>1, SegmenterAssumption
<1>5. All' = {}
  <2>1. All' = UNION {audio'[w] : w \in Window}
    BY DEF All, Window
  <2>2. \A w \in Window : audio'[w] = {}
    BY <1>1
  <2> QED
    BY <2>1, <2>2
<1>6. Loading' /\ Left' = dump.chunks
  BY <1>1, <1>4, <1>5 DEF Loading, Left
<1>7. \A w \in Window : /\ Passed(w)' <=> DumpPassed(w)
                        /\ InFull(w)' <=> DumpInFull(w)
                        /\ OnTop(w)' <=> DumpOnTop(w)
                        /\ Gone(w)' <=> DumpGone(w)
  BY <1>6 DEF DumpPassed, DumpInFull, DumpOnTop, DumpGone, Passed, InFull, OnTop, Gone, Span
<1>8. ASSUME DumpSeen # {}
      PROVE  dump.map # Unset /\ dump.chunks # {} /\ Numbers(Finalizer(dump.map), DumpGiven)
  <2>1. dump.map # Unset
    BY <1>8 DEF DumpHolds, DumpSeen
  <2> QED
    BY <1>8, <2>1 DEF DumpHolds
<1>9. DumpSeen \subseteq Window
  <2> SUFFICES ASSUME NEW s \in DumpSeen PROVE s \in Window
    OBVIOUS
  <2>1. \A p \in DumpGiven : p[2] \in Window
    BY <1>8 DEF Numbers
  <2> QED
    BY <2>1 DEF DumpSeen
<1>10. ASSUME dump.map # Unset, dump.chunks # {}
       PROVE  Current' = Finalizer(dump.map) /\ Current' # Unset /\ Current'.map = dump.map.ids
  <2>1. header'.map = dump.map /\ header' # Unset
    BY <1>1, <1>10 DEF UnsetIsNoRecord
  <2>2. Current' = Finalizer(dump.map)
    BY <1>1, <1>10, <2>1 DEF Current
  <2>3. Finalizer(dump.map) # Unset
    BY DEF UnsetIsNoRecord, Finalizer, Fields
  <2>4. Finalizer(dump.map).map = dump.map.ids
    BY <1>10 DEF Finalizer
  <2> QED
    BY <2>2, <2>3, <2>4
<1>11. Numbering'
  <2>1. CASE dump.map # Unset /\ dump.chunks # {}
    <3>1. Numbers(Finalizer(dump.map), DumpGiven)
      BY <2>1 DEF DumpHolds
    <3>2. Numbers(Current, Given)'
      BY <1>3, <1>10, <2>1, <3>1
    <3> QED
      BY <1>10, <2>1, <3>2 DEF Numbering
  <2>2. CASE ~(dump.map # Unset /\ dump.chunks # {})
    <3>1. Current' = Unset
      <4>1. CASE dump.chunks = {}
        BY <1>1, <4>1 DEF Current
      <4>2. CASE dump.chunks # {}
        <5>1. header'.map = Unset
          BY <1>1, <2>2, <4>2
        <5> QED
          BY <1>1, <5>1 DEF Current
      <4> QED
        BY <4>1, <4>2
    <3>2. DumpSeen = {}
      BY <1>8, <2>2
    <3>3. Given' = {}
      BY <1>3, <3>2 DEF DumpSeen
    <3> QED
      BY <3>1, <3>3 DEF Numbering
  <2> QED
    BY <2>1, <2>2
<1>12. Accounted'
  <2> SUFFICES ASSUME NEW s \in DumpSeen PROVE Gone(s)' \/ Waits(s)'
    BY <1>3 DEF Accounted
  <2>1. s \in Window /\ (DumpGone(s) \/ DumpWaits(s))
    BY <1>9 DEF DumpHolds
  <2>2. CASE DumpGone(s)
    BY <1>7, <2>1, <2>2
  <2>3. CASE DumpWaits(s)
    <3>1. Current' # Unset /\ Start(s) \in DOMAIN Current'.map /\ \E c \in Left' : Of(c) = s
      BY <1>6, <1>8, <1>10, <2>3 DEF DumpWaits
    <3>2. Waits(s)'
      BY <1>1, <1>6, <3>1 DEF Waits
    <3> QED
      BY <3>2
  <2> QED
    BY <2>1, <2>2, <2>3
<1>13. TopIsFull'
  BY <1>3, <1>6, <1>7, <1>9 DEF TopIsFull, DumpHolds, Span
<1>14. Contiguous' /\ MinPlaced' /\ Middle'
  BY <1>1, <1>3 DEF Contiguous, MinPlaced, Middle
<1>15. InPast'
  <2>1. Len(queue') = 0
    BY <1>1
  <2> QED
    BY <1>1, <1>3, <2>1 DEF InPast, DumpHolds
<1>16. Newest'
  BY <1>1, <1>5 DEF Newest
<1>17. Used' /\ LastIsFull' /\ LastQueued'
  BY <1>1, <1>6 DEF Used, LastIsFull, LastQueued
<1>18. Reached'
  BY <1>3, <1>6 DEF Reached, DumpHolds
<1>19. Below'
  BY <1>3, <1>7, <1>9 DEF Below, DumpHolds
<1> QED
  BY <1>11, <1>12, <1>13, <1>14, <1>15, <1>16, <1>17, <1>18, <1>19 DEF NumberParts

\* A segment without a number is kept if its window comes after all that are listed.
LEMMA AfterIs ==
    ASSUME NEW f, Consistent(f), NEW w \in Window
    PROVE  After(f, w) <=> \A v \in Windows(f) : v < w
<1>1. f.list \in Seq(Segment) /\ InOrderOfTime(f.list)
  BY DEF Consistent, Typed
<1>2. CASE f.list = <<>>
  <2>1. ToSet(f.list) = {}
    BY <1>1, <1>2, Ends
  <2> QED
    BY <1>2, <2>1 DEF After, Windows
<1>3. CASE f.list # <<>>
  <2> DEFINE l == Last(f.list)
             n == Len(f.list)
  <2>1. l = f.list[n] /\ n \in Nat /\ n > 0 /\ l \in ToSet(f.list) /\ ToSet(f.list) = {f.list[i] : i \in 1 .. n}
    BY <1>1, <1>3, Ends
  <2>2. l.w \in Window /\ l.w \in Nat /\ l.ts \in Int /\ Start(l.w) <= l.ts /\ l.ts < End(l.w) /\ l.w \in Windows(f)
    BY <2>1, WindowListed DEF Windows
  <2>3. ASSUME NEW v \in Windows(f) PROVE v \in Nat /\ v <= l.w
    <3>1. PICK i \in 1 .. n : v = f.list[i].w
      BY <2>1 DEF Windows
    <3>2. f.list[i] \in ToSet(f.list)
      BY <2>1, <3>1
    <3>3. v \in Nat
      BY <3>1, <3>2, WindowListed
    <3>4. i = n \/ i < n
      BY <2>1
    <3>5. i < n => v < l.w
      BY <1>1, <2>1, <3>1 DEF InOrderOfTime
    <3> QED
      BY <2>1, <2>2, <3>1, <3>3, <3>4, <3>5
  <2>4. After(f, w) <=> Start(w) > l.ts
    BY <1>3 DEF After
  <2> HIDE DEF l
  <2>5. w \in Nat /\ Start(w) \in Int /\ Start(l.w) \in Int /\ End(l.w) \in Int
    BY <2>2, WindowsNumbered, StartIs
  <2>6. CASE l.w < w
    <3>1. End(l.w) <= Start(w)
      BY <2>2, <2>6, StartIs
    <3>2. After(f, w)
      BY <2>2, <2>4, <2>5, <3>1
    <3>3. \A v \in Windows(f) : v < w
      BY <2>2, <2>3, <2>5, <2>6
    <3> QED
      BY <3>2, <3>3
  <2>7. CASE ~(l.w < w)
    <3>1. Start(w) <= Start(l.w)
      <4>1. w = l.w \/ w < l.w
        BY <2>2, <2>5, <2>7
      <4>2. w < l.w => Start(w) < Start(l.w)
        BY <2>2, StartIs
      <4> QED
        BY <2>5, <4>1, <4>2
    <3> QED
      BY <2>2, <2>4, <2>5, <2>7, <3>1
  <2> QED
    BY <2>6, <2>7
<1> QED
  BY <1>2, <1>3

\* Without a map, what is written is listed and numbered, or something that was written
\* before it comes after it in time.
LEMMA QueueWritten ==
    ASSUME NEW q \in Seq(Window), NEW held, \A i \in 1 .. Len(q) : AudioOf(q[i], held[q[i]])
    PROVE  LET e == WriteAll(Finalizer(Unset), q, held) IN
             /\ Consistent(e) /\ e.map = NoMap /\ e.min = Unset /\ e.spent = Windows(e)
             /\ Numbers(e, Notes(e))
             /\ \A v \in Windows(e) : \E i \in 1 .. Len(q) : v = q[i]
             /\ \A i \in 1 .. Len(q) :
                   q[i] \in Windows(e) \/ \E k \in 1 .. i : q[i] < q[k] /\ q[k] \in Windows(e)
<1>1. Len(q) \in Nat /\ \A i \in 1 .. Len(q) : q[i] \in Window
  OBVIOUS
<1> DEFINE z == Finalizer(Unset)
<1>2. PICK g : InTurn(g, z, q, held)
  BY <1>1, WritesInTurn
<1> DEFINE N == Len(q)
           Fine(n) == /\ Consistent(g[n]) /\ g[n].map = NoMap /\ g[n].min = Unset
                      /\ g[n].spent = Windows(g[n])
                      /\ Numbers(g[n], Notes(g[n]))
                      /\ \A v \in Windows(g[n]) : \E i \in 1 .. n : v = q[i]
                      /\ \A i \in 1 .. n :
                            q[i] \in Windows(g[n]) \/ \E k \in 1 .. i : q[i] < q[k] /\ q[k] \in Windows(g[n])
           S == {n \in 0 .. N : ~Fine(n)}
<1>3. ASSUME NEW n \in 1 .. N, Fine(n - 1) PROVE Fine(n)
  <2> DEFINE f == g[n - 1]
             e == g[n]
             w == q[n]
             P == Notes(f)
  <2>1. e = Write(f, w, held[w])
    BY <1>2 DEF InTurn
  <2>2. w \in Window /\ AudioOf(w, held[w]) /\ w \in Nat
    BY <1>1, WindowsNumbered
  <2>3. /\ Consistent(f) /\ f.map = NoMap /\ f.min = Unset /\ f.spent = Windows(f) /\ Numbers(f, P)
        /\ \A v \in Windows(f) : \E i \in 1 .. n - 1 : v = q[i]
        /\ \A i \in 1 .. n - 1 :
              q[i] \in Windows(f) \/ \E k \in 1 .. i : q[i] < q[k] /\ q[k] \in Windows(f)
    BY <1>3
  <2>a. Windows(f) \subseteq Nat
    BY <2>3, WindowListed DEF Windows
  <2> HIDE DEF f, e, w, P
  <2>4. ~Numbered(f, w)
    BY <2>3 DEF Numbered, NoMap
  <2>5. Fitting(f, w)
    BY <2>4 DEF Fitting
  <2>6. Consistent(e)
    BY <2>1, <2>2, <2>3, <2>5, WriteConsistent
  <2>7. \A i \in 1 .. n : i \in 1 .. n - 1 \/ i = n
    BY <1>1
  <2>8. CASE After(f, w)
    <3>1. \A v \in Windows(f) : v < w
      BY <2>2, <2>3, <2>8, AfterIs
    <3>2. w \notin f.spent
      BY <2>2, <2>3, <3>1
    <3>3. \A s \in ToSet(f.list) : s.w < w
      BY <3>1 DEF Windows
    <3>4. Enlisted(f, e, w)
      BY <2>1, <2>2, <2>3, <2>4, <2>8, <3>2, <3>3, WriteLists
    <3>5. \A p \in P : p[2] < w
      <4>1. \A s \in ToSet(f.list) : <<s.id, s.w>>[2] < w
        BY <3>3
      <4> QED
        BY <4>1 DEF P, Notes
    <3>6. /\ Numbers(e, P \cup Notes(e)) /\ Windows(e) = Windows(f) \cup {w}
      BY <2>2, <2>3, <3>4, <3>5, NumbersGrow
    <3>7. P \cup Notes(e) = Notes(e)
      <4>1. ToSet(f.list) \subseteq ToSet(e.list)
        BY <3>4 DEF Enlisted
      <4> QED
        BY <4>1 DEF P, Notes
    <3>8. Numbers(e, Notes(e)) /\ e.map = NoMap /\ e.min = Unset /\ e.spent = Windows(e)
      BY <2>3, <3>4, <3>6, <3>7 DEF Enlisted
    <3>9. ASSUME NEW v \in Windows(e) PROVE \E i \in 1 .. n : v = q[i]
      <4>1. CASE v = w
        BY <1>1, <4>1 DEF w
      <4>2. CASE v \in Windows(f)
        <5>1. PICK i \in 1 .. n - 1 : v = q[i]
          BY <2>3, <4>2
        <5> QED
          BY <5>1
      <4> QED
        BY <3>6, <4>1, <4>2
    <3>10. ASSUME NEW i \in 1 .. n
           PROVE  q[i] \in Windows(e) \/ \E k \in 1 .. i : q[i] < q[k] /\ q[k] \in Windows(e)
      <4>1. CASE i = n
        BY <3>6, <4>1 DEF w
      <4>2. CASE i \in 1 .. n - 1
        BY <2>3, <3>6, <4>2
      <4> QED
        BY <2>7, <4>1, <4>2
    <3> QED
      BY <2>6, <3>8, <3>9, <3>10 DEF e
  <2>9. CASE ~After(f, w)
    <3>1. Unlisted(f, e)
      <4>1. Same(f, e)
        <5>1. Typed(f)
          BY <2>3 DEF Consistent
        <5>2. Same(f, e) \/ Taken(f, e, w)
          BY <2>1, <2>2, <5>1, WriteIs
        <5> QED
          BY <2>4, <2>9, <5>2 DEF Taken
      <4> QED
        BY <4>1 DEF Same, Unlisted
    <3>2. Windows(e) = Windows(f) /\ Notes(e) = P
      BY <3>1 DEF Unlisted, Windows, Notes, P
    <3>3. Numbers(e, P \cup Notes(e)) /\ P \cup Notes(e) = P
      BY <2>2, <2>3, <3>1, NumbersGrow
    <3>4. Numbers(e, Notes(e)) /\ e.map = NoMap /\ e.min = Unset /\ e.spent = Windows(e)
      BY <2>3, <3>1, <3>2, <3>3 DEF Unlisted
    <3>5. ASSUME NEW v \in Windows(e) PROVE \E i \in 1 .. n : v = q[i]
      <4>1. PICK i \in 1 .. n - 1 : v = q[i]
        BY <2>3, <3>2
      <4> QED
        BY <4>1
    <3>6. w \in Windows(e) \/ \E k \in 1 .. n : w < q[k] /\ q[k] \in Windows(e)
      <4>1. PICK v \in Windows(f) : ~(v < w)
        BY <2>2, <2>3, <2>9, AfterIs
      <4>2. v \in Nat /\ (v = w \/ w < v)
        BY <2>2, <2>a, <4>1
      <4> QED
        BY <3>2, <3>5, <4>1, <4>2
    <3>7. ASSUME NEW i \in 1 .. n
           PROVE  q[i] \in Windows(e) \/ \E k \in 1 .. i : q[i] < q[k] /\ q[k] \in Windows(e)
      <4>1. CASE i = n
        BY <3>6, <4>1 DEF w
      <4>2. CASE i \in 1 .. n - 1
        BY <2>3, <3>2, <4>2
      <4> QED
        BY <2>7, <4>1, <4>2
    <3> QED
      BY <2>6, <3>4, <3>5, <3>7 DEF e
  <2> QED
    BY <2>8, <2>9
<1>4. Fine(0)
  <2>1. Consistent(z) /\ z.list = <<>> /\ z.map = NoMap
    BY NewFinalizer
  <2>2. z.spent = {} /\ z.min = Unset /\ z.seq = 0
    BY DEF Finalizer
  <2>3. ToSet(z.list) = {}
    BY <2>1, WindowListed
  <2> HIDE DEF z
  <2>4. Windows(z) = {} /\ Notes(z) = {}
    BY <2>3 DEF Windows, Notes
  <2>5. Numbers(z, Notes(z))
    BY <2>1, <2>2, <2>4 DEF Numbers, NoMap
  <2>6. g[0] = z
    BY <1>2 DEF InTurn
  <2>7. /\ Consistent(g[0]) /\ g[0].map = NoMap /\ g[0].min = Unset /\ g[0].spent = {}
        /\ Windows(g[0]) = {} /\ Numbers(g[0], Notes(g[0]))
    BY <2>1, <2>2, <2>4, <2>5, <2>6
  <2>8. \A i \in 1 .. 0 : FALSE
    OBVIOUS
  <2> QED
    BY <2>7, <2>8
<1> HIDE DEF Fine
<1>5. S = {}
  <2> SUFFICES ASSUME S # {} PROVE FALSE
    OBVIOUS
  <2>1. S \in SUBSET Nat
    OBVIOUS
  <2>2. PICK n \in S : \A m \in S : n <= m
    <3> HIDE DEF S
    <3> QED
      BY <2>1, LeastIs
  <2>3. n \in 0 .. N /\ ~Fine(n)
    OBVIOUS
  <2>4. n \in 1 .. N /\ n - 1 \in 0 .. N /\ n - 1 \notin S
    BY <1>1, <1>4, <2>2, <2>3
  <2> QED
    BY <1>3, <2>3, <2>4
<1>6. Fine(N)
  <2>1. N \in 0 .. N
    BY <1>1
  <2> QED
    BY <1>5, <2>1
<1> QED
  BY <1>2, <1>6 DEF Fine, InTurn

\* No map came: the segments that wait are the first to be numbered.
LEMMA NoMapCameNumbers ==
    ASSUME UnsetIsNoRecord, HeaderInTime, GapInv, GapInv', NumberParts, group # "moved", NoMapCame
    PROVE  NumberParts'
<1>1. /\ queue # <<>> /\ fin = Unset /\ fin' = WriteAll(Finalizer(Unset), queue, audio) /\ queue' = <<>>
      /\ UNCHANGED <<now, chunks, audio, first, last, toLoad, header, settling>>
      /\ Record
  BY DEF NoMapCame, Create, loading
<1>2. /\ SegmenterInv /\ Placed /\ Queued /\ Loads
      /\ Numbering /\ MinPlaced /\ InPast /\ Newest /\ Middle /\ LastQueued
  BY DEF GapInv, NumberParts
<1>3. header = Unset
  BY <1>1, <1>2 DEF Loads
<1>4. Current = Unset
  BY <1>1, <1>3 DEF Current
<1>5. Given = {}
  BY <1>2, <1>4, SeenIs
<1>6. queue \in Seq(Window) /\ Len(queue) \in Nat /\ \A i \in 1 .. Len(queue) : queue[i] \in Window
  BY <1>2 DEF SegmenterInv
<1>7. \A i \in 1 .. Len(queue) : /\ AudioOf(queue[i], audio[queue[i]]) /\ audio[queue[i]] # {} /\ Between(queue[i])
                                 /\ End(queue[i]) <= now
  BY <1>2, <1>6, HeldIs DEF Queued, InPast
<1> DEFINE W == Windows(fin')
<1>8. /\ Consistent(fin') /\ fin'.min = Unset /\ fin'.spent = W
      /\ Numbers(fin', Notes(fin'))
      /\ \A v \in W : \E i \in 1 .. Len(queue) : v = queue[i]
      /\ \A i \in 1 .. Len(queue) :
            queue[i] \in W \/ \E k \in 1 .. i : queue[i] < queue[k] /\ queue[k] \in W
  BY <1>1, <1>6, <1>7, QueueWritten
<1>9. fin' # Unset
  BY <1>8 DEF UnsetIsNoRecord, Consistent, Typed
<1>10. Current' = fin' /\ Given' = Notes(fin') /\ Shown' = W
  BY <1>1, <1>5, <1>9, RecordIs DEF Current, Shown
<1>11. Seen' = W
  <2>1. Seen' = {p[2] : p \in Notes(fin')}
    BY <1>10 DEF Seen
  <2>2. \A s \in ToSet(fin'.list) : <<s.id, s.w>>[2] = s.w
    OBVIOUS
  <2>3. {p[2] : p \in Notes(fin')} = {s.w : s \in ToSet(fin'.list)}
    BY <2>2 DEF Notes
  <2> QED
    BY <2>1, <2>3 DEF Windows
<1> HIDE DEF W
<1>12. \A v \in W : /\ v \in Window /\ v \in Nat /\ audio[v] # {} /\ End(v) <= now /\ Between(v)
  <2> SUFFICES ASSUME NEW v \in W PROVE v \in Window /\ v \in Nat /\ audio[v] # {} /\ End(v) <= now /\ Between(v)
    OBVIOUS
  <2>1. PICK i \in 1 .. Len(queue) : v = queue[i]
    BY <1>8
  <2> QED
    BY <1>6, <1>7, <2>1, WindowsNumbered
<1>13. /\ All' = All /\ Left' = Left /\ (Loading' <=> Loading)
       /\ \A w \in Window : /\ Passed(w)' <=> Passed(w)
                            /\ InFull(w)' <=> InFull(w)
                            /\ OnTop(w)' <=> OnTop(w)
                            /\ Complete(w)' <=> Complete(w)
  BY <1>1, ChunksStay
<1>14. /\ \A a \in All : Of(a) \in Nat /\ Of(a) <= last /\ last \in Nat /\ last \in Window
       /\ \A w \in Window : audio[w] # {} => \E a \in All : Of(a) = w
       /\ Left \subseteq Nat /\ \A c \in Left : Of(c) \in Nat
       /\ Loading => All \subseteq Left
       /\ last # Unset => \E a \in All : Of(a) = last
  BY <1>2, WhereIs
<1>15. \A a \in All : \E c \in Left : Of(a) <= Of(c)
  <2> SUFFICES ASSUME NEW a \in All PROVE \E c \in Left : Of(a) <= Of(c)
    OBVIOUS
  <2>1. PICK c \in chunks : Of(a) <= Of(c)
    BY <1>2, NewestIs
  <2>2. c \in Left
    BY <1>2, WhereIs
  <2> QED
    BY <2>1, <2>2
<1>16. Numbering'
  <2>1. Numbers(Current, Given)'
    BY <1>8, <1>10
  <2> QED
    BY <1>9, <1>10, <2>1 DEF Numbering
<1>17. Contiguous' /\ Accounted'
  BY <1>10, <1>11 DEF Contiguous, Accounted
<1>18. MinPlaced'
  BY <1>1, <1>2, <1>8, <1>13 DEF MinPlaced
<1>19. InPast'
  <2>1. Len(queue') = 0
    BY <1>1
  <2> QED
    BY <1>1, <1>11, <1>12, <2>1 DEF InPast
<1>20. Newest'
  BY <1>1, <1>2, <1>13 DEF Newest
<1>21. Used'
  BY <1>1, <1>8, <1>12, <1>13 DEF Used, Between, Loading
<1>22. Reached'
  <2>1. ASSUME NEW v \in W PROVE \E c \in Left : v <= Of(c)
    BY <1>12, <1>14, <1>15
  <2> QED
    BY <1>11, <1>13, <2>1 DEF Reached
<1>23. LastIsFull'
  <2> SUFFICES ASSUME ~Loading, last \in W PROVE Complete(last)
    BY <1>1, <1>8, <1>11, <1>13 DEF LastIsFull, Complete
  <2>1. PICK i \in 1 .. Len(queue) : last = queue[i]
    BY <1>8
  <2> QED
    BY <1>1, <1>2, <2>1 DEF LastQueued
<1>24. ASSUME Loading, NEW v \in W PROVE v < last /\ ~OnTop(v)
  <2>1. last # Unset /\ v < last
    BY <1>12, <1>24 DEF Between, Loading
  <2>2. PICK a \in All : Of(a) = last
    BY <1>14, <2>1
  <2> QED
    <3>1. a \in Left /\ last \in Nat /\ v \in Nat
      BY <1>12, <1>14, <1>24
    <3>2. ~(Of(a) <= v)
      BY <2>1, <2>2, <3>1
    <3> QED
      BY <2>1, <3>1, <3>2 DEF OnTop
<1>25. TopIsFull'
  BY <1>11, <1>12, <1>13, <1>24 DEF TopIsFull
<1>26. Middle'
  <2> SUFFICES ASSUME Loading, first # Unset, NEW w \in Window, first < w, w < last, audio[w] # {}
               PROVE  w \in W \/ \E v \in W : w < v /\ v < last
    BY <1>1, <1>9, <1>11, <1>13 DEF Middle
  <2>1. PICK i \in 1 .. Len(queue) : queue[i] = w
    BY <1>1, <1>2 DEF Middle
  <2>2. CASE w \in W
    BY <2>2
  <2>3. CASE w \notin W
    <3>1. PICK k \in 1 .. i : queue[i] < queue[k] /\ queue[k] \in W
      BY <1>8, <2>1, <2>3
    <3> QED
      BY <1>24, <2>1, <3>1
  <2> QED
    BY <2>2, <2>3
<1>27. Below'
  <2> SUFFICES ASSUME NEW x \in W, OnTop(x), NEW w \in Window, w < x, w \notin W, InFull(w)
               PROVE  \E v \in W : w < v /\ v < x
    BY <1>11, <1>12, <1>13 DEF Below
  <2>1. ~Loading
    BY <1>24
  <2>2. x \in Nat /\ audio[x] # {} /\ x \in Window /\ last # Unset /\ x <= last
    BY <1>12 DEF Between
  <2>3. last \in Nat /\ last <= x
    <3>1. PICK a \in All : Of(a) = last
      BY <1>14, <2>2
    <3>2. PICK c \in Left : Of(a) <= Of(c)
      BY <1>15
    <3> QED
      BY <1>14, <2>2, <3>1, <3>2 DEF OnTop
  <2>4. x = last
    BY <2>2, <2>3
  <2> DEFINE J == {j \in 1 .. Len(queue) : queue[j] = last}
  <2>5. J # {} /\ J \in SUBSET Nat
    BY <1>8, <2>4
  <2>6. PICK j \in J : \A k \in J : j <= k
    <3> HIDE DEF J
    <3> QED
      BY <2>5, LeastIs
  <2>7. PICK i \in 1 .. j - 1 : queue[i] = w
    BY <1>1, <1>2, <2>1, <2>4, <2>6 DEF LastQueued
  <2>8. i \in 1 .. Len(queue) /\ j \in 1 .. Len(queue) /\ j \in Nat /\ i < j
    BY <1>6, <2>6
  <2>9. PICK k \in 1 .. i : w < queue[k] /\ queue[k] \in W
    BY <1>8, <2>7, <2>8
  <2>10. k \in 1 .. Len(queue) /\ k < j
    BY <1>6, <2>8
  <2>11. queue[k] # last
    BY <2>6, <2>8, <2>10
  <2>12. queue[k] <= last /\ queue[k] \in Nat
    BY <1>12, <2>9 DEF Between
  <2>13. queue[k] < x
    BY <2>3, <2>4, <2>11, <2>12
  <2> QED
    BY <2>9, <2>13
<1>28. LastQueued'
  BY <1>9 DEF LastQueued
<1> QED
  BY <1>16, <1>17, <1>18, <1>19, <1>20, <1>21, <1>22, <1>23, <1>25, <1>26, <1>27, <1>28 DEF NumberParts

\* The segments a live chunk leaves behind it
LEMMA PastIs ==
    ASSUME GapInv, NumberParts
    PROVE  /\ now \in Nat /\ Of(now) \in Nat
           /\ \A v \in Window : End(v) <= now <=> v < Of(now)
           /\ \A s \in Seen : s \in Window /\ s \in Nat /\ s < Of(now) /\ Start(s) < now /\ now \notin Span(s)
           /\ last # Unset => last \in Nat /\ last \in Window /\ \A s \in Seen : s <= last
<1>1. SegmenterInv /\ Placed /\ Numbering /\ InPast /\ Reached /\ now \in Nat
  BY DEF GapInv, NumberParts, SegmenterInv
<1>2. Of(now) \in Nat /\ Start(Of(now)) <= now /\ now < End(Of(now))
  BY <1>1, WindowOf
<1>3. ASSUME NEW v \in Window PROVE End(v) <= now <=> v < Of(now)
  <2> DEFINE w == Of(now)
  <2>1. v \in Nat /\ w \in Nat /\ v \in Int /\ w \in Int /\ Start(w) <= now /\ now < End(w)
    BY <1>2, WindowsNumbered
  <2> HIDE DEF w
  <2>2. Start(w) \in Int /\ End(w) \in Int /\ Start(v) \in Int /\ End(v) \in Int /\ Start(w) < End(w) /\ Start(v) < End(v)
    BY <2>1, WindowsAre
  <2>3. v < w => End(v) <= Start(w)
    BY <2>1, WindowsApart
  <2>4. w < v => End(w) <= Start(v)
    BY <2>1, WindowsApart
  <2>5. v < w \/ v = w \/ w < v
    BY <2>1
  <2> QED
    BY <1>1, <2>1, <2>2, <2>3, <2>4, <2>5 DEF w
<1>4. ASSUME NEW s \in Seen PROVE s \in Window /\ s \in Nat /\ s < Of(now) /\ Start(s) < now /\ now \notin Span(s)
  <2>1. s \in Window /\ s \in Nat /\ End(s) <= now
    BY <1>1, SeenIs DEF InPast
  <2>2. Start(s) \in Nat /\ End(s) \in Nat /\ Start(s) < End(s)
    BY <2>1, SpanIs
  <2> QED
    BY <1>1, <1>3, <2>1, <2>2 DEF Span
<1>5. last # Unset => last \in Nat /\ last \in Window
  BY <1>1, WhereIs
<1>6. last # Unset => \A s \in Seen : s <= last
  BY <1>1, SeenUpTo
<1> QED
  BY <1>1, <1>2, <1>3, <1>4, <1>5, <1>6

\* The oldest chunk comes before the last segment: the buffer has more than one.
LEMMA OldestIs ==
    ASSUME Capacity > Length, SegmenterInv, Placed, NEW m, Oldest(m, now)
    PROVE  m \in Nat /\ (last # Unset => m < Start(last)) /\ m \in chunks /\ m < now
<1>1. now \in Nat /\ chunks \subseteq Nat /\ (\A c \in chunks : c < now) /\ IsFiniteSet(chunks)
  <2>0. IsFiniteSet(Times)
    BY SegmenterAssumption, FS_Interval DEF Times
  <2>1. chunks \subseteq Times
    BY DEF SegmenterInv
  <2>2. IsFiniteSet(chunks)
    BY <2>0, <2>1, FS_Subset
  <2> QED
    BY <2>2, WhereIs
<1>2. Length \in Nat /\ Length > 0 /\ Capacity \in Nat /\ Capacity > Length
  BY SegmenterAssumption
<1> DEFINE S == chunks \cup {now}
<1>3. m \in S /\ (\A c \in S : m <= c) /\ Cardinality(S) > Capacity
  BY DEF Oldest
<1>4. IsFiniteSet(S) /\ Cardinality(S) = Cardinality(chunks) + 1 /\ Cardinality(chunks) \in Nat
  <2>1. now \notin chunks
    BY <1>1
  <2> QED
    BY <1>1, <2>1, FS_AddElement, FS_CardinalityType
<1>5. m \in chunks
  <2>1. chunks # {}
    <3> SUFFICES ASSUME chunks = {} PROVE FALSE
      OBVIOUS
    <3>1. Cardinality(chunks) = 0
      BY FS_EmptySet
    <3> QED
      BY <1>2, <1>3, <1>4, <3>1
  <2>2. PICK c \in chunks : TRUE
    BY <2>1
  <2>3. m <= c /\ c < now /\ c \in Nat
    BY <1>1, <1>3, <2>2
  <2> QED
    BY <1>1, <1>3, <2>3
<1>6. ASSUME last # Unset, ~(m < Start(last)) PROVE FALSE
  <2>1. last \in Window /\ last \in Nat
    BY <1>6, WhereIs
  <2>2. /\ IsFiniteSet(Span(last)) /\ Cardinality(Span(last)) = Length /\ Start(last) \in Nat /\ End(last) \in Nat
        /\ End(last) = Start(last) + Length
    BY <2>1, SpanIs
  <2>3. ASSUME NEW c \in chunks PROVE c \in Span(last)
    <3>1. c \in Nat /\ m \in Nat /\ m <= c /\ Of(c) \in Nat /\ Of(c) <= last
      BY <1>1, <1>3, <1>5, <1>6, WhereIs
    <3>2. Start(last) <= c
      BY <1>6, <2>2, <3>1
    <3>3. Start(Of(c)) \in Int /\ End(Of(c)) \in Int /\ Start(Of(c)) <= c /\ c < End(Of(c))
      BY <3>1, WindowOf, WindowsAre
    <3>4. Of(c) = last \/ End(Of(c)) <= Start(last)
      BY <2>1, <3>1, WindowsApart
    <3> QED
      BY <2>2, <3>1, <3>2, <3>3, <3>4 DEF Span
  <2>4. Cardinality(chunks) <= Cardinality(Span(last))
    BY <2>2, <2>3, FS_Subset
  <2> QED
    BY <1>2, <1>3, <1>4, <2>2, <2>4
<1> QED
  BY <1>1, <1>5, <1>6

\* What a live chunk makes of the finalizer: the last segment, if it is pushed, is listed
\* unless it was before, and the oldest may go.
LEMMA LastWritten ==
    ASSUME GapInv, NumberParts, fin # Unset, first # Unset, last < Of(now),
           NEW parts, AudioOf(last, parts)
    PROVE  LET f == Write(fin, last, parts) IN
             \/ Unlisted(fin, f) /\ last \in fin.spent /\ ~Loading
             \/ /\ Enlisted(fin, f, last)
                /\ Numbered(fin, last) \/ \A p \in Given : p[2] < last
<1>1. /\ SegmenterInv /\ Placed /\ Consistent(fin) /\ ListPlaced(fin)
      /\ Numbering /\ MinPlaced /\ Used /\ Accounted /\ LastIsFull
  BY DEF GapInv, NumberParts
<1>2. last # Unset /\ last \in Window /\ last \in Nat /\ first \in Window /\ first \in Nat /\ first < last
  BY <1>1, WhereIs
<1>3. last \in fin.spent => ~Loading
  BY <1>1, <1>2 DEF Used
<1>4. \A u \in Windows(fin) : u \in Nat /\ u <= last /\ u \in fin.spent
  BY <1>1, WindowListed DEF Windows, ListPlaced, Between
<1>5. (\A s \in ToSet(fin.list) : s.w < last) \/ last \in fin.spent
  <2> SUFFICES ASSUME last \notin fin.spent, NEW s \in ToSet(fin.list) PROVE s.w < last
    OBVIOUS
  <2>1. s.w \in Windows(fin)
    BY DEF Windows
  <2> QED
    BY <1>2, <1>4, <2>1
<1> DEFINE f == Write(fin, last, parts)
<1>6. \/ /\ Unlisted(fin, f)
         /\ \/ Numbered(fin, last) /\ BelowMin(fin, last)
            \/ ~Numbered(fin, last) /\ ~After(fin, last)
            \/ last \in fin.spent
      \/ Enlisted(fin, f, last)
  BY <1>1, <1>2, <1>5, WriteLists
<1> HIDE DEF f
<1>7. ~BelowMin(fin, last)
  <2> SUFFICES ASSUME fin.min # Unset PROVE ~(End(last) < fin.min)
    BY DEF BelowMin
  <2>1. fin.min \in Int /\ fin.min < End(last)
    BY <1>1 DEF MinPlaced, Consistent, Typed
  <2>2. End(last) \in Nat
    BY <1>2, SpanIs
  <2> QED
    BY <2>1, <2>2
<1>8. ~After(fin, last) => last \in fin.spent
  <2> SUFFICES ASSUME ~After(fin, last) PROVE last \in fin.spent
    OBVIOUS
  <2>1. PICK u \in Windows(fin) : ~(u < last)
    BY <1>1, <1>2, AfterIs
  <2> QED
    BY <1>2, <1>4, <2>1
<1>9. ASSUME Enlisted(fin, f, last), ~Numbered(fin, last), NEW p \in Given PROVE p[2] < last
  <2>1. p[2] \in Seen
    BY DEF Seen
  <2>2. p[2] \in Nat /\ p[2] <= last
    BY <1>2, <2>1, PastIs
  <2>3. ASSUME last \in Seen PROVE FALSE
    <3>1. last \notin fin.spent
      BY <1>9 DEF Enlisted
    <3>2. Loading
      BY <1>1, <2>3, <3>1 DEF LastIsFull
    <3>3. last \notin Shown
      BY <1>4, <3>1 DEF Shown
    <3>4. Gone(last) \/ Waits(last)
      BY <1>1, <2>3, <3>3 DEF Accounted
    <3>5. ~Gone(last)
      <4>1. PICK a \in All : Of(a) = first
        BY <1>1, WhereIs
      <4>2. a \in Nat /\ a \in Left
        BY <1>1, <3>2, <4>1, WhereIs
      <4>3. a < End(first) /\ End(first) <= Start(last) /\ End(first) \in Nat /\ Start(last) \in Nat
        BY <1>2, <4>1, <4>2, WindowOf, StartIs
      <4>4. a < Start(last)
        BY <4>2, <4>3
      <4> QED
        BY <4>2, <4>4 DEF Gone, Passed
    <3>6. ~Waits(last)
      BY <1>9 DEF Waits, Current, Numbered
    <3> QED
      BY <3>4, <3>5, <3>6
  <2> QED
    BY <1>2, <2>1, <2>2, <2>3
<1> QED
  BY <1>3, <1>6, <1>7, <1>8, <1>9 DEF f

\* What a live chunk makes of the finalizer, which it takes f to: what was listed has its
\* number, and only what begins no later than the oldest chunk goes.
LEMMA ChunkListed ==
    ASSUME UnsetIsNoRecord, Capacity > Length, GapInv, NumberParts, fin # Unset,
           NEW f, Consistent(f), f.map = fin.map, f.min = fin.min,
           \/ Unlisted(fin, f)
           \/ /\ last # Unset /\ Enlisted(fin, f, last)
              /\ Numbered(fin, last) \/ \A p \in Given : p[2] < last,
           Cleared(f, fin', now),
           fin' # Unset => Given' = Given \cup Notes(fin')
    PROVE  /\ fin' # Unset /\ fin'.map = fin.map /\ Numbers(fin', Given')
           /\ fin'.min = fin.min \/ (~settling /\ fin'.list # <<>> /\ fin'.min = Head(fin'.list).ts)
           /\ Seen \subseteq Seen' /\ Shown' \subseteq Seen' /\ fin'.spent = f.spent
           /\ \A u \in Shown \ Shown' : \E m \in Nat : Oldest(m, now) /\ Start(u) <= m
           /\ \A u \in Shown', v \in Shown : u < v => v \in Shown'
           /\ \/ Unlisted(fin, f) /\ Seen' = Seen /\ Shown' \subseteq Shown
              \/ /\ Enlisted(fin, f, last) /\ last \in Shown'
                 /\ Seen' \subseteq Seen \cup {last} /\ Shown' \subseteq Shown \cup {last}
<1>1. SegmenterInv /\ Placed /\ Consistent(fin) /\ Numbering
  BY DEF GapInv, NumberParts
<1>2. Current = fin /\ Numbers(fin, Given) /\ Shown = Windows(fin) /\ Given \subseteq Nat \X Window
  BY <1>1 DEF Current, Numbering, Numbers, Shown
<1>3. last # Unset => last \in Window /\ last \in Nat
  BY <1>1, WhereIs
<1>4. /\ fin'.map = f.map /\ fin'.seq = f.seq /\ fin'.spent = f.spent /\ Consistent(fin')
      /\ fin'.min = f.min \/ (~settling /\ fin'.list # <<>> /\ fin'.min = Head(fin'.list).ts)
      /\ \/ fin'.list = f.list
         \/ \E m \in Nat : Oldest(m, now) /\ \A s : s \in ToSet(fin'.list) <=> s \in ToSet(f.list) /\ s.ts > m
  BY ClearedIs
<1>5. fin' # Unset
  BY <1>4 DEF UnsetIsNoRecord, Consistent, Typed
<1> DEFINE N == Given \cup Notes(f)
<1>6. Numbers(f, N)
  <2>1. CASE Unlisted(fin, f)
    <3>1. 0 \in Window
      BY SegmenterAssumption DEF Window
    <3> QED
      BY <1>1, <1>2, <2>1, <3>1, NumbersGrow
  <2>2. CASE ~Unlisted(fin, f)
    BY <1>1, <1>2, <1>3, <2>2, NumbersGrow
  <2> QED
    BY <2>1, <2>2
<1>7. \/ Unlisted(fin, f) /\ N = Given /\ Windows(f) = Shown
      \/ /\ last # Unset /\ Enlisted(fin, f, last) /\ N = Given \cup {<<IdOf(fin, last), last>>}
         /\ Windows(f) = Shown \cup {last}
  <2>1. CASE Unlisted(fin, f)
    BY <1>2, <2>1 DEF Unlisted, Notes, Windows, Numbers
  <2>2. CASE ~Unlisted(fin, f)
    <3>1. last # Unset /\ Enlisted(fin, f, last) /\ (Numbered(fin, last) \/ \A p \in Given : p[2] < last)
      BY <2>2
    <3>2. PICK x \in ToSet(f.list) : /\ x.w = last /\ x.id = IdOf(fin, last)
                                     /\ ToSet(f.list) = ToSet(fin.list) \cup {x}
      BY <3>1 DEF Enlisted
    <3>3. Notes(f) = Notes(fin) \cup {<<IdOf(fin, last), last>>} /\ Windows(f) = Windows(fin) \cup {last}
      BY <3>2 DEF Notes, Windows
    <3>4. Notes(fin) \subseteq Given
      BY <1>2 DEF Numbers
    <3>5. N = Given \cup {<<IdOf(fin, last), last>>}
      BY <3>3, <3>4
    <3> QED
      BY <1>2, <3>1, <3>3, <3>5
  <2> QED
    BY <2>1, <2>2
<1>8. /\ ToSet(fin'.list) \subseteq ToSet(f.list)
      /\ \A s \in ToSet(f.list) \ ToSet(fin'.list) :
            \E m \in Nat : Oldest(m, now) /\ m >= s.ts /\ \A x \in ToSet(fin'.list) : x.ts > m
  <2>1. CASE fin'.list = f.list
    BY <2>1
  <2>2. CASE \E m \in Nat : Oldest(m, now) /\ \A s : s \in ToSet(fin'.list) <=> s \in ToSet(f.list) /\ s.ts > m
    <3>1. PICK m \in Nat : Oldest(m, now) /\ \A s : s \in ToSet(fin'.list) <=> s \in ToSet(f.list) /\ s.ts > m
      BY <2>2
    <3>2. \A s \in ToSet(f.list) : s.ts \in Int
      BY WindowListed
    <3> QED
      BY <3>1, <3>2
  <2> QED
    BY <1>4, <2>1, <2>2
<1>9. /\ Notes(fin') \subseteq Notes(f) /\ Windows(fin') \subseteq Windows(f) /\ Shown' = Windows(fin')
  BY <1>5, <1>8 DEF Notes, Windows, Shown
<1>10. last # Unset /\ Enlisted(fin, f, last) => <<IdOf(fin, last), last>> \in Notes(fin') /\ last \in Windows(fin')
  <2> SUFFICES ASSUME last # Unset, Enlisted(fin, f, last)
               PROVE  <<IdOf(fin, last), last>> \in Notes(fin') /\ last \in Windows(fin')
    OBVIOUS
  <2>1. PICK x \in ToSet(f.list) : x.w = last /\ x.id = IdOf(fin, last)
    BY DEF Enlisted
  <2>2. x.ts \in Int /\ Start(last) <= x.ts /\ Start(last) \in Int
    BY <1>3, <2>1, WindowListed, SpanIs
  <2>3. x \in ToSet(fin'.list)
    <3> SUFFICES ASSUME x \notin ToSet(fin'.list) PROVE FALSE
      OBVIOUS
    <3>1. PICK m \in Nat : Oldest(m, now) /\ m >= x.ts
      BY <1>8
    <3>2. m < Start(last)
      BY <1>1, <3>1, OldestIs
    <3> QED
      BY <2>2, <3>1, <3>2
  <2> QED
    BY <2>1, <2>3 DEF Notes, Windows
<1>11. Given' = N
  <2>1. Given' = Given \cup Notes(fin')
    BY <1>5
  <2>2. Notes(fin') \subseteq N
    BY <1>9
  <2> HIDE DEF N
  <2>3. N \subseteq Given \cup Notes(fin')
    BY <1>7, <1>10
  <2>4. Given \subseteq N
    BY DEF N
  <2> QED
    BY <2>1, <2>2, <2>3, <2>4
<1> HIDE DEF N
<1>12. Numbers(fin', Given')
  <2>1. Notes(fin') \subseteq N
    BY <1>5, <1>11
  <2> QED
    BY <1>4, <1>6, <1>11, <2>1 DEF Numbers
<1>13. /\ Unlisted(fin, f) => Seen' = Seen
       /\ ~Unlisted(fin, f) => Seen' = Seen \cup {last}
  <2>1. Seen' = {p[2] : p \in N}
    BY <1>11 DEF Seen
  <2>2. CASE Unlisted(fin, f)
    <3>1. N = Given
      BY <1>7, <2>2 DEF Enlisted, Unlisted
    <3> QED
      BY <2>1, <2>2, <3>1 DEF Seen
  <2>3. CASE ~Unlisted(fin, f)
    <3> DEFINE q == <<IdOf(fin, last), last>>
    <3>1. N = Given \cup {q} /\ q[2] = last
      BY <1>7, <2>3
    <3> HIDE DEF q
    <3>2. {p[2] : p \in N} = {p[2] : p \in Given} \cup {last}
      BY <3>1
    <3> QED
      BY <2>1, <2>3, <3>2 DEF Seen
  <2> QED
    BY <2>2, <2>3
<1>14. Shown' \subseteq Seen'
  <2> SUFFICES ASSUME NEW s \in ToSet(fin'.list) PROVE s.w \in Seen'
    BY <1>9 DEF Windows
  <2>1. <<s.id, s.w>> \in Given'
    BY <1>12 DEF Numbers, Notes
  <2>2. <<s.id, s.w>>[2] = s.w
    OBVIOUS
  <2> HIDE DEF N
  <2> QED
    BY <2>1, <2>2 DEF Seen
<1>15. \A s \in ToSet(fin.list) : /\ s.ts \in Int /\ Start(s.w) <= s.ts /\ s.w \in Window
                                  /\ s \in ToSet(f.list) /\ Start(s.w) \in Nat /\ s.w \in Shown
  <2> SUFFICES ASSUME NEW s \in ToSet(fin.list)
               PROVE  /\ s.ts \in Int /\ Start(s.w) <= s.ts /\ s.w \in Window
                      /\ s \in ToSet(f.list) /\ Start(s.w) \in Nat /\ s.w \in Shown
    OBVIOUS
  <2>1. s.ts \in Int /\ Start(s.w) <= s.ts /\ s.w \in Window
    BY <1>1, WindowListed DEF Consistent
  <2>2. s \in ToSet(f.list)
    BY <1>7 DEF Unlisted, Enlisted
  <2>3. s.w \in Shown
    BY <1>2 DEF Windows
  <2> QED
    BY <2>1, <2>2, <2>3, SpanIs
<1>16. ASSUME NEW u \in Shown \ Shown' PROVE \E m \in Nat : Oldest(m, now) /\ Start(u) <= m
  <2>1. PICK s \in ToSet(fin.list) : s.w = u
    BY <1>2, <1>16 DEF Windows
  <2>2. s \notin ToSet(fin'.list)
    BY <1>9, <1>16, <2>1 DEF Windows
  <2>3. PICK m \in Nat : Oldest(m, now) /\ m >= s.ts
    BY <1>8, <1>15, <2>1, <2>2
  <2> QED
    BY <1>15, <2>1, <2>3
<1>17. ASSUME NEW u \in Shown', NEW v \in Shown, u < v PROVE v \in Shown'
  <2>1. PICK s \in ToSet(fin.list) : s.w = v
    BY <1>2 DEF Windows
  <2>2. CASE u \in Shown
    <3>1. PICK x \in ToSet(fin'.list) : x.w = u
      BY <1>9 DEF Windows
    <3>2. PICK r \in ToSet(fin.list) : r.w = u
      BY <1>2, <2>2 DEF Windows
    <3>3. Start(u) < Start(v) /\ u \in Window
      BY <1>15, <1>17, <2>1, <3>2, StartIs
    <3> SUFFICES ASSUME s \notin ToSet(fin'.list) PROVE FALSE
      BY <1>9, <2>1 DEF Windows
    <3>4. PICK m \in Nat : Oldest(m, now) /\ m >= s.ts /\ \A y \in ToSet(fin'.list) : y.ts > m
      BY <1>8, <1>15
    <3>5. x.ts > m /\ x.ts \in Int
      BY <1>4, <3>1, <3>4, WindowListed
    <3>6. x.ts < End(u) /\ End(u) <= Start(v) /\ End(u) \in Nat
      BY <1>4, <1>15, <1>17, <2>1, <3>1, <3>3, WindowListed, StartIs
    <3>7. Start(v) <= s.ts /\ s.ts \in Int /\ Start(v) \in Nat
      BY <1>15, <2>1
    <3> QED
      BY <3>4, <3>5, <3>6, <3>7
  <2>3. CASE u \notin Shown
    <3>1. u = last /\ last # Unset
      BY <1>7, <1>9, <2>3
    <3>2. v \in Nat /\ v <= last
      BY <1>1, <3>1, SeenIs, PastIs
    <3> QED
      BY <1>3, <1>17, <3>1, <3>2
  <2> QED
    BY <2>2, <2>3
<1>18. Seen \subseteq Seen'
  BY <1>13
<1>19. \/ Unlisted(fin, f) /\ Seen' = Seen /\ Shown' \subseteq Shown
       \/ /\ Enlisted(fin, f, last) /\ last \in Shown'
          /\ Seen' \subseteq Seen \cup {last} /\ Shown' \subseteq Shown \cup {last}
  BY <1>7, <1>9, <1>10, <1>13
<1> QED
  BY <1>4, <1>5, <1>12, <1>14, <1>16, <1>17, <1>18, <1>19

\* The insertion of a chunk that the buffer takes
Inserted(t) ==
    LET in == Injected(t)
    IN  /\ audio' = [audio EXCEPT ![Of(t)] = @ \cup {t}]
        /\ first' = in.first /\ last' = in.last
        /\ fin = Unset => fin' = fin /\ queue' = queue \o in.push
        /\ fin # Unset => queue' = queue /\ Cleared(WriteAll(fin, in.push, audio'), fin', t)
        /\ \/ chunks' = chunks \cup {t}
           \/ \E m : Oldest(m, t) /\ chunks' = (chunks \cup {t}) \ {m}

\* is all that an insertion does, unless nothing changes.
LEMMA InsertedIs ==
    ASSUME SegmenterInv, Cardinality(chunks) <= Capacity, NEW t \in Times, Insert(t)
    PROVE  /\ chunks' \subseteq chunks \cup {t} /\ Cardinality(chunks') <= Capacity
           /\ \/ chunks' = chunks /\ UNCHANGED segmenter
              \/ Inserted(t)
<1> DEFINE in == Injected(t)
           f == WriteAll(fin, in.push, audio')
<1>1. /\ chunks' \subseteq chunks \cup {t} /\ Cardinality(chunks') <= Capacity
      /\ \/ chunks' = chunks /\ UNCHANGED segmenter
         \/ /\ audio' = [audio EXCEPT ![Of(t)] = @ \cup {t}]
            /\ first' = in.first /\ last' = in.last
            /\ fin = Unset => fin' = fin /\ queue' = queue \o in.push
            /\ fin # Unset =>
                 /\ queue' = queue
                 /\ \E g : /\ g = f \/ g = [f EXCEPT !.failed = TRUE]
                           /\ \/ fin' = g
                              \/ \E m : /\ Oldest(m, t) /\ m \in Nat
                                        /\ fin' = Synced(Expire(g, m), Expire(g, m).list # g.list)
            /\ \/ chunks' = chunks \cup {t}
               \/ \E m : Oldest(m, t) /\ chunks' = (chunks \cup {t}) \ {m}
  BY InsertIs
<1> HIDE DEF in, f
<1>2. (\E g : /\ g = f \/ g = [f EXCEPT !.failed = TRUE]
              /\ \/ fin' = g
                 \/ \E m : /\ Oldest(m, t) /\ m \in Nat
                           /\ fin' = Synced(Expire(g, m), Expire(g, m).list # g.list)) => Cleared(f, fin', t)
  BY DEF Cleared
<1>3. (\/ chunks' = chunks /\ UNCHANGED segmenter
       \/ /\ audio' = [audio EXCEPT ![Of(t)] = @ \cup {t}]
          /\ first' = in.first /\ last' = in.last
          /\ fin = Unset => fin' = fin /\ queue' = queue \o in.push
          /\ fin # Unset => queue' = queue /\ Cleared(f, fin', t)
          /\ \/ chunks' = chunks \cup {t}
             \/ \E m : Oldest(m, t) /\ chunks' = (chunks \cup {t}) \ {m})
  BY <1>1, <1>2
<1> QED
  BY <1>1, <1>3 DEF Inserted, in, f

\* A live chunk leaves the last segment behind: it is pushed.
Behind == first # Unset /\ last # Unset /\ last < Of(now)

\* What a live chunk makes of the list and of the numbers
LEMMA ChunkLists ==
    ASSUME UnsetIsNoRecord, Capacity > Length, GapInv, NumberParts, now \in Times, Inserted(now),
           UNCHANGED header, Given' = Given \cup (IF fin' = Unset THEN {} ELSE Notes(fin'))
    PROVE  /\ fin' = Unset <=> fin = Unset
           /\ Current' = Unset <=> Current = Unset
           /\ Current # Unset => Current'.map = Current.map
           /\ Numbering'
           /\ Seen \subseteq Seen' /\ Shown' \subseteq Seen'
           /\ \A s \in Seen' : s \in Seen \/ (Behind /\ s = last /\ s \in Shown')
           /\ \A s \in Shown' : s \in Shown \/ (Behind /\ s = last)
           /\ fin # Unset /\ Behind /\ Loading => last \in Shown'
           /\ \A u \in Shown \ Shown' : \E m \in Nat : Oldest(m, now) /\ Start(u) <= m
           /\ \A u \in Shown', v \in Shown : u < v => v \in Shown'
           /\ fin # Unset =>
                /\ \A v \in fin'.spent : v \in fin.spent \/ (Behind /\ v = last)
                /\ fin'.min = fin.min \/ (~settling /\ fin'.list # <<>> /\ fin'.min = Head(fin'.list).ts)
           /\ fin = Unset => queue' = queue \o (IF Behind THEN <<last>> ELSE <<>>)
           /\ fin # Unset => queue' = queue
<1>1. SegmenterInv /\ Placed /\ Numbering
  BY DEF GapInv, NumberParts
<1>2. /\ audio' = [audio EXCEPT ![Of(now)] = @ \cup {now}]
      /\ fin = Unset => fin' = fin /\ queue' = queue \o Injected(now).push
      /\ fin # Unset => queue' = queue /\ Cleared(WriteAll(fin, Injected(now).push, audio'), fin', now)
  BY DEF Inserted
<1>3. Injected(now).push = IF Behind THEN <<last>> ELSE <<>>
  <2>1. \/ last = Unset /\ Injected(now).push = <<>>
        \/ last # Unset /\ Of(now) = last /\ Injected(now).push = <<>>
        \/ last # Unset /\ last < Of(now) /\ first = Unset /\ Injected(now).push = <<>>
        \/ last # Unset /\ last < Of(now) /\ first # Unset /\ Injected(now).push = <<last>>
    BY <1>1, LiveIs
  <2>2. Of(now) \in Nat
    BY PastIs
  <2> QED
    BY <2>1, <2>2 DEF Behind
<1>4. CASE fin = Unset
  <2>1. fin' = Unset /\ Current' = Current /\ Given' = Given /\ Seen' = Seen /\ Shown' = {} /\ Shown = {}
    BY <1>2, <1>4 DEF Current, Seen, Shown
  <2>2. Numbering'
    <3>1. CASE Current = Unset
      BY <1>1, <2>1, <3>1 DEF Numbering
    <3>2. CASE Current # Unset
      <4>1. Numbers(Current, Given)
        BY <1>1, <3>2 DEF Numbering
      <4>2. Numbers(Current', Given')
        BY <2>1, <4>1
      <4>3. Numbers(Current, Given)'
        BY <4>2
      <4> QED
        BY <2>1, <3>2, <4>3 DEF Numbering
    <3> QED
      BY <3>1, <3>2
  <2> QED
    BY <1>2, <1>3, <1>4, <2>1, <2>2
<1>5. CASE fin # Unset
  <2> DEFINE f == WriteAll(fin, Injected(now).push, audio')
  <2>1. Consistent(fin) /\ ListPlaced(fin) /\ fin = Current
    BY <1>5 DEF GapInv, Current
  <2>2. /\ Consistent(f) /\ f.map = fin.map /\ f.min = fin.min
        /\ \/ Unlisted(fin, f) /\ (Behind /\ Loading => FALSE)
           \/ Behind /\ Enlisted(fin, f, last) /\ (Numbered(fin, last) \/ \A p \in Given : p[2] < last)
    <3>1. CASE ~Behind
      <4>1. f = fin
        BY <1>3, <3>1, NoneWritten
      <4> HIDE DEF f
      <4> QED
        BY <2>1, <3>1, <4>1 DEF Unlisted
    <3>2. CASE Behind
      <4>1. f = Write(fin, last, audio'[last])
        BY <1>3, <3>2, OneWritten
      <4>2. last \in Window /\ AudioOf(last, audio'[last]) /\ last \in Nat
        <5>1. last \in Window /\ audio[last] # {}
          BY <1>1, <3>2 DEF Behind, SegmenterInv, Placed
        <5> QED
          BY <1>1, <1>2, <5>1, HeldGrows, WindowsNumbered
      <4>3. Fitting(fin, last)
        <5>1. fin.list # <<>> => fin.list[1] \in ToSet(fin.list) /\ fin.list[1].w \in Nat
          BY <2>1, WindowListed
        <5>2. fin.list # <<>> => fin.list[1].w <= last
          BY <2>1, <5>1 DEF ListPlaced, Between
        <5> QED
          BY <4>2, <5>1, <5>2 DEF Fitting
      <4> HIDE DEF f
      <4>4. Consistent(f) /\ f.map = fin.map /\ f.min = fin.min
        BY <2>1, <4>1, <4>2, <4>3, WriteConsistent
      <4>5. \/ Unlisted(fin, f) /\ last \in fin.spent /\ ~Loading
            \/ /\ Enlisted(fin, f, last)
               /\ Numbered(fin, last) \/ \A p \in Given : p[2] < last
        BY <1>5, <3>2, <4>1, <4>2, LastWritten DEF Behind
      <4> QED
        BY <3>2, <4>4, <4>5
    <3> QED
      BY <3>1, <3>2
  <2>3. Cleared(f, fin', now)
    BY <1>2, <1>5
  <2> HIDE DEF f
  <2>4. fin' # Unset => Given' = Given \cup Notes(fin')
    OBVIOUS
  <2>5. /\ fin' # Unset /\ fin'.map = fin.map /\ Numbers(fin', Given')
        /\ fin'.min = fin.min \/ (~settling /\ fin'.list # <<>> /\ fin'.min = Head(fin'.list).ts)
        /\ Seen \subseteq Seen' /\ Shown' \subseteq Seen' /\ fin'.spent = f.spent
        /\ \A u \in Shown \ Shown' : \E m \in Nat : Oldest(m, now) /\ Start(u) <= m
        /\ \A u \in Shown', v \in Shown : u < v => v \in Shown'
        /\ \/ Unlisted(fin, f) /\ Seen' = Seen /\ Shown' \subseteq Shown
           \/ /\ Enlisted(fin, f, last) /\ last \in Shown'
              /\ Seen' \subseteq Seen \cup {last} /\ Shown' \subseteq Shown \cup {last}
    BY <1>5, <2>2, <2>3, <2>4, ChunkListed DEF Behind
  <2>6. Numbering' /\ Current' = fin' /\ Current' # Unset /\ Current # Unset
    <3>1. Current' = fin'
      BY <2>5 DEF Current
    <3>2. Numbers(Current, Given)'
      BY <2>5, <3>1
    <3> QED
      BY <1>5, <2>1, <2>5, <3>1, <3>2 DEF Numbering
  <2>7. ~(Enlisted(fin, f, last) /\ Unlisted(fin, f))
    BY DEF Enlisted, Unlisted
  <2>8. \A v \in fin'.spent : v \in fin.spent \/ (Behind /\ v = last)
    BY <2>2, <2>5 DEF Enlisted, Unlisted
  <2> QED
    BY <1>2, <1>5, <2>1, <2>2, <2>5, <2>6, <2>7, <2>8
<1> QED
  BY <1>4, <1>5

\* The first of a list begins before the end of a window that comes after none of it.
LEMMA HeadIs ==
    ASSUME NEW f, Consistent(f), f.list # <<>>, NEW v \in Window, \A s \in ToSet(f.list) : s.w <= v
    PROVE  Head(f.list).ts \in Int /\ Head(f.list).ts < End(v)
<1> DEFINE h == Head(f.list)
<1>1. h \in ToSet(f.list)
  BY Ends DEF Consistent, Typed
<1> HIDE DEF h
<1>2. h.w \in Window /\ h.ts \in Int /\ h.ts < End(h.w) /\ h.w <= v
  BY <1>1, WindowListed DEF Consistent
<1>3. h.w = v \/ h.w < v
  <2>1. h.w \in Nat /\ v \in Nat
    BY <1>2, WindowsNumbered
  <2> QED
    BY <1>2, <2>1
<1>4. End(h.w) <= End(v) /\ End(h.w) \in Int /\ End(v) \in Int
  BY <1>2, <1>3, StartIs
<1> QED
  BY <1>2, <1>4 DEF h

\* The buffer keeps the newest chunks.
LEMMA NewestKept ==
    ASSUME SegmenterInv, SegmenterInv', Placed, Newest, Capacity > Length, now \in Times,
           All' = All \cup {now}, Cardinality(chunks') <= Capacity,
           \/ chunks' = chunks \cup {now}
           \/ \E m : Oldest(m, now) /\ chunks' = (chunks \cup {now}) \ {m}
    PROVE  /\ Newest' /\ now \in chunks'
           /\ \A m : Oldest(m, now) => m \notin chunks' /\ \A c \in chunks' : m <= c
<1>1. now \in Nat /\ chunks \subseteq Nat /\ All \subseteq Nat /\ (\A a \in All : a < now) /\ chunks \subseteq All
  BY WhereIs, AllIsFinite
<1>2. IsFiniteSet(chunks) /\ IsFiniteSet(chunks') /\ IsFiniteSet(chunks \cup {now})
  <2>1. IsFiniteSet(Times)
    BY SegmenterAssumption, FS_Interval DEF Times
  <2>2. chunks \subseteq Times /\ chunks' \subseteq Times /\ chunks \cup {now} \subseteq Times
    BY DEF SegmenterInv, Times
  <2> QED
    BY <2>1, <2>2, FS_Subset
<1>3. Capacity \in Nat /\ Capacity > 0 /\ Cardinality(chunks) \in Nat /\ Cardinality(chunks') \in Nat
      /\ Cardinality(chunks \cup {now}) \in Nat
  BY <1>2, SegmenterAssumption, FS_CardinalityType
<1>4. \A m : Oldest(m, now) => /\ m \in chunks /\ m < now /\ m \in Nat /\ (\A c \in chunks \cup {now} : m <= c)
                               /\ Cardinality(chunks \cup {now}) > Capacity
  BY OldestIs DEF Oldest
<1>5. CASE chunks' = chunks \cup {now}
  <2>1. \A m : ~Oldest(m, now)
    BY <1>3, <1>4, <1>5
  <2>2. chunks = All \/ Cardinality(chunks) >= Capacity
    BY DEF Newest
  <2>3. chunks \subseteq chunks'
    BY <1>5
  <2>4. Cardinality(chunks) <= Cardinality(chunks')
    BY <1>2, <2>3, FS_Subset
  <2>5. chunks' = All' \/ Cardinality(chunks') >= Capacity
    BY <1>3, <1>5, <2>2, <2>4
  <2>6. \A c \in chunks', a \in All' : c <= a => a \in chunks'
    <3> SUFFICES ASSUME NEW c \in chunks', NEW a \in All', c <= a PROVE a \in chunks'
      OBVIOUS
    <3>1. CASE a = now
      BY <1>5, <3>1
    <3>2. CASE a \in All
      <4>1. c # now
        BY <1>1, <3>2
      <4> QED
        BY <1>5, <3>2, <4>1 DEF Newest
    <3> QED
      BY <3>1, <3>2
  <2> QED
    BY <1>5, <2>1, <2>5, <2>6 DEF Newest
<1>6. ASSUME NEW m, Oldest(m, now), chunks' = (chunks \cup {now}) \ {m}
      PROVE  /\ Newest' /\ now \in chunks'
             /\ \A n : Oldest(n, now) => n \notin chunks' /\ \A c \in chunks' : n <= c
  <2>1. m \in chunks /\ m < now /\ m \in Nat /\ now \in chunks'
    BY <1>1, <1>4, <1>6
  <2>2. Cardinality(chunks \cup {now}) > Capacity
    BY <1>4, <1>6
  <2>3. Cardinality(chunks') = Cardinality(chunks \cup {now}) - 1
    <3>1. m \in chunks \cup {now}
      BY <2>1
    <3> QED
      BY <1>2, <1>6, <3>1, FS_RemoveElement
  <2>4. Cardinality(chunks') >= Capacity
    BY <1>3, <2>2, <2>3
  <2>5. \A c \in chunks', a \in All' : c <= a => a \in chunks'
    <3> SUFFICES ASSUME NEW c \in chunks', NEW a \in All', c <= a PROVE a \in chunks'
      OBVIOUS
    <3>1. CASE a = now
      BY <2>1, <3>1
    <3>2. CASE a \in All
      <4>1. c \in chunks /\ c # m
        BY <1>1, <1>6, <3>2
      <4>2. a \in chunks
        BY <3>2, <4>1 DEF Newest
      <4>3. m <= c /\ c \in Nat /\ a \in Nat
        BY <1>1, <1>4, <1>6, <4>1, <4>2
      <4>4. a # m
        BY <2>1, <4>1, <4>3
      <4> QED
        BY <1>6, <4>2, <4>4
    <3> QED
      BY <3>1, <3>2
  <2>6. ASSUME NEW n, Oldest(n, now) PROVE n \notin chunks' /\ \A c \in chunks' : n <= c
    <3>1. n \in Nat /\ n \in chunks /\ (\A c \in chunks \cup {now} : n <= c) /\ \A c \in chunks \cup {now} : m <= c
      BY <1>4, <1>6, <2>6
    <3>2. n = m
      BY <2>1, <3>1
    <3> QED
      BY <1>6, <3>1, <3>2
  <2> QED
    BY <2>1, <2>4, <2>5, <2>6 DEF Newest
<1> QED
  BY <1>5, <1>6

\* What was listed and is not any more, or waits to be, after a live chunk
LEMMA ChunkAccounts ==
    ASSUME UnsetIsNoRecord, HeaderInTime, Capacity > Length, GapInv, SegmenterInv', NumberParts,
           now \in Times, now' = now + 1, UNCHANGED <<toLoad, header>>,
           header # Unset => now < readBy, Loading => ~(\E m : Oldest(m, now)),
           Inserted(now), Cardinality(chunks') <= Capacity,
           Given' = Given \cup (IF fin' = Unset THEN {} ELSE Notes(fin'))
    PROVE  Accounted'
<1>1. SegmenterInv /\ SegmenterInv' /\ Placed /\ Numbering /\ Newest /\ Accounted /\ Loads
  BY DEF GapInv, NumberParts
<1> DEFINE w == Of(now)
<1>2. /\ w \in Nat /\ now \in Nat
      /\ \A s \in Seen : s \in Window /\ s \in Nat /\ s < w /\ Start(s) < now /\ now \notin Span(s)
      /\ last # Unset => last \in Nat /\ last \in Window /\ \A s \in Seen : s <= last
  BY PastIs
<1>3. /\ audio' = [audio EXCEPT ![Of(now)] = @ \cup {now}]
      /\ first' = Injected(now).first /\ last' = Injected(now).last
      /\ \/ chunks' = chunks \cup {now}
         \/ \E m : Oldest(m, now) /\ chunks' = (chunks \cup {now}) \ {m}
  BY DEF Inserted
<1>4. All' = All \cup {now} /\ chunks' \subseteq chunks \cup {now}
  BY <1>1, <1>3, HeldGrows
<1>5. /\ now \in chunks'
      /\ \A m : Oldest(m, now) => m \notin chunks' /\ \A c \in chunks' : m <= c
  BY <1>1, <1>3, <1>4, NewestKept
<1>6. /\ last' = w
      /\ \/ last = Unset /\ first' = Unset /\ first = Unset
         \/ last # Unset /\ w = last /\ first' = first
         \/ last # Unset /\ last < w /\ first = Unset /\ first' = last
         \/ last # Unset /\ last < w /\ first # Unset /\ first' = first
  <2>1. last = Unset => first = Unset
    BY <1>1 DEF Placed
  <2> QED
    BY <1>1, <1>3, <2>1, LiveIs
<1>7. first # Unset => first' = first /\ audio'[first] = audio[first] /\ first \in Window /\ first \in Nat
  BY <1>1, <1>3, <1>4, LivePlaced, WhereIs
<1>8. /\ Current' = Unset <=> Current = Unset
      /\ Current # Unset => Current'.map = Current.map
      /\ \A s \in Seen' : s \in Seen \/ (Behind /\ s = last /\ s \in Shown')
      /\ fin # Unset /\ Behind /\ Loading => last \in Shown'
      /\ \A u \in Shown \ Shown' : \E m \in Nat : Oldest(m, now) /\ Start(u) <= m
  BY ChunkLists
<1>9. /\ \A u \in Shown : fin # Unset /\ Between(u) /\ u \in Seen
      /\ fin # Unset => Current = fin
  BY <1>1, SeenIs
<1>10. /\ Loading' <=> Loading
       /\ Loading => Left' = Left \cup {now} /\ toLoad' = toLoad
       /\ ~Loading => Left' = chunks' /\ Left = chunks
  BY <1>4 DEF Loading, Left
<1>11. /\ Left \subseteq Nat /\ chunks \subseteq Left
  BY <1>1, WhereIs
<1> HIDE DEF w
<1> SUFFICES ASSUME NEW s \in Seen' \ Shown' PROVE Gone(s)' \/ Waits(s)'
  BY DEF Accounted
<1>12. s \in Seen /\ s \in Window /\ s \in Nat /\ s < w /\ Start(s) < now /\ now \notin Span(s)
  BY <1>2, <1>8
<1>13. Start(s) \in Nat /\ Start(s) \in Span(s) /\ Span(s) \subseteq Nat
  BY <1>12, SpanIs
<1>14. CASE s \in Shown
  <2>1. PICK m \in Nat : Oldest(m, now) /\ Start(s) <= m
    BY <1>8, <1>14
  <2>2. \A c \in chunks' : Start(s) <= c
    BY <1>4, <1>5, <1>11, <1>13, <1>2, <2>1
  <2>3. ~(Span(s) \subseteq chunks')
    <3>1. ASSUME Start(s) \in chunks' PROVE FALSE
      <4>1. m <= Start(s) /\ m \notin chunks'
        BY <1>5, <2>1, <3>1
      <4>2. m = Start(s)
        BY <1>13, <2>1, <4>1
      <4> QED
        BY <3>1, <4>1, <4>2
    <3> QED
      BY <1>13, <3>1
  <2>4. ~Loading
    BY <2>1
  <2>5. ~(\E c \in Left' : c < Start(s)) /\ ~(Span(s) \subseteq Left')
    <3>1. \A c \in chunks' : c \in Nat
      BY <1>2, <1>4, <1>11
    <3> QED
      BY <1>10, <1>13, <2>2, <2>3, <2>4, <3>1
  <2> QED
    BY <2>5 DEF Gone, Passed, Span
<1>15. CASE s \notin Shown
  <2>1. Gone(s) \/ Waits(s)
    BY <1>1, <1>12, <1>15 DEF Accounted
  <2>2. CASE Gone(s)
    <3>1. Left' \subseteq Left \cup {now}
      BY <1>4, <1>10
    <3>2. \A c \in Left : ~(c < Start(s))
      BY <2>2 DEF Gone, Passed
    <3>3. ~(now < Start(s))
      BY <1>2, <1>12, <1>13
    <3>4. ~(\E c \in Left' : c < Start(s))
      BY <3>1, <3>2, <3>3
    <3>5. ~(Span(s) \subseteq Left')
      BY <1>12, <2>2, <3>1 DEF Gone
    <3> QED
      BY <3>4, <3>5 DEF Gone, Passed, Span
  <2>3. CASE Waits(s)
    <3>1. /\ Loading /\ Current # Unset /\ Start(s) \in DOMAIN Current.map
          /\ \E c \in Left : Of(c) = s
          /\ first = Unset \/ s <= first \/ s = last
      BY <2>3 DEF Waits
    <3>2. first' = Unset \/ s <= first' \/ s = last'
      <4>1. CASE first = Unset
        BY <1>2, <1>6, <1>12, <4>1
      <4>2. CASE first # Unset /\ s <= first
        BY <1>7, <4>2
      <4>3. CASE first # Unset /\ s = last
        <5>1. Behind /\ last # Unset
          <6>1. last # Unset
            BY <1>1, <4>3 DEF Placed
          <6> QED
            BY <1>12, <4>3, <6>1 DEF Behind, w
        <5>2. fin = Unset
          BY <1>8, <3>1, <4>3, <5>1
        <5>3. header # Unset
          BY <3>1, <5>2 DEF Current
        <5>4. Injected(now).push = <<>>
          BY <1>1, <5>3, NoneIsPushed
        <5>5. Injected(now).push = <<last>>
          BY <1>1, <1>2, <5>1, LiveIs DEF Behind, w
        <5>6. <<last>> # <<>>
          OBVIOUS
        <5> QED
          BY <5>4, <5>5, <5>6
      <4> QED
        BY <3>1, <4>1, <4>2, <4>3
    <3>3. Loading' /\ Current' # Unset /\ Start(s) \in DOMAIN Current'.map /\ \E c \in Left' : Of(c) = s
      BY <1>8, <1>10, <3>1
    <3> QED
      BY <3>2, <3>3 DEF Waits
  <2> QED
    BY <2>1, <2>2, <2>3
<1> QED
  BY <1>14, <1>15

\* Two queues, one after the other
LEMMA Joined ==
    ASSUME NEW q \in Seq(Window), NEW p \in Seq(Window), NEW r, r = q \o p
    PROVE  /\ r \in Seq(Window) /\ Len(r) = Len(q) + Len(p)
           /\ \A i \in 1 .. Len(r) : r[i] = IF i <= Len(q) THEN q[i] ELSE p[i - Len(q)]
BY ConcatProperties

\* A queue with one more
LEMMA QueuedOne ==
    ASSUME NEW q \in Seq(Window), NEW v \in Window, NEW r, r = q \o <<v>>
    PROVE  /\ r \in Seq(Window) /\ Len(q) \in Nat /\ Len(r) = Len(q) + 1
           /\ \A i \in 1 .. Len(r) : r[i] = IF i <= Len(q) THEN q[i] ELSE v
<1> DEFINE p == <<v>>
<1>1. p \in Seq(Window) /\ Len(p) = 1 /\ p[1] = v
  OBVIOUS
<1>2. r = q \o p /\ Len(q) \in Nat
  OBVIOUS
<1> HIDE DEF p
<1>3. /\ r \in Seq(Window) /\ Len(r) = Len(q) + Len(p)
      /\ \A i \in 1 .. Len(r) : r[i] = IF i <= Len(q) THEN q[i] ELSE p[i - Len(q)]
  BY <1>1, <1>2, Joined
<1>4. Len(r) = Len(q) + 1 /\ r \in Seq(Window)
  BY <1>1, <1>3
<1>5. ASSUME NEW i \in 1 .. Len(r) PROVE r[i] = IF i <= Len(q) THEN q[i] ELSE v
  <2>1. i <= Len(q) \/ i - Len(q) = 1
    BY <1>2, <1>4
  <2> QED
    BY <1>1, <1>3, <2>1
<1> QED
  BY <1>2, <1>4, <1>5

\* A live chunk: the last segment may be listed, and the oldest of them go.
LEMMA ChunkNumbers ==
    ASSUME UnsetIsNoRecord, HeaderInTime, Capacity > Length, GapInv, GapInv', ~crowded',
           NumberParts, group # "moved", Chunk
    PROVE  NumberParts'
<1>1. /\ now \in Times /\ now' = now + 1 /\ Insert(now) /\ Record
      /\ UNCHANGED <<toLoad, header, readBy, settling>>
      /\ header # Unset => now < readBy
      /\ Loading => ~(\E m : Oldest(m, now))
  <2>1. /\ now' = now + 1 /\ Insert(now) /\ Record /\ now < MaxTime /\ now \in Nat
        /\ UNCHANGED <<toLoad, header, readBy, settling>>
        /\ header # Unset => now < readBy
    BY DEF Chunk, Passing, loading, GapInv, SegmenterInv
  <2>2. now \in Times
    BY <2>1, SegmenterAssumption DEF Times
  <2>3. toLoad # Unset => ~(Cardinality(chunks \cup {now}) > Capacity)
    BY DEF Chunk
  <2>4. Loading => ~(\E m : Oldest(m, now))
    BY <2>3 DEF Loading, Oldest
  <2> QED
    BY <2>1, <2>2, <2>4
<1>2. /\ SegmenterInv /\ SegmenterInv' /\ Placed /\ Placed' /\ Numbering /\ Contiguous /\ MinPlaced
      /\ InPast /\ Newest /\ Used /\ Middle
      /\ Cardinality(chunks) <= Capacity
  BY DEF GapInv, NumberParts, Loads
<1>3. Given' = Given \cup (IF fin' = Unset THEN {} ELSE Notes(fin'))
  BY <1>1, RecordIs
<1>4. /\ Cardinality(chunks') <= Capacity
      /\ (chunks' = chunks /\ UNCHANGED segmenter) \/ Inserted(now)
  BY <1>1, <1>2, InsertedIs
<1>5. CASE chunks' = chunks /\ UNCHANGED segmenter
  <2>1. Given' = Given
    <3>1. CASE fin = Unset
      BY <1>3, <1>5, <3>1 DEF segmenter
    <3>2. CASE fin # Unset
      <4>1. fin' = fin /\ Notes(fin) \subseteq Given
        BY <1>2, <1>5, <3>2 DEF segmenter, Numbering, Current, Numbers
      <4> QED
        BY <1>3, <4>1
    <3> QED
      BY <3>1, <3>2
  <2> QED
    BY <1>1, <1>5, <2>1, SilenceNumbers
<1>6. CASE Inserted(now)
  <2> DEFINE w == Of(now)
  <2>1. Accounted'
    BY <1>1, <1>2, <1>3, <1>4, <1>6, ChunkAccounts
  <2>2. /\ w \in Nat /\ now \in Nat
        /\ \A v \in Window : End(v) <= now <=> v < w
        /\ \A s \in Seen : s \in Window /\ s \in Nat /\ s < w
        /\ last # Unset => last \in Nat /\ last \in Window /\ \A s \in Seen : s <= last
    BY PastIs
  <2>3. /\ audio' = [audio EXCEPT ![Of(now)] = @ \cup {now}]
        /\ first' = Injected(now).first /\ last' = Injected(now).last
        /\ \/ chunks' = chunks \cup {now}
           \/ \E m : Oldest(m, now) /\ chunks' = (chunks \cup {now}) \ {m}
    BY <1>6 DEF Inserted
  <2>4. /\ All' = All \cup {now} /\ w \in Window
        /\ \A v \in Window : audio'[v] = IF v = w THEN audio[v] \cup {now} ELSE audio[v]
    BY <1>1, <1>2, <2>3, HeldGrows
  <2>5. Newest' /\ now \in chunks'
    BY <1>1, <1>2, <1>4, <2>3, <2>4, NewestKept
  <2>6. /\ last' = w
        /\ \/ last = Unset /\ first' = Unset /\ first = Unset
           \/ last # Unset /\ w = last /\ first' = first
           \/ last # Unset /\ last < w /\ first = Unset /\ first' = last
           \/ last # Unset /\ last < w /\ first # Unset /\ first' = first
    <3>1. last = Unset => first = Unset
      BY <1>2 DEF Placed
    <3> QED
      BY <1>2, <2>3, <3>1, LiveIs
  <2>7. /\ fin' = Unset <=> fin = Unset
        /\ Numbering'
        /\ Seen \subseteq Seen' /\ Shown' \subseteq Seen'
        /\ \A s \in Seen' : s \in Seen \/ (Behind /\ s = last /\ s \in Shown')
        /\ \A s \in Shown' : s \in Shown \/ (Behind /\ s = last)
        /\ fin # Unset /\ Behind /\ Loading => last \in Shown'
        /\ \A u \in Shown', v \in Shown : u < v => v \in Shown'
        /\ fin # Unset =>
             /\ \A v \in fin'.spent : v \in fin.spent \/ (Behind /\ v = last)
             /\ fin'.min = fin.min \/ (~settling /\ fin'.list # <<>> /\ fin'.min = Head(fin'.list).ts)
        /\ fin = Unset => queue' = queue \o (IF Behind THEN <<last>> ELSE <<>>)
        /\ fin # Unset => queue' = queue
    BY <1>1, <1>3, <1>6, ChunkLists
  <2>8. /\ Shown \subseteq Seen
        /\ \A u \in Shown : fin # Unset /\ Between(u)
    BY <1>2, SeenIs
  <2>9. /\ last = Unset => first = Unset
        /\ first # Unset => first \in Nat /\ last # Unset /\ first < last
        /\ last # Unset => audio[last] # {} /\ last <= w
    BY <1>2, <2>2, <2>6, WhereIs DEF Placed
  <2>10. now \in Left' /\ (Loading' <=> Loading)
    BY <1>1, <2>4, <2>5 DEF Left, Loading
  <2>11. w = Of(now) /\ (Behind <=> first # Unset /\ last # Unset /\ last < w)
    BY DEF Behind
  <2>12. \A s \in Seen' : s \in Nat /\ s \in Window /\ s < w
    BY <2>2, <2>7, <2>11
  <2> HIDE DEF w
  <2>13. \A s \in Seen' : ~OnTop(s)'
    <3> SUFFICES ASSUME NEW s \in Seen' PROVE ~(\A c \in Left' : Of(c) <= s)
      BY DEF OnTop
    <3>1. ~(Of(now) <= s)
      BY <2>2, <2>11, <2>12
    <3> QED
      BY <2>10, <3>1
  <2>14. TopIsFull' /\ Below'
    BY <2>13 DEF TopIsFull, Below
  <2>15. LastIsFull'
    BY <2>2, <2>6, <2>12 DEF LastIsFull
  <2>16. Contiguous'
    <3> SUFFICES ASSUME NEW u \in Shown', NEW s \in Seen', u < s, s \notin Shown' PROVE Loading /\ s = last'
      BY <2>10 DEF Contiguous
    <3>1. s \in Seen /\ s \in Nat /\ s < w /\ u \in Nat
      BY <2>7, <2>12
    <3>2. CASE u \in Shown
      <4>1. s \in Shown \/ (Loading /\ s = last)
        BY <1>2, <3>1, <3>2 DEF Contiguous
      <4>2. Loading /\ s = last
        BY <2>7, <4>1
      <4>3. fin # Unset /\ last # Unset /\ first # Unset
        BY <2>8, <3>2, <4>2 DEF Between, Loading
      <4>4. last \in Shown'
        BY <2>7, <2>11, <3>1, <4>2, <4>3
      <4> QED
        BY <4>2, <4>4
    <3>3. CASE u \notin Shown
      <4>1. u = last /\ last # Unset
        BY <2>7, <2>11, <3>3
      <4>2. s <= last /\ last \in Nat
        BY <2>2, <3>1, <4>1
      <4> QED
        BY <3>1, <4>1, <4>2
    <3> QED
      BY <3>2, <3>3
  <2>17. MinPlaced'
    <3>1. Loading' => settling'
      BY <1>1, <1>2, <2>10 DEF MinPlaced
    <3>2. ASSUME fin' # Unset, fin'.min # Unset
          PROVE  ~settling' /\ last' # Unset /\ fin'.min < End(last')
      <4>1. w # Unset /\ last' \in Window
        BY <2>4, <2>6, WindowsNumbered, SegmenterAssumption
      <4>2. fin # Unset /\ Consistent(fin) /\ Consistent(fin')
        BY <2>7, <3>2 DEF GapInv
      <4>3. CASE fin'.min = fin.min
        <5>1. ~settling /\ last # Unset /\ fin.min < End(last) /\ fin.min \in Int
          BY <1>2, <3>2, <4>2, <4>3 DEF MinPlaced, Consistent, Typed
        <5>2. last = w \/ last < w
          BY <2>2, <2>9, <5>1
        <5>3. End(last) = End(w) \/ End(last) <= End(w)
          BY <2>2, <2>4, <5>1, <5>2, StartIs
        <5>4. End(last) \in Nat /\ End(w) \in Nat
          BY <2>2, <2>4, <5>1, StartIs
        <5> QED
          BY <1>1, <2>6, <4>1, <4>3, <5>1, <5>3, <5>4
      <4>4. CASE ~settling /\ fin'.list # <<>> /\ fin'.min = Head(fin'.list).ts
        <5>1. \A s \in ToSet(fin'.list) : s.w <= w
          <6> SUFFICES ASSUME NEW s \in ToSet(fin'.list) PROVE s.w <= w
            OBVIOUS
          <6>1. s.w \in Shown'
            BY <3>2 DEF Shown, Windows
          <6>2. s.w \in Nat /\ s.w < w
            BY <2>7, <2>12, <6>1
          <6> QED
            BY <2>2, <6>2
        <5>2. Head(fin'.list).ts < End(w)
          BY <2>4, <4>2, <4>4, <5>1, HeadIs
        <5> QED
          BY <1>1, <2>6, <4>1, <4>4, <5>2
      <4> QED
        BY <2>7, <4>2, <4>3, <4>4
    <3> QED
      BY <3>1, <3>2 DEF MinPlaced
  <2>18. ASSUME last # Unset, last < w PROVE End(last) <= now
    BY <2>2, <2>18
  <2>19. queue \in Seq(Window) /\ queue' \in Seq(Window) /\ Len(queue) \in Nat
    BY <1>2 DEF SegmenterInv
  <2>20. \A i \in 1 .. Len(queue') : /\ queue'[i] \in Window /\ End(queue'[i]) <= now
                                     /\ (\E j \in 1 .. Len(queue) : queue'[i] = queue[j]) \/ (Behind /\ queue'[i] = last)
    <3>1. \A i \in 1 .. Len(queue) : queue[i] \in Window /\ End(queue[i]) <= now
      BY <1>2, <2>19 DEF InPast
    <3>2. CASE queue' = queue
      BY <3>1, <3>2
    <3>3. CASE Behind /\ queue' = queue \o <<last>>
      <4> DEFINE p == <<last>>
      <4>1. p \in Seq(Window) /\ Len(p) = 1 /\ p[1] = last
        BY <2>2, <2>11, <3>3
      <4>2. queue' = queue \o p
        BY <3>3
      <4> HIDE DEF p
      <4>3. \A i \in 1 .. Len(queue') : \/ \E j \in 1 .. Len(queue) : queue'[i] = queue[j]
                                        \/ \E j \in 1 .. Len(p) : queue'[i] = p[j]
        BY <2>19, <4>1, <4>2, QueueGrows
      <4>4. \A i \in 1 .. Len(queue') : (\E j \in 1 .. Len(queue) : queue'[i] = queue[j]) \/ queue'[i] = last
        BY <4>1, <4>3
      <4>5. last \in Window /\ End(last) <= now
        BY <2>2, <2>11, <2>18, <3>3
      <4> QED
        BY <3>1, <3>3, <4>4, <4>5
    <3>4. queue \o <<>> = queue
      BY <2>19, ConcatEmptySeq
    <3> QED
      BY <2>7, <3>2, <3>3, <3>4
  <2>21. InPast'
    <3>1. \A s \in Seen' : End(s) <= now /\ End(s) \in Nat
      BY <2>2, <2>12, StartIs
    <3>2. \A i \in 1 .. Len(queue') : End(queue'[i]) <= now /\ End(queue'[i]) \in Nat
      BY <2>20, StartIs
    <3>3. \A s \in Seen' : End(s) <= now'
      BY <1>1, <2>2, <3>1
    <3>4. \A i \in 1 .. Len(queue') : End(queue'[i]) <= now'
      BY <1>1, <2>2, <3>2
    <3> QED
      BY <3>3, <3>4 DEF InPast
  <2>22. \A v \in Window : audio[v] # {} => audio'[v] # {}
    BY <2>4
  <2>23. Used'
    <3> SUFFICES ASSUME fin' # Unset, NEW v \in fin'.spent
                 PROVE  audio'[v] # {} /\ (Loading => first' # Unset /\ first' < v /\ v < last')
      BY <2>10 DEF Used
    <3>1. fin # Unset /\ fin.spent \subseteq Window
      BY <2>7 DEF GapInv, Consistent, Typed
    <3>2. CASE v \in fin.spent
      <4>1. audio[v] # {} /\ (Loading => first # Unset /\ first < v /\ v < last) /\ v \in Nat
        BY <1>2, <3>1, <3>2, WindowsNumbered DEF Used
      <4> QED
        BY <2>2, <2>6, <2>9, <2>22, <3>1, <3>2, <4>1
    <3>3. CASE Behind /\ v = last
      BY <2>2, <2>6, <2>9, <2>11, <2>22, <3>3
    <3> QED
      BY <2>7, <3>1, <3>2, <3>3
  <2>24. Reached'
    <3>1. \A s \in Seen' : s <= Of(now)
      BY <2>2, <2>11, <2>12
    <3> QED
      BY <2>10, <3>1 DEF Reached
  <2>25. Middle'
    <3> SUFFICES ASSUME Loading, first' # Unset, NEW v \in Window, first' < v, v < last', audio'[v] # {}
                 PROVE  IF fin = Unset THEN \E i \in 1 .. Len(queue') : queue'[i] = v
                        ELSE v \in Seen' \/ \E x \in Seen' : v < x /\ x < last'
      BY <2>7, <2>10 DEF Middle
    <3>1. v \in Nat /\ audio[v] # {} /\ v # w /\ v < w
      <4>1. v \in Nat /\ v < w
        BY <2>6, WindowsNumbered
      <4>2. v # w
        BY <2>2, <4>1
      <4> QED
        BY <2>4, <4>1, <4>2
    <3>2. last # Unset /\ (v = last \/ (first # Unset /\ first <= v /\ v < last))
      BY <1>2, <3>1 DEF Placed
    <3>3. first # Unset /\ first' = first
      BY <2>2, <2>6, <2>9, <3>1, <3>2
    <3>4. CASE v # last
      <4>1. first < v /\ v < last
        BY <3>2, <3>3, <3>4
      <4>2. IF fin = Unset THEN \E i \in 1 .. Len(queue) : queue[i] = v
            ELSE v \in Seen \/ \E x \in Seen : v < x /\ x < last
        BY <1>2, <3>1, <3>3, <4>1 DEF Middle
      <4>3. CASE fin # Unset
        <5>1. \A x \in Seen : x < last'
          BY <2>2, <2>6
        <5> QED
          BY <2>7, <4>2, <4>3, <5>1
      <4>4. CASE fin = Unset
        <5>1. PICK i \in 1 .. Len(queue) : queue[i] = v
          BY <4>2, <4>4
        <5> DEFINE p == IF Behind THEN <<last>> ELSE <<>>
        <5>2. p \in Seq(Window)
          BY <2>2, <3>2
        <5>3. queue' = queue \o p
          BY <2>7, <4>4
        <5> HIDE DEF p
        <5>4. i \in 1 .. Len(queue') /\ queue'[i] = v
          BY <2>19, <5>1, <5>2, <5>3
        <5> QED
          BY <4>4, <5>4
      <4> QED
        BY <4>3, <4>4
    <3>5. CASE v = last
      <4>1. Behind
        BY <2>11, <3>1, <3>2, <3>3, <3>5
      <4>2. CASE fin # Unset
        BY <2>7, <3>5, <4>1, <4>2
      <4>3. CASE fin = Unset
        <5>1. last \in Window
          BY <2>2, <3>2
        <5>2. queue' = queue \o <<last>>
          BY <2>7, <4>1, <4>3
        <5>3. /\ Len(queue') = Len(queue) + 1
              /\ \A i \in 1 .. Len(queue') : queue'[i] = IF i <= Len(queue) THEN queue[i] ELSE last
          BY <2>19, <5>1, <5>2, QueuedOne
        <5>4. Len(queue) + 1 \in 1 .. Len(queue') /\ ~(Len(queue) + 1 <= Len(queue))
          BY <2>19, <5>3
        <5>5. queue'[Len(queue) + 1] = last
          BY <5>3, <5>4
        <5> QED
          BY <3>5, <4>3, <5>4, <5>5
      <4> QED
        BY <4>2, <4>3
    <3> QED
      BY <3>4, <3>5
  <2>26. LastQueued'
    <3>1. \A j \in 1 .. Len(queue') : queue'[j] # last'
      <4> SUFFICES ASSUME NEW j \in 1 .. Len(queue') PROVE queue'[j] # w
        BY <2>6
      <4>1. queue'[j] \in Window /\ End(queue'[j]) <= now
        BY <2>20
      <4>2. queue'[j] < w
        BY <2>2, <4>1
      <4> QED
        BY <2>2, <4>1, <4>2, WindowsNumbered
    <3> QED
      BY <3>1 DEF LastQueued
  <2> QED
    BY <2>1, <2>5, <2>7, <2>14, <2>15, <2>16, <2>17, <2>21, <2>23, <2>24, <2>25, <2>26 DEF NumberParts
<1> QED
  BY <1>4, <1>5, <1>6

\* A chunk that is loaded is older than all the buffer has: it takes it.
LEMMA LoadInserted ==
    ASSUME GapInv, NEW t \in Times, t \in toLoad, toLoad # Unset, Insert(t)
    PROVE  Inserted(t)
<1>1. /\ SegmenterInv /\ Placed /\ Cardinality(chunks) <= Capacity
      /\ t \in Nat /\ (\A a \in All : t < a) /\ chunks \subseteq All /\ t \notin All
  <2>1. SegmenterInv /\ Placed /\ Cardinality(chunks) <= Capacity
    BY DEF GapInv, Loads
  <2>2. t \in Nat /\ (\A a \in All : t < a) /\ chunks \subseteq All
    BY <2>1 DEF Placed
  <2>3. ~(t < t)
    BY <2>2
  <2> QED
    BY <2>1, <2>2, <2>3
<1>2. chunks = {} \/ t < Min(chunks)
  <2> SUFFICES ASSUME chunks # {} PROVE t < Min(chunks)
    OBVIOUS
  <2>1. IsFiniteSet(Times)
    BY SegmenterAssumption, FS_Interval DEF Times
  <2>2. chunks \subseteq Times
    BY <1>1 DEF SegmenterInv
  <2>3. IsFiniteSet(chunks) /\ chunks \subseteq Nat
    BY <1>1, <2>1, <2>2, FS_Subset, WhereIs
  <2>4. Min(chunks) \in chunks
    BY <2>3, MinIs
  <2> QED
    BY <1>1, <2>4
<1>3. audio' = [audio EXCEPT ![Of(t)] = @ \cup {t}]
  BY <1>2 DEF Insert
<1>4. ~UNCHANGED segmenter
  <2> SUFFICES ASSUME audio' = audio PROVE FALSE
    BY DEF segmenter
  <2>1. Of(t) \in Window /\ audio'[Of(t)] = audio[Of(t)] \cup {t}
    BY <1>1, <1>3, HeldGrows
  <2>2. t \in audio[Of(t)]
    BY <2>1
  <2> QED
    BY <1>1, <2>1, <2>2 DEF All
<1> QED
  BY <1>1, <1>4, InsertedIs

\* While there is more to load for a window before the first, all that was listed from the
\* first on is, or is the last and waits to be.
LEMMA FromFirst ==
    ASSUME GapInv, NumberParts, first # Unset, Loading, NEW t \in toLoad, Of(t) < first,
           NEW s \in Seen \ Shown, first <= s
    PROVE  Waits(s) /\ (s = first \/ s = last)
<1>1. SegmenterInv /\ Placed /\ Numbering /\ Accounted
  BY DEF GapInv, NumberParts
<1>2. s \in Window /\ s \in Nat /\ first \in Window /\ first \in Nat
  BY <1>1, WhereIs, SeenIs
<1>3. t \in Nat /\ t \in Left
  BY <1>1 DEF Placed, Loading, Left
<1>4. Of(t) \in Nat /\ t < End(Of(t)) /\ End(Of(t)) \in Int /\ Start(s) \in Int
  BY <1>2, <1>3, WindowOf, WindowsAre
<1>5. Of(t) < s
  BY <1>2, <1>4
<1>6. End(Of(t)) <= Start(s)
  BY <1>2, <1>4, <1>5, WindowsApart
<1>7. Passed(s)
  BY <1>3, <1>4, <1>6 DEF Passed
<1>8. Gone(s) \/ Waits(s)
  BY <1>1 DEF Accounted
<1>9. Waits(s)
  BY <1>7, <1>8 DEF Gone
<1>10. s <= first \/ s = last
  BY <1>9 DEF Waits
<1> QED
  BY <1>2, <1>9, <1>10

\* The first segment is pushed when a chunk goes before it: without a number it is listed
\* if nothing else is, and then comes after all that ever was.
LEMMA FirstWritten ==
    ASSUME GapInv, NumberParts, fin # Unset, first # Unset, Loading, NEW t \in toLoad, Of(t) < first,
           NEW parts, AudioOf(first, parts)
    PROVE  LET f == Write(fin, first, parts) IN
             \/ /\ Unlisted(fin, f) /\ ~Numbered(fin, first)
                /\ \E u \in Shown : first < u /\ u < last
             \/ /\ Enlisted(fin, f, first)
                /\ Numbered(fin, first) \/ \A p \in Given : p[2] < first
<1>1. /\ SegmenterInv /\ Placed /\ Consistent(fin) /\ ListPlaced(fin)
      /\ Numbering /\ MinPlaced /\ Used /\ Below
  BY DEF GapInv, NumberParts
<1>2. /\ last # Unset /\ last \in Window /\ last \in Nat /\ first \in Window /\ first \in Nat /\ first < last
      /\ Seen \subseteq Window /\ Seen \subseteq Nat
  BY <1>1, WhereIs, SeenIs
<1>3. first \notin fin.spent
  BY <1>1, <1>2 DEF Used
<1>4. \A u \in Windows(fin) : u \in Nat /\ first < u /\ u < last /\ u \in fin.spent
  BY <1>1, WindowListed DEF Windows, ListPlaced, Between, Loading
<1>5. \A s \in ToSet(fin.list) : first < s.w
  BY <1>4 DEF Windows
<1> DEFINE f == Write(fin, first, parts)
<1>6. \/ /\ Unlisted(fin, f)
         /\ \/ Numbered(fin, first) /\ BelowMin(fin, first)
            \/ ~Numbered(fin, first) /\ ~After(fin, first)
            \/ first \in fin.spent
      \/ Enlisted(fin, f, first)
  BY <1>1, <1>2, <1>5, WriteLists
<1> HIDE DEF f
<1>7. ~BelowMin(fin, first)
  BY <1>1 DEF MinPlaced, BelowMin
<1>8. ~After(fin, first) => \E u \in Shown : first < u /\ u < last
  BY <1>1, <1>2, <1>4, AfterIs DEF Shown
<1>9. ASSUME Enlisted(fin, f, first), ~Numbered(fin, first), NEW p \in Given PROVE p[2] < first
  <2>1. Windows(fin) = {}
    <3>1. After(fin, first)
      BY <1>9 DEF Enlisted
    <3>2. \A u \in Windows(fin) : u < first
      BY <1>1, <1>2, <3>1, AfterIs
    <3>3. \A u \in Windows(fin) : FALSE
      BY <1>2, <1>4, <3>2
    <3> QED
      BY <3>3
  <2>2. Shown = {}
    BY <2>1 DEF Shown
  <2>3. ~Waits(first)
    BY <1>9 DEF Waits, Current, Numbered
  <2>4. first \notin Seen
    <3>1. first <= first
      BY <1>2
    <3> QED
      BY <2>2, <2>3, <3>1, FromFirst
  <2>5. \A s \in Seen : first <= s => s = last
    BY <2>2, <2>4, FromFirst
  <2>6. last \notin Seen
    <3> SUFFICES ASSUME last \in Seen PROVE FALSE
      OBVIOUS
    <3>1. OnTop(last)
      BY <1>1, <1>2, WhereIs DEF OnTop
    <3>2. InFull(first)
      <4>1. PICK a \in All : Of(a) = first
        BY <1>1, WhereIs
      <4>2. a \in Left /\ t \in Left /\ t \in Nat
        BY <1>1, <4>1, WhereIs DEF Left, Loading, Placed
      <4>3. Of(t) \in Nat /\ t < End(Of(t)) /\ End(Of(t)) \in Int /\ Start(first) \in Int
        BY <1>2, <4>2, WindowOf, WindowsAre
      <4>4. End(Of(t)) <= Start(first)
        BY <1>2, <4>3, WindowsApart
      <4>5. t < Start(first)
        BY <4>2, <4>3, <4>4
      <4> QED
        BY <4>1, <4>2, <4>5 DEF InFull, Passed
    <3>3. PICK v \in Seen : first < v /\ v < last
      BY <1>1, <1>2, <2>4, <3>1, <3>2 DEF Below
    <3>4. v \in Nat /\ first <= v /\ v # last
      BY <1>2, <3>3
    <3> QED
      BY <2>5, <3>4
  <2>7. p[2] \in Seen
    BY DEF Seen
  <2>8. p[2] \in Nat /\ ~(first <= p[2])
    BY <1>2, <2>5, <2>6, <2>7
  <2> QED
    BY <1>2, <2>8
<1> QED
  BY <1>3, <1>6, <1>7, <1>8, <1>9 DEF f

\* A chunk that is loaded goes before the first segment: it is pushed.
Before(t) == first # Unset /\ Of(t) < first

\* What a chunk that is loaded makes of the list and of the numbers
LEMMA LoadLists ==
    ASSUME UnsetIsNoRecord, GapInv, NumberParts, Loading, header = Unset, NEW t \in Times, t \in toLoad,
           Inserted(t), UNCHANGED header, Given' = Given \cup (IF fin' = Unset THEN {} ELSE Notes(fin'))
    PROVE  /\ fin' = Unset <=> fin = Unset
           /\ Current' = Unset <=> Current = Unset
           /\ Current # Unset => fin # Unset /\ Current'.map = Current.map
           /\ Numbering'
           /\ Seen \subseteq Seen' /\ Shown \subseteq Shown' /\ Shown' \subseteq Seen'
           /\ \A s \in Seen' : s \in Seen \/ (Before(t) /\ s = first /\ s \in Shown')
           /\ \A s \in Shown' : s \in Shown \/ (Before(t) /\ s = first)
           /\ fin # Unset /\ Before(t) =>
                \/ first \in Shown'
                \/ Start(first) \notin DOMAIN fin.map /\ \E u \in Shown : first < u /\ u < last
           /\ fin # Unset =>
                /\ \A v \in fin'.spent : v \in fin.spent \/ (Before(t) /\ v = first)
                /\ fin'.min = Unset
           /\ fin = Unset => queue' = queue \o (IF Before(t) THEN <<first>> ELSE <<>>)
           /\ fin # Unset => queue' = queue
<1>1. SegmenterInv /\ Placed /\ Numbering /\ MinPlaced /\ settling /\ t \in Nat /\ \A a \in All : t < a
  BY DEF GapInv, NumberParts, MinPlaced, Placed, Loading
<1>2. /\ audio' = [audio EXCEPT ![Of(t)] = @ \cup {t}]
      /\ fin = Unset => fin' = fin /\ queue' = queue \o Injected(t).push
      /\ fin # Unset => queue' = queue /\ Cleared(WriteAll(fin, Injected(t).push, audio'), fin', t)
  BY DEF Inserted
<1>3. Of(t) \in Nat /\ (first # Unset => first \in Window /\ first \in Nat /\ Of(t) <= first)
  <2>1. Of(t) \in Nat
    BY <1>1, WindowOf
  <2>2. ASSUME first # Unset PROVE first \in Window /\ first \in Nat /\ Of(t) <= first
    <3>1. PICK a \in All : Of(a) = first
      BY <1>1, <2>2, WhereIs
    <3>2. a \in Nat /\ t <= a
      BY <1>1, <3>1, WhereIs
    <3> QED
      BY <1>1, <2>2, <3>1, <3>2, OfGrows, WhereIs
  <2> QED
    BY <2>1, <2>2
<1>4. Injected(t).push = IF Before(t) THEN <<first>> ELSE <<>>
  <2>1. \/ last = Unset /\ first = Unset /\ Injected(t).push = <<>>
        \/ last # Unset /\ Of(t) = last /\ first = Unset /\ Injected(t).push = <<>>
        \/ first # Unset /\ Of(t) = first /\ Injected(t).push = <<>>
        \/ last # Unset /\ first = Unset /\ Of(t) < last /\ Injected(t).push = <<>>
        \/ first # Unset /\ Of(t) < first /\ Injected(t).push = <<first>>
    BY <1>1, LoadedIs
  <2> QED
    BY <1>3, <2>1 DEF Before
<1>5. CASE fin = Unset
  <2>1. Current = Unset /\ Given = {}
    BY <1>1, <1>5, SeenIs DEF Current
  <2>2. fin' = Unset /\ Current' = Unset /\ Given' = Given /\ Seen' = Seen /\ Shown' = {} /\ Shown = {}
    BY <1>2, <1>5 DEF Current, Seen, Shown
  <2>3. Numbering'
    BY <2>1, <2>2 DEF Numbering
  <2> QED
    BY <1>2, <1>4, <1>5, <2>1, <2>2, <2>3
<1>6. CASE fin # Unset
  <2> DEFINE f == WriteAll(fin, Injected(t).push, audio')
  <2>1. /\ Consistent(fin) /\ ListPlaced(fin) /\ Fits(fin) /\ fin = Current /\ fin.min = Unset
        /\ Numbers(fin, Given) /\ Shown = Windows(fin)
    BY <1>1, <1>6 DEF GapInv, Current, MinPlaced, Numbering, Shown
  <2>2. /\ Consistent(f) /\ f.map = fin.map /\ f.min = fin.min
        /\ \/ /\ Unlisted(fin, f)
              /\ Before(t) => Start(first) \notin DOMAIN fin.map /\ \E u \in Shown : first < u /\ u < last
           \/ Before(t) /\ Enlisted(fin, f, first) /\ (Numbered(fin, first) \/ \A p \in Given : p[2] < first)
    <3>1. CASE ~Before(t)
      <4>1. f = fin
        BY <1>4, <3>1, NoneWritten
      <4> HIDE DEF f
      <4> QED
        BY <2>1, <3>1, <4>1 DEF Unlisted
    <3>2. CASE Before(t)
      <4>1. f = Write(fin, first, audio'[first])
        BY <1>4, <3>2, OneWritten
      <4>2. first # Unset /\ first \in Window /\ AudioOf(first, audio'[first]) /\ first \in Nat
        <5>1. first # Unset /\ first \in Window /\ audio[first] # {}
          BY <1>1, <3>2 DEF Before, SegmenterInv, Placed
        <5> QED
          BY <1>1, <1>2, <5>1, HeldGrows, WindowsNumbered
      <4>3. Fitting(fin, first)
        <5>1. ~Cut(fin) /\ toLoad # Unset
          BY <2>1 DEF Cut, Loading
        <5> QED
          BY <2>1, <5>1 DEF Fitting, Fits, NoMap, Numbered
      <4> HIDE DEF f
      <4>4. Consistent(f) /\ f.map = fin.map /\ f.min = fin.min
        BY <2>1, <4>1, <4>2, <4>3, WriteConsistent
      <4>5. \/ /\ Unlisted(fin, f) /\ ~Numbered(fin, first)
               /\ \E u \in Shown : first < u /\ u < last
            \/ /\ Enlisted(fin, f, first)
               /\ Numbered(fin, first) \/ \A p \in Given : p[2] < first
        BY <1>6, <3>2, <4>1, <4>2, FirstWritten DEF Before
      <4> QED
        BY <3>2, <4>4, <4>5 DEF Numbered
    <3> QED
      BY <3>1, <3>2
  <2>3. Cleared(f, fin', t)
    BY <1>2, <1>6
  <2> HIDE DEF f
  <2>4. \/ Unlisted(fin, f) /\ Notes(f) \subseteq Given /\ Windows(f) = Shown
        \/ /\ Before(t) /\ Enlisted(fin, f, first) /\ Windows(f) = Shown \cup {first}
           /\ Given \cup Notes(f) = Given \cup {<<IdOf(fin, first), first>>}
    <3>1. CASE Unlisted(fin, f)
      BY <2>1, <3>1 DEF Unlisted, Notes, Windows, Numbers
    <3>2. CASE ~Unlisted(fin, f)
      <4>1. Before(t) /\ Enlisted(fin, f, first)
        BY <2>2, <3>2
      <4>2. PICK x \in ToSet(f.list) : /\ x.w = first /\ x.id = IdOf(fin, first)
                                       /\ ToSet(f.list) = ToSet(fin.list) \cup {x}
        BY <4>1 DEF Enlisted
      <4>3. Notes(f) = Notes(fin) \cup {<<IdOf(fin, first), first>>} /\ Windows(f) = Windows(fin) \cup {first}
        BY <4>2 DEF Notes, Windows
      <4>4. Notes(fin) \subseteq Given
        BY <2>1 DEF Numbers
      <4> QED
        BY <2>1, <4>1, <4>3, <4>4
    <3> QED
      BY <3>1, <3>2
  <2>5. Numbers(f, Given \cup Notes(f))
    <3>1. CASE Unlisted(fin, f)
      <4>1. 0 \in Window
        BY SegmenterAssumption DEF Window
      <4> QED
        BY <2>1, <3>1, <4>1, NumbersGrow
    <3>2. CASE ~Unlisted(fin, f)
      <4>1. first \in Window
        BY <1>3, <2>2, <3>2 DEF Before
      <4> QED
        BY <2>1, <2>2, <3>2, <4>1, NumbersGrow
    <3> QED
      BY <3>1, <3>2
  <2>6. /\ fin'.map = f.map /\ fin'.seq = f.seq /\ fin'.spent = f.spent /\ Consistent(fin')
        /\ fin'.min = f.min
        /\ \/ fin'.list = f.list
           \/ \E m \in Nat : Oldest(m, t) /\ \A s : s \in ToSet(fin'.list) <=> s \in ToSet(f.list) /\ s.ts > m
    BY <1>1, <2>2, <2>3, ClearedIs
  <2>7. \A v \in Windows(f) : v \in Window /\ v \in Nat /\ Of(t) < v
    <3>1. \A u \in Shown : Between(u) /\ u \in Window /\ u \in Nat
      BY <1>1, SeenIs
    <3>2. \A u \in Shown : u \in Window /\ u \in Nat /\ Of(t) < u
      BY <1>3, <3>1 DEF Between, Loading
    <3>3. Before(t) => first \in Window /\ first \in Nat /\ Of(t) < first
      BY <1>3 DEF Before
    <3> QED
      BY <2>4, <3>2, <3>3
  <2>8. ToSet(fin'.list) = ToSet(f.list)
    <3>1. ASSUME NEW m \in Nat, Oldest(m, t), \A s : s \in ToSet(fin'.list) <=> s \in ToSet(f.list) /\ s.ts > m
          PROVE  ToSet(fin'.list) = ToSet(f.list)
      <4>1. ASSUME NEW s \in ToSet(f.list) PROVE s.ts > m
        <5>1. s.w \in Window /\ s.w \in Nat /\ Of(t) < s.w
          BY <2>7 DEF Windows
        <5>2. s.ts \in Int /\ Start(s.w) <= s.ts /\ Start(s.w) \in Int
          BY <2>2, <5>1, WindowListed, WindowsAre
        <5>3. t < End(Of(t)) /\ End(Of(t)) <= Start(s.w) /\ End(Of(t)) \in Int
          BY <1>1, <1>3, <5>1, WindowOf, WindowsApart, WindowsAre
        <5>4. m <= t
          BY <3>1 DEF Oldest
        <5> QED
          BY <1>1, <5>2, <5>3, <5>4
      <4> QED
        BY <3>1, <4>1
    <3> QED
      BY <2>6, <3>1
  <2>9. fin' # Unset
    BY <2>6 DEF UnsetIsNoRecord, Consistent, Typed
  <2>10. Notes(fin') = Notes(f) /\ Windows(fin') = Windows(f) /\ Shown' = Windows(f)
    BY <2>8, <2>9 DEF Notes, Windows, Shown
  <2>11. Given' = Given \cup Notes(f)
    BY <2>9, <2>10
  <2>12. Numbers(fin', Given')
    BY <2>5, <2>6, <2>10, <2>11 DEF Numbers
  <2>13. Current' = fin' /\ Numbering'
    <3>1. Current' = fin'
      BY <2>9 DEF Current
    <3>2. Numbers(Current, Given)'
      BY <2>12, <3>1
    <3> QED
      BY <2>9, <3>1, <3>2 DEF Numbering
  <2>14. /\ Unlisted(fin, f) => Seen' = Seen
         /\ ~Unlisted(fin, f) => Seen' = Seen \cup {first}
    <3>1. CASE Unlisted(fin, f)
      <4>1. Given' = Given
        BY <2>4, <2>11, <3>1 DEF Enlisted, Unlisted
      <4> QED
        BY <3>1, <4>1 DEF Seen
    <3>2. CASE ~Unlisted(fin, f)
      <4> DEFINE q == <<IdOf(fin, first), first>>
      <4>1. Given' = Given \cup {q} /\ q[2] = first
        BY <2>4, <2>11, <3>2
      <4> HIDE DEF q
      <4>2. {p[2] : p \in Given'} = {p[2] : p \in Given} \cup {first}
        BY <4>1
      <4> QED
        BY <3>2, <4>2 DEF Seen
    <3> QED
      BY <3>1, <3>2
  <2>15. Shown' \subseteq Seen'
    <3>1. Shown \subseteq Seen
      BY <1>1, SeenIs
    <3> QED
      BY <2>4, <2>10, <2>14, <3>1 DEF Enlisted, Unlisted
  <2>16. \A v \in fin'.spent : v \in fin.spent \/ (Before(t) /\ v = first)
    BY <2>2, <2>6 DEF Enlisted, Unlisted
  <2>17. ~(Enlisted(fin, f, first) /\ Unlisted(fin, f))
    BY DEF Enlisted, Unlisted
  <2> QED
    BY <1>2, <1>6, <2>1, <2>2, <2>4, <2>6, <2>9, <2>10, <2>13, <2>14, <2>15, <2>16, <2>17
<1> QED
  BY <1>5, <1>6

\* The buffer takes a chunk that is loaded if it has all that came.
LEMMA LoadNewest ==
    ASSUME SegmenterInv, SegmenterInv', Placed, Newest, NEW t \in Times, \A a \in All : t < a,
           All' = All \cup {t}, Cardinality(chunks') <= Capacity,
           \/ chunks' = chunks \cup {t}
           \/ \E m : Oldest(m, t) /\ chunks' = (chunks \cup {t}) \ {m}
    PROVE  Newest'
<1>1. t \in Nat /\ chunks \subseteq Nat /\ All \subseteq Nat /\ chunks \subseteq All /\ t \notin chunks
  <2>1. t \in Nat /\ chunks \subseteq Nat /\ All \subseteq Nat /\ chunks \subseteq All
    BY WhereIs DEF Times
  <2>2. ~(t < t)
    BY <2>1
  <2> QED
    BY <2>1, <2>2
<1>2. IsFiniteSet(chunks) /\ Cardinality(chunks \cup {t}) = Cardinality(chunks) + 1
      /\ Cardinality(chunks) \in Nat /\ Capacity \in Nat /\ Capacity > 0
  <2>1. IsFiniteSet(Times)
    BY SegmenterAssumption, FS_Interval DEF Times
  <2>2. chunks \subseteq Times
    BY DEF SegmenterInv
  <2>3. IsFiniteSet(chunks)
    BY <2>1, <2>2, FS_Subset
  <2> QED
    BY <1>1, <2>3, FS_AddElement, FS_CardinalityType, SegmenterAssumption
<1>3. CASE chunks' = chunks \cup {t}
  <2>1. Cardinality(chunks) < Capacity
    BY <1>2, <1>3
  <2>2. chunks = All
    BY <1>2, <2>1 DEF Newest
  <2>3. chunks' = All'
    BY <1>3, <2>2
  <2> QED
    BY <1>3, <2>3 DEF Newest
<1>4. CASE \E m : Oldest(m, t) /\ chunks' = (chunks \cup {t}) \ {m}
  <2>1. PICK m : Oldest(m, t) /\ chunks' = (chunks \cup {t}) \ {m}
    BY <1>4
  <2>2. m \in chunks \cup {t} /\ m <= t /\ Cardinality(chunks \cup {t}) > Capacity
    BY <2>1 DEF Oldest
  <2>3. m = t
    <3>1. m \in chunks => t < m /\ m \in Nat
      BY <1>1
    <3> QED
      BY <1>1, <2>2, <3>1
  <2>4. chunks' = chunks
    BY <1>1, <2>1, <2>3
  <2>5. Cardinality(chunks) >= Capacity
    BY <1>2, <2>2
  <2>6. chunks # {}
    <3>1. chunks = {} => Cardinality(chunks) = 0
      BY FS_EmptySet
    <3> QED
      BY <1>2, <2>5, <3>1
  <2>7. \A c \in chunks, a \in All' : c <= a => a \in chunks
    <3> SUFFICES ASSUME NEW c \in chunks, NEW a \in All', c <= a PROVE a \in chunks
      OBVIOUS
    <3>1. a # t
      <4>1. t < c /\ c \in Nat
        BY <1>1
      <4> QED
        BY <1>1, <4>1
    <3> QED
      BY <3>1 DEF Newest
  <2> QED
    BY <2>4, <2>5, <2>6, <2>7 DEF Newest
<1> QED
  BY <1>3, <1>4

\* A chunk is loaded: the first segment may be listed; nothing goes.
LEMMA LoadChunkNumbers ==
    ASSUME UnsetIsNoRecord, GapInv, GapInv', NumberParts, group # "moved", LoadChunk
    PROVE  NumberParts'
<1>1. /\ header = Unset /\ toLoad # Unset /\ Loading /\ Record
      /\ UNCHANGED <<now, header, settling>>
  BY DEF LoadChunk, Loading
<1>2. PICK t \in toLoad :
         /\ \A u \in toLoad : u <= t
         /\ toLoad' = toLoad \ {t}
         /\ Insert(t)
  BY DEF LoadChunk
<1>3. /\ SegmenterInv /\ SegmenterInv' /\ Placed /\ Placed' /\ Numbering /\ Contiguous /\ MinPlaced
      /\ InPast /\ Newest /\ Used /\ Reached /\ Accounted /\ TopIsFull /\ Middle /\ Below
      /\ Cardinality(chunks) <= Capacity
  BY DEF GapInv, NumberParts, Loads
<1>4. /\ t \in Times /\ t \in Nat /\ t < now /\ now \in Nat
      /\ (\A a \in All : t < a) /\ toLoad' # Unset /\ Loading'
  <2>1. toLoad' \in SUBSET Times
    BY <1>1, <1>2, <1>3 DEF SegmenterInv
  <2> QED
    BY <1>1, <1>2, <1>3, <2>1, SegmenterAssumption DEF SegmenterInv, Placed, Times, Loading
<1>5. Given' = Given \cup (IF fin' = Unset THEN {} ELSE Notes(fin'))
  BY <1>1, RecordIs
<1>6. Inserted(t) /\ Cardinality(chunks') <= Capacity
  BY <1>1, <1>2, <1>3, <1>4, LoadInserted, InsertedIs
<1>7. /\ audio' = [audio EXCEPT ![Of(t)] = @ \cup {t}]
      /\ first' = Injected(t).first /\ last' = Injected(t).last
      /\ \/ chunks' = chunks \cup {t}
         \/ \E m : Oldest(m, t) /\ chunks' = (chunks \cup {t}) \ {m}
  BY <1>6 DEF Inserted
<1> DEFINE w == Of(t)
<1>8. /\ All' = All \cup {t} /\ w \in Window /\ w \in Nat
      /\ \A v \in Window : audio'[v] = IF v = w THEN audio[v] \cup {t} ELSE audio[v]
  BY <1>3, <1>4, <1>7, HeldGrows
<1>9. Newest'
  BY <1>3, <1>4, <1>6, <1>7, <1>8, LoadNewest
<1>10. Left' = Left
  BY <1>1, <1>2, <1>4, <1>8 DEF Left
<1>11. \A v \in Window : /\ Passed(v)' <=> Passed(v)
                         /\ InFull(v)' <=> InFull(v)
                         /\ OnTop(v)' <=> OnTop(v)
  BY <1>10 DEF Passed, InFull, OnTop, Span
<1>12. \/ last = Unset /\ first = Unset /\ first' = Unset /\ last' = w
       \/ last # Unset /\ w = last /\ first = Unset /\ first' = Unset /\ last' = last
       \/ first # Unset /\ w = first /\ first' = first /\ last' = last
       \/ last # Unset /\ first = Unset /\ w < last /\ first' = w /\ last' = last
       \/ first # Unset /\ w < first /\ first' = w /\ last' = last
  BY <1>3, <1>4, <1>7, LoadedIs
<1>13. /\ fin' = Unset <=> fin = Unset
       /\ Current' = Unset <=> Current = Unset
       /\ Current # Unset => fin # Unset /\ Current'.map = Current.map
       /\ Numbering'
       /\ Seen \subseteq Seen' /\ Shown \subseteq Shown' /\ Shown' \subseteq Seen'
       /\ \A s \in Seen' : s \in Seen \/ (Before(t) /\ s = first /\ s \in Shown')
       /\ \A s \in Shown' : s \in Shown \/ (Before(t) /\ s = first)
       /\ fin # Unset /\ Before(t) =>
            \/ first \in Shown'
            \/ Start(first) \notin DOMAIN fin.map /\ \E u \in Shown : first < u /\ u < last
       /\ fin # Unset =>
            /\ \A v \in fin'.spent : v \in fin.spent \/ (Before(t) /\ v = first)
            /\ fin'.min = Unset
       /\ fin = Unset => queue' = queue \o (IF Before(t) THEN <<first>> ELSE <<>>)
       /\ fin # Unset => queue' = queue
  BY <1>1, <1>2, <1>4, <1>5, <1>6, LoadLists
<1>14. /\ Seen \subseteq Window /\ Seen \subseteq Nat /\ Shown \subseteq Seen
       /\ \A u \in Shown : fin # Unset /\ Between(u)
       /\ fin # Unset => Current = fin
  BY <1>3, SeenIs
<1>15. /\ last # Unset => last \in Window /\ last \in Nat /\ \E a \in All : Of(a) = last
       /\ first # Unset => /\ first \in Window /\ first \in Nat /\ \E a \in All : Of(a) = first
                           /\ last # Unset /\ first < last
       /\ Left \subseteq Nat /\ All \subseteq Left
       /\ \A a \in All : a < now /\ a \in Nat
  BY <1>1, <1>3, WhereIs, AllIsFinite
<1>16. Before(t) <=> first # Unset /\ w < first
  BY DEF Before
<1>17. \A s \in Seen' : s \in Seen \/ s = first
  BY <1>13
<1>18. last # Unset => last' = last
  BY <1>12, <1>15
<1>a. w = Of(t)
  OBVIOUS
<1> HIDE DEF w
<1>19. Contiguous'
  <2> SUFFICES ASSUME NEW u \in Shown', NEW s \in Seen', u < s, s \notin Shown' PROVE s = last'
    BY <1>4 DEF Contiguous
  <2>1. s \in Seen /\ s \notin Shown
    BY <1>13
  <2>2. CASE u \in Shown
    <3>1. s = last /\ last # Unset
      BY <1>3, <1>14, <2>1, <2>2 DEF Contiguous, Between
    <3> QED
      BY <1>18, <3>1
  <2>3. CASE u \notin Shown
    <3>1. Before(t) /\ u = first
      BY <1>13, <2>3
    <3>2. first # Unset /\ w < first /\ first <= s /\ s # first
      BY <1>14, <1>15, <1>16, <2>1, <3>1
    <3>3. s = last
      BY <1>1, <1>a, <2>1, <3>2, FromFirst
    <3> QED
      BY <1>15, <1>18, <3>2, <3>3
  <2> QED
    BY <2>2, <2>3
<1>20. MinPlaced'
  BY <1>1, <1>3, <1>13 DEF MinPlaced
<1>21. first # Unset => End(first) <= now
  <2> SUFFICES ASSUME first # Unset PROVE End(first) <= now
    OBVIOUS
  <2>1. PICK a \in All : Of(a) = last
    BY <1>15
  <2>2. a \in Nat /\ a < now /\ Start(last) <= a /\ Start(last) \in Int /\ End(first) \in Int
    BY <1>15, <2>1, WindowOf, WindowsAre
  <2>3. End(first) <= Start(last)
    BY <1>15, WindowsApart
  <2> QED
    BY <1>4, <2>2, <2>3
<1>22. queue \in Seq(Window) /\ queue' \in Seq(Window) /\ Len(queue) \in Nat
  BY <1>3 DEF SegmenterInv
<1>23. /\ fin = Unset /\ ~Before(t) => queue' = queue
       /\ fin = Unset /\ Before(t) =>
            /\ Len(queue') = Len(queue) + 1
            /\ \A i \in 1 .. Len(queue') : queue'[i] = IF i <= Len(queue) THEN queue[i] ELSE first
  <2>1. CASE fin = Unset /\ ~Before(t)
    <3>1. queue \o <<>> = queue
      BY <1>22, ConcatEmptySeq
    <3> QED
      BY <1>13, <2>1, <3>1
  <2>2. CASE fin = Unset /\ Before(t)
    <3>1. first \in Window
      BY <1>15, <1>16, <2>2
    <3>2. queue' = queue \o <<first>>
      BY <1>13, <2>2
    <3> QED
      BY <1>22, <2>2, <3>1, <3>2, QueuedOne
  <2> QED
    BY <2>1, <2>2
<1>24. InPast'
  <2>1. \A s \in Seen' : End(s) <= now
    BY <1>3, <1>13, <1>16, <1>21 DEF InPast
  <2>2. \A i \in 1 .. Len(queue') : End(queue'[i]) <= now
    <3> SUFFICES ASSUME NEW i \in 1 .. Len(queue') PROVE End(queue'[i]) <= now
      OBVIOUS
    <3>1. CASE queue' = queue
      BY <1>3, <3>1 DEF InPast
    <3>2. CASE fin = Unset /\ Before(t)
      <4>1. CASE i <= Len(queue)
        <5>1. queue'[i] = queue[i] /\ i \in 1 .. Len(queue)
          BY <1>22, <1>23, <3>2, <4>1
        <5> QED
          BY <1>3, <5>1 DEF InPast
      <4>2. CASE ~(i <= Len(queue))
        BY <1>16, <1>21, <1>23, <3>2, <4>2
      <4> QED
        BY <4>1, <4>2
    <3> QED
      BY <1>13, <1>23, <3>1, <3>2
  <2> QED
    BY <1>1, <2>1, <2>2 DEF InPast
<1>25. \A v \in Window : audio[v] # {} => audio'[v] # {}
  BY <1>8
<1>26. Used'
  <2> SUFFICES ASSUME fin' # Unset, NEW v \in fin'.spent
               PROVE  audio'[v] # {} /\ first' # Unset /\ first' < v /\ v < last'
    BY <1>4 DEF Used
  <2>1. fin # Unset /\ fin.spent \subseteq Window
    BY <1>13 DEF GapInv, Consistent, Typed
  <2>2. CASE v \in fin.spent
    <3>1. audio[v] # {} /\ first # Unset /\ first < v /\ v < last /\ v \in Nat
      BY <1>1, <1>3, <2>1, <2>2, WindowsNumbered DEF Used
    <3>2. first' # Unset /\ first' < v
      <4>1. first' = first \/ (first' = w /\ w < first)
        BY <1>12, <3>1
      <4>2. w # Unset
        BY <1>8, SegmenterAssumption
      <4> QED
        BY <1>8, <1>15, <3>1, <4>1, <4>2
    <3> QED
      BY <1>15, <1>18, <1>25, <2>1, <2>2, <3>1, <3>2
  <2>3. CASE Before(t) /\ v = first
    <3>1. first' = w /\ first # Unset /\ w < first
      BY <1>8, <1>12, <1>15, <1>16, <2>3
    <3>2. w # Unset
      BY <1>8, SegmenterAssumption
    <3>3. audio[first] # {}
      BY <1>3, <3>1 DEF Placed
    <3> QED
      BY <1>15, <1>18, <1>25, <2>3, <3>1, <3>2, <3>3
  <2> QED
    BY <1>13, <2>1, <2>2, <2>3
<1>27. Reached'
  <2>1. \A s \in Seen : \E c \in Left : s <= Of(c)
    BY <1>3 DEF Reached
  <2>2. Before(t) => \E c \in Left : first <= Of(c)
    <3> SUFFICES ASSUME Before(t) PROVE \E c \in Left : first <= Of(c)
      OBVIOUS
    <3>1. PICK a \in All : Of(a) = first
      BY <1>15, <1>16
    <3>2. a \in Left /\ first <= Of(a)
      BY <1>15, <1>16, <3>1
    <3> QED
      BY <3>2
  <2> QED
    BY <1>10, <1>13, <2>1, <2>2 DEF Reached
<1>28. Accounted'
  <2> SUFFICES ASSUME NEW s \in Seen' \ Shown' PROVE Gone(s)' \/ Waits(s)'
    BY DEF Accounted
  <2>1. s \in Seen /\ s \notin Shown /\ s \in Window /\ s \in Nat
    BY <1>13, <1>14
  <2>2. Gone(s) \/ Waits(s)
    BY <1>3, <2>1 DEF Accounted
  <2>3. CASE Gone(s)
    BY <1>10, <2>3 DEF Gone, Passed, Span
  <2>4. CASE Waits(s)
    <3>1. /\ Current # Unset /\ Start(s) \in DOMAIN Current.map
          /\ first = Unset \/ s <= first \/ s = last
      BY <2>4 DEF Waits
    <3>2. PICK c \in Left : Of(c) = s
      BY <2>4 DEF Waits
    <3>3. c \in toLoad => s <= w
      <4> SUFFICES ASSUME c \in toLoad PROVE s <= w
        OBVIOUS
      <4>1. c <= t /\ c \in Nat
        BY <1>2, <1>15
      <4> QED
        BY <1>4, <1>a, <3>2, <4>1, OfGrows
    <3>4. c \notin toLoad => last # Unset /\ (s = last \/ (first # Unset /\ first <= s))
      <4> SUFFICES ASSUME c \in All PROVE last # Unset /\ (s = last \/ (first # Unset /\ first <= s))
        BY <1>1 DEF Left
      <4> QED
        BY <1>3, <3>2, WhereIs
    <3>5. first' = Unset \/ s <= first' \/ s = last'
      <4>1. CASE first' = Unset \/ first' = first
        BY <1>12, <1>15, <1>18, <3>1, <4>1
      <4>2. CASE first = Unset /\ last # Unset /\ first' = w
        BY <1>18, <3>3, <3>4, <4>2
      <4>3. CASE first # Unset /\ w < first /\ first' = w
        <5>1. s # first
          <6> SUFFICES ASSUME s = first PROVE FALSE
            OBVIOUS
          <6>1. fin # Unset /\ fin = Current /\ Before(t)
            BY <1>13, <1>14, <1>16, <3>1, <4>3
          <6>2. first \in Shown'
            BY <1>13, <3>1, <6>1
          <6> QED
            BY <6>2
        <5>2. s = last \/ s < first
          BY <1>15, <2>1, <3>1, <4>3, <5>1
        <5> QED
          BY <1>15, <1>18, <2>1, <3>3, <3>4, <4>3, <5>2
      <4> QED
        BY <1>12, <4>1, <4>2, <4>3
    <3>6. Loading' /\ Current' # Unset /\ Start(s) \in DOMAIN Current'.map /\ \E d \in Left' : Of(d) = s
      BY <1>4, <1>10, <1>13, <3>1, <3>2
    <3> QED
      BY <3>5, <3>6 DEF Waits
  <2> QED
    BY <2>2, <2>3, <2>4
<1>29. LastIsFull' /\ LastQueued'
  BY <1>4 DEF LastIsFull, LastQueued
<1>30. Before(t) => ~OnTop(first) /\ first \in Window
  <2> SUFFICES ASSUME Before(t) PROVE ~OnTop(first) /\ first \in Window
    OBVIOUS
  <2>1. PICK a \in All : Of(a) = last
    BY <1>15, <1>16
  <2>2. ~(Of(a) <= first) /\ a \in Left
    BY <1>15, <1>16, <2>1
  <2> QED
    BY <1>15, <1>16, <2>2 DEF OnTop
<1>31. TopIsFull'
  <2> SUFFICES ASSUME NEW s \in Seen', OnTop(s)', Passed(s)' PROVE Span(s) \subseteq Left
    BY <1>10 DEF TopIsFull, Span
  <2>1. s \in Seen /\ s \in Window /\ OnTop(s) /\ Passed(s)
    BY <1>11, <1>13, <1>14, <1>30
  <2> QED
    BY <1>1, <1>3, <2>1 DEF TopIsFull
<1>32. Below'
  <2> SUFFICES ASSUME NEW x \in Seen', OnTop(x)', NEW v \in Window, v < x, v \notin Seen', InFull(v)'
               PROVE  \E y \in Seen' : v < y /\ y < x
    BY DEF Below
  <2>1. x \in Seen /\ OnTop(x) /\ v \notin Seen /\ InFull(v)
    BY <1>11, <1>13, <1>14, <1>30
  <2>2. PICK y \in Seen : v < y /\ y < x
    BY <1>3, <2>1 DEF Below
  <2> QED
    BY <1>13, <2>2
<1>33. Middle'
  <2> SUFFICES ASSUME first' # Unset, NEW v \in Window, first' < v, v < last', audio'[v] # {}
               PROVE  IF fin = Unset THEN \E i \in 1 .. Len(queue') : queue'[i] = v
                      ELSE v \in Seen' \/ \E x \in Seen' : v < x /\ x < last'
    BY <1>13 DEF Middle
  <2>1. v \in Nat /\ v # w
    <3>1. w <= first' /\ first' \in Nat
      BY <1>8, <1>12, <1>15
    <3> QED
      BY <1>8, <3>1, WindowsNumbered
  <2>2. audio[v] # {}
    BY <1>8, <2>1
  <2>3. last # Unset /\ (v = last \/ (first # Unset /\ first <= v /\ v < last))
    BY <1>3, <2>2 DEF Placed
  <2>4. last' = last /\ v # last /\ first # Unset /\ first <= v /\ v < last
    BY <1>15, <1>18, <2>1, <2>3
  <2>5. CASE first < v
    <3>1. IF fin = Unset THEN \E i \in 1 .. Len(queue) : queue[i] = v
          ELSE v \in Seen \/ \E x \in Seen : v < x /\ x < last
      BY <1>1, <1>3, <2>2, <2>4, <2>5 DEF Middle
    <3>2. CASE fin = Unset
      <4>1. PICK i \in 1 .. Len(queue) : queue[i] = v
        BY <3>1, <3>2
      <4>2. i \in 1 .. Len(queue') /\ queue'[i] = v
        BY <1>22, <1>23, <3>2, <4>1
      <4> QED
        BY <3>2, <4>2
    <3>3. CASE fin # Unset
      BY <1>13, <2>4, <3>1, <3>3
    <3> QED
      BY <3>2, <3>3
  <2>6. CASE v = first
    <3>1. Before(t)
      BY <1>12, <1>15, <1>16, <2>4, <2>6
    <3>2. CASE fin = Unset
      <4>1. Len(queue) + 1 \in 1 .. Len(queue') /\ ~(Len(queue) + 1 <= Len(queue))
        BY <1>22, <1>23, <3>1, <3>2
      <4>2. queue'[Len(queue) + 1] = first
        BY <1>23, <3>1, <3>2, <4>1
      <4> QED
        BY <2>6, <3>2, <4>1, <4>2
    <3>3. CASE fin # Unset
      <4>1. CASE first \in Shown'
        BY <1>13, <2>6, <3>3, <4>1
      <4>2. CASE \E u \in Shown : first < u /\ u < last
        BY <1>13, <1>14, <2>4, <2>6, <3>3, <4>2
      <4> QED
        BY <1>13, <3>1, <3>3, <4>1, <4>2
    <3> QED
      BY <3>2, <3>3
  <2> QED
    BY <1>15, <2>1, <2>4, <2>5, <2>6
<1> QED
  BY <1>9, <1>13, <1>19, <1>20, <1>24, <1>26, <1>27, <1>28, <1>29, <1>31, <1>32, <1>33 DEF NumberParts

\* All the chunks of the dump came.
LEMMA AllCame ==
    ASSUME GapInv, toLoad = {}
    PROVE  /\ Loading /\ Left = All
           /\ \A w \in Window : Complete(w) <=> Span(w) \subseteq All
           /\ \A w \in {first, last} : Complete(w) =>
                /\ w \in Window /\ w \in Nat /\ audio[w] # {} /\ AudioOf(w, audio[w])
           /\ first # Unset => Passed(last) /\ \A a \in All : Start(first) <= a
           /\ first = Unset /\ last # Unset => \A a \in All : Start(last) <= a
<1>1. SegmenterInv /\ Placed
  BY DEF GapInv
<1>2. {} # Unset
  <2>1. {} \in SUBSET (0 .. MaxTime)
    OBVIOUS
  <2> QED
    BY <2>1, SegmenterAssumption
<1>3. Loading /\ Left = All
  BY <1>2 DEF Loading, Left
<1>4. ASSUME NEW w \in Window PROVE Complete(w) <=> Span(w) \subseteq All
  <2>1. audio[w] \subseteq All
    BY DEF All
  <2>2. ASSUME NEW t \in Span(w), t \in All PROVE t \in audio[w]
    <3>1. t \in audio[Of(t)] /\ Of(t) = w
      BY <1>1, <2>2, SpanIs, WhereIs
    <3> QED
      BY <3>1
  <2>3. Complete(w) <=> Span(w) \subseteq audio[w]
    BY <1>1, CompleteIs
  <2> QED
    BY <2>1, <2>2, <2>3
<1>5. ASSUME NEW w \in {first, last}, Complete(w)
      PROVE  w \in Window /\ w \in Nat /\ audio[w] # {} /\ AudioOf(w, audio[w])
  <2>1. w # Unset
    BY <1>5 DEF Complete
  <2>2. w \in Window /\ audio[w] # {}
    BY <1>1, <2>1 DEF SegmenterInv, Placed
  <2> QED
    BY <1>1, <2>2, HeldIs, WindowsNumbered
<1>6. ASSUME NEW w \in Window, NEW a \in All, w <= Of(a) PROVE Start(w) <= a
  <2>1. a \in Nat /\ Of(a) \in Nat /\ w \in Nat /\ Start(w) \in Nat
    BY <1>1, WhereIs, WindowsNumbered, SpanIs
  <2>2. Start(Of(a)) <= a /\ Start(Of(a)) \in Int
    BY <2>1, WindowOf, WindowsAre
  <2>3. Start(w) <= Start(Of(a))
    <3>1. CASE w = Of(a)
      BY <2>1, <3>1
    <3>2. CASE w < Of(a)
      <4>1. End(w) <= Start(Of(a)) /\ Start(w) < End(w) /\ End(w) \in Int
        BY <2>1, <3>2, WindowsApart, WindowsAre
      <4> QED
        BY <2>1, <2>2, <4>1
    <3> QED
      BY <1>6, <2>1, <3>1, <3>2
  <2> QED
    BY <2>1, <2>2, <2>3
<1>7. ASSUME first # Unset PROVE Passed(last) /\ \A a \in All : Start(first) <= a
  <2>1. /\ first \in Window /\ first \in Nat /\ last \in Window /\ last \in Nat /\ first < last
        /\ \E a \in All : Of(a) = first
    BY <1>1, <1>7, WhereIs
  <2>2. PICK a \in All : Of(a) = first
    BY <2>1
  <2>3. a < Start(last)
    <3>1. a \in Nat /\ a < End(first) /\ End(first) <= Start(last) /\ End(first) \in Nat /\ Start(last) \in Nat
      BY <1>1, <2>1, <2>2, WindowOf, WhereIs, StartIs
    <3> QED
      BY <3>1
  <2>4. Passed(last)
    BY <1>3, <2>3 DEF Passed
  <2>5. \A b \in All : first <= Of(b)
    <3> SUFFICES ASSUME NEW b \in All PROVE first <= Of(b)
      OBVIOUS
    <3>1. Of(b) = last \/ first <= Of(b)
      BY <1>1, WhereIs
    <3> QED
      BY <2>1, <3>1
  <2> QED
    BY <1>6, <2>1, <2>4, <2>5
<1>8. ASSUME first = Unset, last # Unset PROVE \A a \in All : Start(last) <= a
  <2>1. last \in Window /\ last \in Nat
    BY <1>1, <1>8, WhereIs
  <2>2. \A a \in All : Of(a) = last
    BY <1>1, <1>8, WhereIs
  <2>3. \A a \in All : last <= Of(a)
    BY <2>1, <2>2
  <2> QED
    BY <1>6, <2>1, <2>3
<1> QED
  BY <1>3, <1>4, <1>5, <1>7, <1>8

\* When all came, the first segment is pushed if it is complete: it is listed, with its number
\* or after all that ever was, unless it has no number and others are listed.
LEMMA FirstFlushed ==
    ASSUME GapInv, NumberParts, fin # Unset, toLoad = {}, Complete(first)
    PROVE  LET f == Write(fin, first, audio[first]) IN
             /\ Consistent(f) /\ f.map = fin.map /\ f.min = fin.min
             /\ \/ /\ Unlisted(fin, f) /\ ~Numbered(fin, first)
                   /\ \E u \in Shown : first < u /\ u < last
                \/ /\ Enlisted(fin, f, first)
                   /\ Numbered(fin, first) \/ \A p \in Given : p[2] < first
<1>1. /\ SegmenterInv /\ Placed /\ Consistent(fin) /\ ListPlaced(fin) /\ Fits(fin)
      /\ Numbering /\ MinPlaced /\ Used /\ Accounted /\ Below /\ Reached
  BY DEF GapInv, NumberParts
<1>2. /\ Loading /\ Left = All /\ first # Unset /\ first \in Window /\ audio[first] # {}
      /\ AudioOf(first, audio[first]) /\ Span(first) \subseteq All
      /\ Passed(last)
  BY AllCame DEF Complete
<1>3. /\ last # Unset /\ last \in Window /\ last \in Nat /\ first \in Nat /\ first < last
      /\ Seen \subseteq Window /\ Seen \subseteq Nat
  BY <1>1, <1>2, WhereIs, SeenIs
<1>4. first \notin fin.spent
  BY <1>1, <1>2, <1>3 DEF Used
<1>5. \A u \in Windows(fin) : u \in Nat /\ first < u /\ u < last /\ u \in fin.spent
  BY <1>1, <1>2, WindowListed DEF Windows, ListPlaced, Between, Loading
<1>6. \A s \in ToSet(fin.list) : first < s.w
  BY <1>5 DEF Windows
<1> DEFINE f == Write(fin, first, audio[first])
<1>7. \/ /\ Unlisted(fin, f)
         /\ \/ Numbered(fin, first) /\ BelowMin(fin, first)
            \/ ~Numbered(fin, first) /\ ~After(fin, first)
            \/ first \in fin.spent
      \/ Enlisted(fin, f, first)
  BY <1>1, <1>2, <1>6, WriteLists
<1>8. Consistent(f) /\ f.map = fin.map /\ f.min = fin.min
  <2>1. Fitting(fin, first)
    <3>1. fin.map = NoMap \/ Whole(fin) \/ Cut(fin)
      BY <1>1, <1>2 DEF Fits, Loading
    <3> QED
      BY <3>1 DEF Fitting, Numbered, NoMap, Cut, BelowMin
  <2> QED
    BY <1>1, <1>2, <2>1, WriteConsistent
<1> HIDE DEF f
<1>9. ~BelowMin(fin, first)
  BY <1>1, <1>2 DEF MinPlaced, BelowMin
<1>10. ~After(fin, first) => \E u \in Shown : first < u /\ u < last
  BY <1>1, <1>2, <1>5, AfterIs DEF Shown
<1>11. ASSUME Enlisted(fin, f, first), ~Numbered(fin, first), NEW p \in Given PROVE p[2] < first
  <2>1. Shown = {}
    <3>1. After(fin, first)
      BY <1>11 DEF Enlisted
    <3>2. \A u \in Windows(fin) : u < first
      BY <1>1, <1>2, <3>1, AfterIs
    <3>3. \A u \in Windows(fin) : FALSE
      BY <1>3, <1>5, <3>2
    <3> QED
      BY <3>3 DEF Shown
  <2>2. \A s \in Seen : Gone(s) \/ Waits(s)
    BY <1>1, <2>1 DEF Accounted
  <2>3. first \notin Seen
    <3>1. ~Waits(first)
      BY <1>11 DEF Waits, Current, Numbered
    <3>2. ~Gone(first)
      BY <1>2 DEF Gone
    <3> QED
      BY <2>2, <3>1, <3>2
  <2>4. ASSUME NEW s \in Seen, first < s, s < last PROVE FALSE
    <3>1. ~Waits(s)
      BY <1>2, <1>3, <2>4 DEF Waits
    <3>2. Passed(s)
      <4>1. Start(first) \in All /\ s \in Window
        BY <1>2, <1>3, SpanIs
      <4>2. Start(first) < Start(s)
        BY <1>2, <2>4, <4>1, StartIs
      <4> QED
        BY <1>2, <4>1, <4>2 DEF Passed
    <3> QED
      BY <2>2, <3>1, <3>2 DEF Gone
  <2>5. last \notin Seen
    <3> SUFFICES ASSUME last \in Seen PROVE FALSE
      OBVIOUS
    <3>1. OnTop(last)
      BY <1>1, <1>3, WhereIs DEF OnTop
    <3>2. InFull(first)
      <4>1. PICK a \in All : Of(a) = first
        BY <1>1, <1>2, WhereIs
      <4> QED
        BY <1>2, <4>1 DEF InFull
    <3>3. PICK v \in Seen : first < v /\ v < last
      BY <1>1, <1>2, <1>3, <2>3, <3>1, <3>2 DEF Below
    <3> QED
      BY <2>4, <3>3
  <2>6. p[2] \in Seen
    BY DEF Seen
  <2>7. p[2] \in Nat /\ p[2] <= last
    BY <1>1, <1>3, <2>6, SeenUpTo
  <2> QED
    BY <1>3, <2>3, <2>4, <2>5, <2>6, <2>7
<1> QED
  BY <1>4, <1>7, <1>8, <1>9, <1>10, <1>11 DEF f

\* So is the last, and it is listed.
LEMMA LastFlushed ==
    ASSUME GapInv, NumberParts, fin # Unset, toLoad = {}, Complete(last),
           NEW f, Consistent(f), f.map = fin.map, f.min = fin.min,
           \/ Unlisted(fin, f)
           \/ first # Unset /\ Enlisted(fin, f, first)
    PROVE  LET e == Write(f, last, audio[last]) IN
             /\ Consistent(e) /\ e.map = fin.map /\ e.min = fin.min
             /\ Enlisted(f, e, last)
             /\ Numbered(f, last) \/ \A p \in Given : p[2] < last
<1>1. /\ SegmenterInv /\ Placed /\ Consistent(fin) /\ ListPlaced(fin)
      /\ Numbering /\ MinPlaced /\ Used /\ Accounted /\ Reached
  BY DEF GapInv, NumberParts
<1>2. /\ Loading /\ Left = All /\ last # Unset /\ last \in Window /\ last \in Nat
      /\ AudioOf(last, audio[last]) /\ Span(last) \subseteq All
  BY AllCame DEF Complete
<1>3. first # Unset => first \in Nat /\ first < last
  BY <1>1, WhereIs
<1>4. \A u \in Windows(fin) : u \in Nat /\ u < last
  BY <1>1, <1>2, WindowListed DEF Windows, ListPlaced, Between, Loading
<1>5. last \notin f.spent
  <2>1. last \notin fin.spent
    BY <1>1, <1>2 DEF Used
  <2>2. first # Unset => first # last
    BY <1>2, <1>3
  <2> QED
    BY <2>1, <2>2 DEF Unlisted, Enlisted
<1>6. \A s \in ToSet(f.list) : s.w < last
  <2> SUFFICES ASSUME NEW s \in ToSet(f.list) PROVE s.w < last
    OBVIOUS
  <2>1. s \in ToSet(fin.list) \/ (first # Unset /\ s.w = first)
    BY DEF Unlisted, Enlisted
  <2> QED
    BY <1>3, <1>4, <2>1 DEF Windows
<1> DEFINE e == Write(f, last, audio[last])
<1>7. \/ /\ Unlisted(f, e)
         /\ \/ Numbered(f, last) /\ BelowMin(f, last)
            \/ ~Numbered(f, last) /\ ~After(f, last)
            \/ last \in f.spent
      \/ Enlisted(f, e, last)
  BY <1>2, <1>6, WriteLists
<1>8. Consistent(e) /\ e.map = f.map /\ e.min = f.min
  <2>1. Fitting(f, last)
    <3>1. f.list # <<>> => f.list[1] \in ToSet(f.list) /\ f.list[1].w \in Nat
      BY WindowListed
    <3>2. f.list # <<>> => ~(last < f.list[1].w)
      BY <1>2, <1>6, <3>1
    <3> QED
      BY <3>2 DEF Fitting
  <2> QED
    BY <1>2, <2>1, WriteConsistent
<1> HIDE DEF e
<1>9. ~BelowMin(f, last)
  BY <1>1, <1>2 DEF MinPlaced, BelowMin
<1>10. After(f, last)
  <2>1. \A u \in Windows(f) : u < last
    BY <1>6 DEF Windows
  <2> QED
    BY <1>2, <2>1, AfterIs
<1>11. Enlisted(f, e, last)
  BY <1>5, <1>7, <1>9, <1>10
<1>12. ASSUME ~Numbered(f, last), NEW p \in Given PROVE p[2] < last
  <2>1. p[2] \in Seen
    BY DEF Seen
  <2>2. p[2] \in Nat /\ p[2] <= last
    BY <1>1, <1>2, <2>1, SeenUpTo, SeenIs
  <2>3. last \notin Seen
    <3> SUFFICES ASSUME last \in Seen PROVE FALSE
      OBVIOUS
    <3>1. last \notin Shown
      BY <1>2, <1>4 DEF Shown
    <3>2. ~Gone(last)
      BY <1>2 DEF Gone
    <3>3. ~Waits(last)
      BY <1>12 DEF Waits, Current, Numbered
    <3> QED
      BY <1>1, <3>1, <3>2, <3>3 DEF Accounted
  <2> QED
    BY <1>2, <2>1, <2>2, <2>3
<1> QED
  BY <1>8, <1>11, <1>12 DEF e

\* A finalizer that has listed the windows of a set on top of what this one has
Grown(e, S) ==
    /\ Consistent(e) /\ e.map = fin.map /\ e.min = fin.min /\ e.spent = fin.spent \cup S
    /\ Numbers(e, Given \cup Notes(e))
    /\ {p[2] : p \in Given \cup Notes(e)} = Seen \cup S
    /\ Windows(e) = Shown \cup S

\* One more is listed.
LEMMA GrowsBy ==
    ASSUME NEW f, NEW S, Grown(f, S), NEW w \in Window, NEW e, Consistent(e), Enlisted(f, e, w),
           Numbered(f, w) \/ \A p \in Given \cup Notes(f) : p[2] < w
    PROVE  Grown(e, S \cup {w})
<1> DEFINE P == Given \cup Notes(f)
           q == <<IdOf(f, w), w>>
<1>1. Consistent(f) /\ f.map = fin.map /\ f.min = fin.min /\ f.spent = fin.spent \cup S
      /\ Numbers(f, P) /\ {p[2] : p \in P} = Seen \cup S /\ Windows(f) = Shown \cup S
  BY DEF Grown
<1>2. Numbered(f, w) \/ \A p \in P : p[2] < w
  OBVIOUS
<1>3. q[2] = w
  OBVIOUS
<1>4. Notes(e) = Notes(f) \cup {q} /\ Windows(e) = Windows(f) \cup {w}
  <2>1. PICK x \in ToSet(e.list) : x.w = w /\ x.id = IdOf(f, w) /\ ToSet(e.list) = ToSet(f.list) \cup {x}
    BY DEF Enlisted
  <2> QED
    BY <2>1 DEF Notes, Windows
<1>5. Given \cup Notes(e) = P \cup {q}
  BY <1>4
<1>6. P \cup Notes(e) = P \cup {q}
  BY <1>4
<1> HIDE DEF P
<1>7. Numbers(e, P \cup Notes(e))
  BY <1>1, <1>2, NumbersGrow
<1> HIDE DEF q
<1>8. Numbers(e, Given \cup Notes(e))
  BY <1>5, <1>6, <1>7
<1>9. {p[2] : p \in P \cup {q}} = {p[2] : p \in P} \cup {w}
  BY <1>3
<1>10. {p[2] : p \in Given \cup Notes(e)} = Seen \cup (S \cup {w})
  BY <1>1, <1>5, <1>9
<1>11. /\ e.map = fin.map /\ e.min = fin.min /\ e.spent = fin.spent \cup (S \cup {w})
       /\ Windows(e) = Shown \cup (S \cup {w})
  BY <1>1, <1>4 DEF Enlisted
<1> QED
  BY <1>8, <1>10, <1>11 DEF Grown

\* The segments flushed are those that are complete.
LEMMA FlushOf ==
    /\ Complete(first) /\ Complete(last) => Flush = <<first, last>>
    /\ Complete(first) /\ ~Complete(last) => Flush = <<first>>
    /\ ~Complete(first) /\ Complete(last) => Flush = <<last>>
    /\ ~Complete(first) /\ ~Complete(last) => Flush = <<>>
<1> DEFINE S == {first, last}
<1>1. <<>> \in Seq(S) /\ <<first>> \in Seq(S) /\ <<last>> \in Seq(S)
  OBVIOUS
<1>2. <<first>> \o <<last>> = <<first, last>>
  <2> DEFINE p == <<first>> \o <<last>>
             q == <<first, last>>
  <2>1. Len(<<first>>) = 1 /\ Len(<<last>>) = 1 /\ <<first>>[1] = first /\ <<last>>[1] = last
    OBVIOUS
  <2>2. p \in Seq(S) /\ Len(p) = 2 /\ p[1] = first /\ p[2] = last
    BY <1>1, <2>1, ConcatProperties
  <2>3. q \in Seq(S) /\ Len(q) = 2 /\ q[1] = first /\ q[2] = last
    OBVIOUS
  <2> HIDE DEF p, q
  <2>4. \A i \in 1 .. 2 : i = 1 \/ i = 2
    OBVIOUS
  <2>5. p = q
    BY <2>2, <2>3, <2>4, SeqEqual
  <2> QED
    BY <2>5 DEF p, q
<1>3. /\ <<>> \o <<last>> = <<last>> /\ <<first>> \o <<>> = <<first>> /\ <<>> \o <<>> = <<>>
  BY <1>1, ConcatEmptySeq
<1> HIDE DEF Complete
<1> QED
  BY <1>2, <1>3, Zenon DEF Flush

\* What is flushed is listed: the last segment if it is complete, and the first, unless it has
\* no number and others are listed.
LEMMA FlushLists ==
    ASSUME GapInv, NumberParts, fin # Unset, toLoad = {}
    PROVE  \E S : /\ Grown(WriteAll(fin, Flush, audio), S)
                  /\ \A s \in S : s \in {first, last} /\ Complete(s)
                  /\ Complete(last) => last \in S
                  /\ Complete(first) /\ first \notin S =>
                        ~Numbered(fin, first) /\ \E u \in Shown : first < u /\ u < last
<1>1. Consistent(fin) /\ Numbering /\ Current = fin /\ Shown = Windows(fin)
  BY DEF GapInv, NumberParts, Current, Shown
<1>2. Numbers(fin, Given)
  BY <1>1 DEF Numbering
<1>3. Grown(fin, {})
  <2>1. Given \cup Notes(fin) = Given
    BY <1>2 DEF Numbers
  <2>2. {p[2] : p \in Given} = Seen \cup {}
    BY DEF Seen
  <2> HIDE DEF Given, Seen
  <2> QED
    BY <1>1, <1>2, <2>1, <2>2 DEF Grown
<1> DEFINE f == IF Complete(first) THEN Write(fin, first, audio[first]) ELSE fin
           e == IF Complete(last) THEN Write(f, last, audio[last]) ELSE f
<1>4. WriteAll(fin, Flush, audio) = e
  <2>1. /\ Complete(first) /\ Complete(last) => Flush = <<first, last>>
        /\ Complete(first) /\ ~Complete(last) => Flush = <<first>>
        /\ ~Complete(first) /\ Complete(last) => Flush = <<last>>
        /\ ~Complete(first) /\ ~Complete(last) => Flush = <<>>
    BY FlushOf
  <2>2. CASE Complete(first) /\ Complete(last)
    BY <2>1, <2>2, TwoWritten
  <2>3. CASE Complete(first) /\ ~Complete(last)
    BY <2>1, <2>3, OneWritten
  <2>4. CASE ~Complete(first) /\ Complete(last)
    BY <2>1, <2>4, OneWritten
  <2>5. CASE ~Complete(first) /\ ~Complete(last)
    BY <2>1, <2>5, NoneWritten
  <2> QED
    BY <2>2, <2>3, <2>4, <2>5
<1>5. PICK R : /\ Grown(f, R)
               /\ \/ R = {} /\ Unlisted(fin, f)
                  \/ R = {first} /\ Complete(first) /\ Enlisted(fin, f, first)
               /\ Complete(first) /\ first \notin R =>
                     ~Numbered(fin, first) /\ \E u \in Shown : first < u /\ u < last
  <2>1. CASE ~Complete(first)
    <3>1. f = fin
      BY <2>1
    <3> HIDE DEF f
    <3> QED
      BY <1>3, <2>1, <3>1 DEF Unlisted
  <2>2. CASE Complete(first)
    <3>1. f = Write(fin, first, audio[first])
      BY <2>2
    <3> HIDE DEF f
    <3>2. /\ Consistent(f) /\ f.map = fin.map /\ f.min = fin.min
          /\ \/ /\ Unlisted(fin, f) /\ ~Numbered(fin, first)
                /\ \E u \in Shown : first < u /\ u < last
             \/ /\ Enlisted(fin, f, first)
                /\ Numbered(fin, first) \/ \A p \in Given : p[2] < first
      BY <2>2, <3>1, FirstFlushed
    <3>3. CASE Unlisted(fin, f)
      <4>1. Grown(f, {})
        <5>1. f.list = fin.list /\ f.seq = fin.seq /\ f.spent = fin.spent
          BY <3>3 DEF Unlisted
        <5>2. Notes(f) = Notes(fin) /\ Windows(f) = Windows(fin)
          BY <5>1 DEF Notes, Windows
        <5>3. Numbers(f, Given \cup Notes(f))
          BY <1>3, <3>2, <5>1, <5>2 DEF Numbers, Grown
        <5> QED
          BY <1>3, <3>2, <5>1, <5>2, <5>3 DEF Grown
      <4>2. ~Enlisted(fin, f, first)
        BY <3>3 DEF Enlisted, Unlisted
      <4> QED
        BY <3>2, <3>3, <4>1, <4>2
    <3>4. CASE Enlisted(fin, f, first)
      <4>1. first \in Window
        BY <2>2, AllCame
      <4>2. Given \cup Notes(fin) = Given
        BY <1>2 DEF Numbers
      <4>3. Grown(f, {} \cup {first})
        BY <1>3, <3>2, <3>4, <4>1, <4>2, GrowsBy DEF Enlisted, Unlisted
      <4> QED
        BY <2>2, <3>4, <4>3
    <3> QED
      BY <3>2, <3>3, <3>4
  <2> QED
    BY <2>1, <2>2
<1>6. PICK S : /\ Grown(e, S)
               /\ \/ S = R /\ ~Complete(last)
                  \/ S = R \cup {last} /\ Complete(last)
  <2>1. CASE ~Complete(last)
    <3>1. e = f
      BY <2>1
    <3> HIDE DEF e, f
    <3> QED
      BY <1>5, <2>1, <3>1
  <2>2. CASE Complete(last)
    <3>1. e = Write(f, last, audio[last])
      BY <2>2
    <3> HIDE DEF e, f
    <3>2. last \in Window /\ last \in Nat
      BY <2>2, AllCame
    <3>3. Complete(first) => first < last /\ first # Unset
      BY AllCame, WhereIs DEF Complete, GapInv
    <3>4. Consistent(f) /\ f.map = fin.map /\ f.min = fin.min
      BY <1>5 DEF Grown
    <3>5. /\ Consistent(e) /\ Enlisted(f, e, last)
          /\ Numbered(f, last) \/ \A p \in Given : p[2] < last
      BY <1>5, <2>2, <3>1, <3>3, <3>4, LastFlushed
    <3>6. ASSUME NEW p \in Given \cup Notes(f), \A r \in Given : r[2] < last PROVE p[2] < last
      <4>1. p[2] \in Seen \cup R
        BY <1>5 DEF Grown
      <4>2. p[2] \in Seen => p[2] < last
        BY <3>6 DEF Seen
      <4> QED
        BY <1>5, <3>3, <4>1, <4>2
    <3>7. Grown(e, R \cup {last})
      BY <1>5, <3>2, <3>5, <3>6, GrowsBy
    <3> QED
      BY <2>2, <3>7
  <2> QED
    BY <2>1, <2>2
<1> HIDE DEF e, f
<1> QED
  BY <1>4, <1>5, <1>6

\* The end of a load in the list and the numbers
LEMMA LoadedLists ==
    ASSUME UnsetIsNoRecord, GapInv, GapInv', NumberParts, group # "moved", Loaded
    PROVE  /\ fin' = Unset <=> fin = Unset
           /\ Numbering'
           /\ Seen \subseteq Seen' /\ Shown \subseteq Shown' /\ Shown' \subseteq Seen'
           /\ \A s \in Seen' : s \in Seen \/ (s \in {first, last} /\ Complete(s) /\ s \in Shown')
           /\ \A s \in Shown' : s \in Shown \/ (s \in {first, last} /\ Complete(s))
           /\ fin # Unset =>
                /\ queue' = queue /\ fin'.min = Unset
                /\ \A v \in fin'.spent : v \in fin.spent \/ (v \in {first, last} /\ Complete(v))
                /\ Complete(last) => last \in Shown' /\ last \in fin'.spent
                /\ Complete(first) =>
                     \/ first \in Shown'
                     \/ ~Numbered(fin, first) /\ \E u \in Shown : first < u /\ u < last
           /\ fin = Unset => Seen' = {} /\ queue' = queue \o Flush
<1>1. /\ toLoad = {} /\ header = Unset /\ header' = Unset /\ Record
      /\ IF fin = Unset THEN queue' = queue \o Flush /\ UNCHANGED fin
         ELSE fin' = WriteAll(fin, Flush, audio) /\ UNCHANGED queue
  BY DEF Loaded, Pushed
<1>2. Given' = Given \cup (IF fin' = Unset THEN {} ELSE Notes(fin'))
  BY <1>1, RecordIs
<1>3. Numbering /\ MinPlaced /\ Loading /\ (fin # Unset => fin.min = Unset)
  BY <1>1, AllCame DEF NumberParts, MinPlaced
<1>4. CASE fin = Unset
  <2>1. Current = Unset /\ Given = {} /\ Seen = {} /\ Shown = {}
    BY <1>1, <1>3, <1>4, SeenIs DEF Current, Shown
  <2>2. fin' = Unset /\ Current' = Unset /\ Given' = Given /\ Seen' = Seen /\ Shown' = {}
    BY <1>1, <1>2, <1>4 DEF Current, Seen, Shown
  <2>3. Numbering'
    BY <2>1, <2>2 DEF Numbering
  <2> QED
    BY <1>1, <1>4, <2>1, <2>2, <2>3
<1>5. CASE fin # Unset
  <2>1. fin' = WriteAll(fin, Flush, audio) /\ queue' = queue
    BY <1>1, <1>5
  <2>2. PICK S : /\ Grown(fin', S)
                 /\ \A s \in S : s \in {first, last} /\ Complete(s)
                 /\ Complete(last) => last \in S
                 /\ Complete(first) /\ first \notin S =>
                       ~Numbered(fin, first) /\ \E u \in Shown : first < u /\ u < last
    BY <1>1, <1>5, <2>1, FlushLists
  <2>3. fin' # Unset
    BY <2>2 DEF UnsetIsNoRecord, Consistent, Typed, Grown
  <2>4. Given' = Given \cup Notes(fin') /\ Current' = fin' /\ Shown' = Windows(fin')
    BY <1>2, <2>3 DEF Current, Shown
  <2>5. Numbers(fin', Given') /\ {p[2] : p \in Given'} = Seen \cup S /\ Windows(fin') = Shown \cup S
        /\ fin'.spent = fin.spent \cup S /\ fin'.min = Unset
    BY <1>3, <1>5, <2>2, <2>4 DEF Grown
  <2>6. Seen' = Seen \cup S /\ Shown' = Shown \cup S
    BY <2>4, <2>5 DEF Seen
  <2>7. Numbering'
    <3>1. Numbers(Current, Given)'
      BY <2>4, <2>5
    <3> QED
      BY <2>3, <2>4, <3>1 DEF Numbering
  <2>8. Shown \subseteq Seen
    BY <1>3, SeenIs
  <2> HIDE DEF Seen, Shown
  <2> QED
    BY <1>5, <2>1, <2>2, <2>3, <2>5, <2>6, <2>7, <2>8
<1> QED
  BY <1>4, <1>5

\* A queue with two more
LEMMA QueuedTwo ==
    ASSUME NEW q \in Seq(Window), NEW v \in Window, NEW w \in Window, NEW r, r = q \o <<v, w>>
    PROVE  /\ r \in Seq(Window) /\ Len(q) \in Nat /\ Len(r) = Len(q) + 2
           /\ \A i \in 1 .. Len(r) : r[i] = IF i <= Len(q) THEN q[i] ELSE IF i = Len(q) + 1 THEN v ELSE w
<1> DEFINE p == <<v, w>>
<1>1. p \in Seq(Window) /\ Len(p) = 2 /\ p[1] = v /\ p[2] = w
  OBVIOUS
<1>2. r = q \o p /\ Len(q) \in Nat
  OBVIOUS
<1> HIDE DEF p
<1>3. /\ r \in Seq(Window) /\ Len(r) = Len(q) + Len(p)
      /\ \A i \in 1 .. Len(r) : r[i] = IF i <= Len(q) THEN q[i] ELSE p[i - Len(q)]
  BY <1>1, <1>2, Joined
<1>4. Len(r) = Len(q) + 2 /\ r \in Seq(Window)
  BY <1>1, <1>3
<1>5. ASSUME NEW i \in 1 .. Len(r)
      PROVE  r[i] = IF i <= Len(q) THEN q[i] ELSE IF i = Len(q) + 1 THEN v ELSE w
  <2>1. i <= Len(q) \/ (i = Len(q) + 1 /\ i - Len(q) = 1) \/ (i # Len(q) + 1 /\ i - Len(q) = 2)
    BY <1>2, <1>4
  <2>2. r[i] = IF i <= Len(q) THEN q[i] ELSE p[i - Len(q)]
    BY <1>3
  <2>3. i = Len(q) + 1 => ~(i <= Len(q))
    BY <1>2
  <2> QED
    BY <1>1, <2>1, <2>2, <2>3
<1> QED
  BY <1>2, <1>4, <1>5

\* What is flushed before there is a finalizer waits in its order.
LEMMA FlushQueued ==
    ASSUME GapInv, toLoad = {}, queue' = queue \o Flush
    PROVE  /\ Len(queue) \in Nat /\ Len(queue') \in Nat /\ Len(queue) <= Len(queue')
           /\ \A i \in 1 .. Len(queue) : queue'[i] = queue[i]
           /\ \A j \in 1 .. Len(queue') : j > Len(queue) =>
                /\ queue'[j] \in {first, last} /\ Complete(queue'[j])
                /\ queue'[j] = first \/ ~Complete(first) \/ (Len(queue) + 1 < j /\ queue'[Len(queue) + 1] = first)
<1>1. queue \in Seq(Window) /\ Len(queue) \in Nat
  BY DEF GapInv, SegmenterInv
<1>2. (Complete(first) => first \in Window) /\ (Complete(last) => last \in Window)
  BY AllCame
<1>3. /\ Complete(first) /\ Complete(last) => Flush = <<first, last>>
      /\ Complete(first) /\ ~Complete(last) => Flush = <<first>>
      /\ ~Complete(first) /\ Complete(last) => Flush = <<last>>
      /\ ~Complete(first) /\ ~Complete(last) => Flush = <<>>
  BY FlushOf
<1>4. CASE ~Complete(first) /\ ~Complete(last)
  <2>1. queue \o <<>> = queue
    BY <1>1, ConcatEmptySeq
  <2>2. queue' = queue
    BY <1>3, <1>4, <2>1
  <2>3. \A j \in 1 .. Len(queue) : ~(j > Len(queue))
    BY <1>1
  <2> QED
    BY <1>1, <2>2, <2>3
<1>5. CASE ~Complete(first) /\ Complete(last)
  <2>1. queue' = queue \o <<last>>
    BY <1>3, <1>5
  <2>2. /\ Len(queue') = Len(queue) + 1
        /\ \A i \in 1 .. Len(queue') : queue'[i] = IF i <= Len(queue) THEN queue[i] ELSE last
    BY <1>1, <1>2, <1>5, <2>1, QueuedOne
  <2> QED
    BY <1>1, <1>5, <2>2
<1>6. CASE Complete(first) /\ ~Complete(last)
  <2>1. queue' = queue \o <<first>>
    BY <1>3, <1>6
  <2>2. /\ Len(queue') = Len(queue) + 1
        /\ \A i \in 1 .. Len(queue') : queue'[i] = IF i <= Len(queue) THEN queue[i] ELSE first
    BY <1>1, <1>2, <1>6, <2>1, QueuedOne
  <2> QED
    BY <1>1, <1>6, <2>2
<1>7. CASE Complete(first) /\ Complete(last)
  <2>1. queue' = queue \o <<first, last>>
    BY <1>3, <1>7
  <2>2. /\ Len(queue') = Len(queue) + 2
        /\ \A i \in 1 .. Len(queue') :
              queue'[i] = IF i <= Len(queue) THEN queue[i] ELSE IF i = Len(queue) + 1 THEN first ELSE last
    BY <1>1, <1>2, <1>7, <2>1, QueuedTwo
  <2>3. ASSUME NEW j \in 1 .. Len(queue'), j > Len(queue)
        PROVE  /\ queue'[j] \in {first, last} /\ Complete(queue'[j])
               /\ queue'[j] = first \/ (Len(queue) + 1 < j /\ queue'[Len(queue) + 1] = first)
    <3>1. Len(queue) + 1 \in 1 .. Len(queue') /\ ~(Len(queue) + 1 <= Len(queue)) /\ ~(j <= Len(queue))
      BY <1>1, <2>2, <2>3
    <3>2. queue'[Len(queue) + 1] = first
      BY <2>2, <3>1
    <3>3. CASE j = Len(queue) + 1
      BY <1>7, <3>2, <3>3
    <3>4. CASE j # Len(queue) + 1
      <4>1. Len(queue) + 1 < j /\ queue'[j] = last
        BY <1>1, <2>2, <2>3, <3>1, <3>4
      <4> QED
        BY <1>7, <3>2, <4>1
    <3> QED
      BY <3>3, <3>4
  <2>4. \A i \in 1 .. Len(queue) : i \in 1 .. Len(queue') /\ i <= Len(queue)
    BY <1>1, <2>2
  <2> QED
    BY <1>1, <2>2, <2>3, <2>4
<1> QED
  BY <1>4, <1>5, <1>6, <1>7

\* The load is over: what is flushed closes the list on both sides.
LEMMA LoadedNumbers ==
    ASSUME UnsetIsNoRecord, GapInv, GapInv', NumberParts, group # "moved", Loaded
    PROVE  NumberParts'
<1>1. /\ toLoad = {} /\ toLoad' = Unset /\ header = Unset
      /\ UNCHANGED <<now, chunks, audio, first, last, header, settling>>
  BY DEF Loaded
<1>2. /\ SegmenterInv /\ SegmenterInv' /\ Placed /\ Queued /\ Numbering /\ Contiguous /\ MinPlaced
      /\ InPast /\ Newest /\ Used /\ Reached /\ Accounted /\ TopIsFull /\ Middle /\ Below
  BY DEF GapInv, NumberParts
<1>3. /\ All' = All /\ ~Loading' /\ Left' = chunks /\ chunks \subseteq All /\ chunks \subseteq Nat
      /\ \A w \in Window : Complete(w)' <=> Complete(w)
  <2>1. All' = All
    BY <1>1 DEF All, Window
  <2> QED
    BY <1>1, <1>2, <2>1, WhereIs DEF Loading, Left, Complete
<1>4. /\ Loading /\ Left = All
      /\ \A w \in Window : Complete(w) <=> Span(w) \subseteq All
      /\ \A w \in {first, last} : Complete(w) =>
           /\ w \in Window /\ w \in Nat /\ audio[w] # {} /\ AudioOf(w, audio[w])
      /\ first # Unset => Passed(last) /\ \A a \in All : Start(first) <= a
      /\ first = Unset /\ last # Unset => \A a \in All : Start(last) <= a
  BY <1>1, AllCame
<1>5. /\ fin' = Unset <=> fin = Unset
      /\ Numbering'
      /\ Seen \subseteq Seen' /\ Shown \subseteq Shown' /\ Shown' \subseteq Seen'
      /\ \A s \in Seen' : s \in Seen \/ (s \in {first, last} /\ Complete(s) /\ s \in Shown')
      /\ \A s \in Shown' : s \in Shown \/ (s \in {first, last} /\ Complete(s))
      /\ fin # Unset =>
           /\ queue' = queue /\ fin'.min = Unset
           /\ \A v \in fin'.spent : v \in fin.spent \/ (v \in {first, last} /\ Complete(v))
           /\ Complete(last) => last \in Shown' /\ last \in fin'.spent
           /\ Complete(first) =>
                \/ first \in Shown'
                \/ ~Numbered(fin, first) /\ \E u \in Shown : first < u /\ u < last
      /\ fin = Unset => Seen' = {} /\ queue' = queue \o Flush
  BY LoadedLists
<1>6. /\ Seen \subseteq Window /\ Seen \subseteq Nat /\ Shown \subseteq Seen
      /\ \A u \in Shown : fin # Unset /\ Between(u) /\ first # Unset /\ first < u /\ u < last
  <2>1. /\ Seen \subseteq Window /\ Seen \subseteq Nat /\ Shown \subseteq Seen
        /\ \A u \in Shown : fin # Unset /\ Between(u)
    BY <1>2, SeenIs
  <2> QED
    BY <1>4, <2>1 DEF Between, Loading
<1>7. /\ last # Unset => last \in Window /\ last \in Nat /\ \E a \in All : Of(a) = last
      /\ first # Unset => /\ first \in Window /\ first \in Nat /\ \E a \in All : Of(a) = first
                          /\ last # Unset /\ first < last
      /\ \A a \in All : /\ a \in Nat /\ a < now /\ last # Unset /\ Of(a) \in Nat /\ Of(a) <= last
                        /\ Of(a) = last \/ (first # Unset /\ first <= Of(a) /\ Of(a) < last)
      /\ now \in Nat
  BY <1>2, <1>4, WhereIs
<1>8. (Complete(first) => first # Unset) /\ (Complete(last) => last # Unset)
  BY DEF Complete
<1>9. \A s \in Seen : last # Unset /\ s <= last
  <2> SUFFICES ASSUME NEW s \in Seen PROVE last # Unset /\ s <= last
    OBVIOUS
  <2>1. PICK c \in Left : s <= Of(c)
    BY <1>2 DEF Reached
  <2>2. last # Unset
    BY <1>4, <1>7, <2>1
  <2> QED
    BY <1>2, <2>2, SeenUpTo
<1>10. first # Unset /\ last \in Seen => Complete(last)
  <2> SUFFICES ASSUME first # Unset, last \in Seen PROVE Complete(last)
    OBVIOUS
  <2>1. OnTop(last) /\ Passed(last) /\ last \in Window
    BY <1>4, <1>7, <1>9 DEF OnTop
  <2> QED
    BY <1>2, <1>4, <2>1 DEF TopIsFull
<1>11. \A a \in All : \E c \in chunks : a <= c /\ Of(a) <= Of(c)
  BY <1>2, NewestIs
<1>12. Contiguous'
  <2> SUFFICES ASSUME NEW u \in Shown', NEW s \in Seen', u < s, s \notin Shown' PROVE FALSE
    BY <1>3 DEF Contiguous
  <2>1. s \in Seen /\ s \notin Shown /\ s \in Nat /\ last # Unset /\ last \in Nat /\ s <= last
    BY <1>5, <1>6, <1>7, <1>9
  <2>2. fin # Unset
    BY <1>5, <2>1
  <2>3. ASSUME s = last, first # Unset PROVE FALSE
    <3>1. Complete(last)
      BY <1>10, <2>1, <2>3
    <3> QED
      BY <1>5, <2>2, <2>3, <3>1
  <2>4. CASE u \in Shown
    <3>1. s = last
      BY <1>2, <2>1, <2>4 DEF Contiguous
    <3> QED
      BY <1>6, <2>3, <2>4, <3>1
  <2>5. CASE u = first /\ Complete(first)
    <3>1. first # Unset /\ first < s /\ s # last /\ s < last /\ first \in Nat /\ first \in Window
      BY <1>7, <1>8, <2>1, <2>3, <2>5
    <3>2. ~Waits(s)
      BY <2>1, <3>1 DEF Waits
    <3>3. ~Gone(s)
      <4>1. Start(first) \in All /\ s \in Window
        BY <1>4, <1>6, <2>1, <2>5, <3>1, SpanIs
      <4>2. Start(first) < Start(s)
        BY <3>1, <4>1, StartIs
      <4> QED
        BY <1>4, <4>1, <4>2 DEF Gone, Passed
    <3> QED
      BY <1>2, <2>1, <3>2, <3>3 DEF Accounted
  <2>6. CASE u = last
    BY <2>1, <2>6
  <2> QED
    BY <1>5, <2>4, <2>5, <2>6
<1>13. MinPlaced'
  BY <1>3, <1>5 DEF MinPlaced
<1>14. \A w \in {first, last} : Complete(w) => End(w) <= now
  <2> SUFFICES ASSUME NEW w \in {first, last}, Complete(w) PROVE End(w) <= now
    OBVIOUS
  <2>1. w \in Window /\ Span(w) \subseteq All /\ Start(w) \in Nat /\ End(w) \in Nat /\ Start(w) < End(w)
    BY <1>4, SpanIs
  <2>2. End(w) - 1 \in Span(w)
    BY <2>1 DEF Span
  <2>3. End(w) - 1 < now
    BY <1>7, <2>1, <2>2
  <2> QED
    BY <1>7, <2>1, <2>3
<1>15. fin = Unset =>
         /\ Len(queue) \in Nat /\ Len(queue') \in Nat /\ Len(queue) <= Len(queue')
         /\ \A i \in 1 .. Len(queue) : queue'[i] = queue[i]
         /\ \A j \in 1 .. Len(queue') : j > Len(queue) =>
              /\ queue'[j] \in {first, last} /\ Complete(queue'[j])
              /\ queue'[j] = first \/ ~Complete(first) \/ (Len(queue) + 1 < j /\ queue'[Len(queue) + 1] = first)
  BY <1>1, <1>5, FlushQueued
<1>16. InPast'
  <2>1. \A s \in Seen' : End(s) <= now
    BY <1>2, <1>5, <1>14 DEF InPast
  <2>2. \A i \in 1 .. Len(queue') : End(queue'[i]) <= now
    <3> SUFFICES ASSUME NEW i \in 1 .. Len(queue') PROVE End(queue'[i]) <= now
      OBVIOUS
    <3>1. CASE fin # Unset
      BY <1>2, <1>5, <3>1 DEF InPast
    <3>2. CASE fin = Unset /\ i > Len(queue)
      BY <1>14, <1>15, <3>2
    <3>3. CASE fin = Unset /\ ~(i > Len(queue))
      <4>1. i \in 1 .. Len(queue) /\ queue'[i] = queue[i]
        BY <1>15, <3>3
      <4> QED
        BY <1>2, <4>1 DEF InPast
    <3> QED
      BY <3>1, <3>2, <3>3
  <2> QED
    BY <1>1, <2>1, <2>2 DEF InPast
<1>17. Newest'
  BY <1>1, <1>2, <1>3 DEF Newest
<1>18. Used'
  <2> SUFFICES ASSUME fin' # Unset, NEW v \in fin'.spent PROVE audio[v] # {}
    BY <1>1, <1>3 DEF Used
  <2> QED
    BY <1>2, <1>4, <1>5 DEF Used
<1>19. Reached'
  <2> SUFFICES ASSUME NEW s \in Seen' PROVE \E c \in chunks : s <= Of(c)
    BY <1>3 DEF Reached
  <2>1. \E a \in All : s <= Of(a)
    <3>1. CASE s \in Seen
      BY <1>2, <1>4, <3>1 DEF Reached
    <3>2. CASE s \in {first, last} /\ Complete(s)
      <4>1. s \in Nat /\ \E a \in All : Of(a) = s
        BY <1>7, <1>8, <3>2
      <4> QED
        BY <4>1
    <3> QED
      BY <1>5, <3>1, <3>2
  <2>2. PICK a \in All : s <= Of(a)
    BY <2>1
  <2>3. PICK c \in chunks : Of(a) <= Of(c)
    BY <1>11
  <2>4. s \in Nat /\ Of(a) \in Nat /\ Of(c) \in Nat
    <3>1. s \in Nat
      BY <1>5, <1>6, <1>7, <1>8
    <3> QED
      BY <1>3, <1>7, <3>1
  <2> QED
    BY <2>2, <2>3, <2>4
<1>20. Accounted'
  <2> SUFFICES ASSUME NEW s \in Seen' \ Shown' PROVE Gone(s)'
    BY DEF Accounted
  <2>1. s \in Seen /\ s \notin Shown /\ s \in Window /\ s \in Nat
    BY <1>5, <1>6
  <2>2. Span(s)' = Span(s) /\ Span(s) \subseteq Nat /\ Start(s)' = Start(s)
    BY <2>1, SpanIs DEF Span
  <2>3. Gone(s)' <=> (\A c \in chunks : ~(c < Start(s))) /\ ~(Span(s) \subseteq chunks)
    BY <1>3, <2>2 DEF Gone, Passed
  <2>4. CASE Gone(s)
    BY <1>3, <1>4, <2>3, <2>4 DEF Gone, Passed
  <2>5. CASE Waits(s)
    <3>1. /\ Current # Unset /\ Start(s) \in DOMAIN Current.map
          /\ first = Unset \/ s <= first \/ s = last
          /\ \E c \in All : Of(c) = s
      BY <1>4, <2>5 DEF Waits
    <3>2. fin # Unset /\ Numbered(fin, s)
      BY <1>1, <3>1 DEF Current, Numbered
    <3>3. s = last \/ (first # Unset /\ s = first)
      BY <1>7, <2>1, <3>1
    <3>4. ASSUME Complete(s) PROVE FALSE
      <4>1. s \in Shown'
        BY <1>5, <3>2, <3>3, <3>4
      <4> QED
        BY <4>1
    <3>5. ~(Span(s) \subseteq chunks)
      BY <1>3, <1>4, <2>1, <3>4
    <3>6. \A a \in All : Start(s) <= a
      <4>1. CASE first # Unset /\ s = first
        BY <1>4, <4>1
      <4>2. CASE s = last
        <5>1. first = Unset
          BY <1>10, <2>1, <3>4, <4>2
        <5> QED
          BY <1>4, <1>9, <2>1, <4>2, <5>1
      <4> QED
        BY <3>3, <4>1, <4>2
    <3>7. \A c \in chunks : ~(c < Start(s))
      <4>1. Start(s) \in Nat
        BY <2>1, SpanIs
      <4> QED
        BY <1>3, <3>6, <4>1
    <3> QED
      BY <2>3, <3>5, <3>7
  <2> QED
    BY <1>2, <2>1, <2>4, <2>5 DEF Accounted
<1>21. TopIsFull' /\ Middle'
  BY <1>3 DEF TopIsFull, Middle
<1>22. LastIsFull'
  <2> SUFFICES ASSUME first # Unset, last \in Seen' PROVE last \in fin'.spent /\ Complete(last)
    <3>1. first # Unset => last \in Window
      BY <1>7
    <3> QED
      BY <1>1, <1>3, <3>1 DEF LastIsFull
  <2>1. Complete(last)
    BY <1>5, <1>10
  <2>2. fin # Unset
    BY <1>5
  <2> QED
    BY <1>5, <2>1, <2>2
<1>23. ASSUME NEW w \in Window, InFull(w)', last # Unset, w < last
       PROVE  /\ InFull(w) /\ first # Unset /\ first <= w /\ audio[w] # {}
              /\ w = first => Complete(first)
  <2>1. Span(w)' = Span(w) /\ w \in Nat
    BY WindowsNumbered DEF Span
  <2>2. PICK c \in chunks : Of(c) = w
    BY <1>3, <1>23 DEF InFull
  <2>3. (\E d \in chunks : d < Start(w)) \/ Span(w) \subseteq chunks
    BY <1>3, <1>23, <2>1 DEF InFull, Passed
  <2>4. InFull(w)
    BY <1>3, <1>4, <2>2, <2>3 DEF InFull, Passed
  <2>5. first # Unset /\ first <= w
    BY <1>3, <1>7, <1>23, <2>1, <2>2
  <2>6. c \in audio[w]
    BY <1>2, <1>3, <2>2, WhereIs
  <2>7. ASSUME w = first PROVE Complete(first)
    <3>1. \A d \in chunks : ~(d < Start(first))
      <4>1. Start(first) \in Nat
        BY <1>7, <2>5, SpanIs
      <4> QED
        BY <1>3, <1>4, <2>5, <4>1
    <3> QED
      BY <1>3, <1>4, <2>3, <2>7, <3>1
  <2> QED
    BY <2>4, <2>5, <2>6, <2>7
<1>24. Below'
  <2> SUFFICES ASSUME NEW x \in Seen', OnTop(x)', NEW w \in Window, w < x, w \notin Seen', InFull(w)'
               PROVE  \E y \in Seen' : w < y /\ y < x
    BY DEF Below
  <2>1. x \in Nat /\ last # Unset /\ x <= last
    BY <1>5, <1>6, <1>7, <1>8, <1>9
  <2>2. x = last
    <3>1. PICK a \in All : Of(a) = last
      BY <1>7, <2>1
    <3>2. PICK c \in chunks : Of(a) <= Of(c)
      BY <1>11
    <3>3. Of(c) <= x /\ Of(c) \in Nat
      BY <1>3, <1>7, <3>2 DEF OnTop
    <3> QED
      BY <1>7, <2>1, <3>1, <3>2, <3>3
  <2>3. /\ InFull(w) /\ first # Unset /\ first <= w /\ audio[w] # {}
        /\ w = first => Complete(first)
    BY <1>23, <2>1, <2>2
  <2>4. w \notin Seen /\ fin # Unset /\ w \in Nat
    BY <1>5, WindowsNumbered
  <2>5. CASE last \in Seen
    <3>1. OnTop(last)
      BY <1>4, <1>7 DEF OnTop
    <3>2. PICK v \in Seen : w < v /\ v < last
      BY <1>2, <2>2, <2>3, <2>4, <2>5, <3>1 DEF Below
    <3> QED
      BY <1>5, <2>2, <3>2
  <2>6. CASE w = first
    <3>1. first \notin Shown'
      BY <1>5, <2>6
    <3>2. PICK u \in Shown : first < u /\ u < last
      BY <1>5, <2>3, <2>4, <2>6, <3>1
    <3> QED
      BY <1>5, <2>2, <2>6, <3>2
  <2>7. CASE w # first
    <3>1. first < w /\ w < last
      BY <1>7, <2>2, <2>3, <2>4, <2>7
    <3>2. \E v \in Seen : w < v /\ v < last
      BY <1>2, <1>4, <2>3, <2>4, <3>1 DEF Middle
    <3> QED
      BY <1>5, <2>2, <3>2
  <2> QED
    BY <2>6, <2>7
<1>25. LastQueued'
  <2> SUFFICES ASSUME fin = Unset, NEW j \in 1 .. Len(queue'), queue'[j] = last
               PROVE  /\ last \in Window /\ Complete(last)
                      /\ \A w \in Window : w < last /\ InFull(w)' => \E i \in 1 .. j - 1 : queue'[i] = w
    BY <1>1, <1>3, <1>5 DEF LastQueued
  <2>1. \A i \in 1 .. Len(queue) : audio[queue[i]] # {} /\ first # Unset /\ first < queue[i] /\ queue[i] < last
                                   /\ queue[i] \in Nat
    <3>1. queue \in Seq(Window)
      BY <1>2 DEF SegmenterInv
    <3>2. \A i \in 1 .. Len(queue) : queue[i] \in Window
      BY <3>1
    <3>3. \A i \in 1 .. Len(queue) : queue[i] \in Nat
      BY <3>2, WindowsNumbered
    <3> QED
      BY <1>2, <1>4, <3>3 DEF Queued, Between, Loading
  <2>2. j > Len(queue)
    <3> SUFFICES ASSUME ~(j > Len(queue)) PROVE FALSE
      OBVIOUS
    <3>1. j \in 1 .. Len(queue) /\ queue'[j] = queue[j]
      BY <1>15
    <3> QED
      BY <2>1, <3>1
  <2>3. Complete(last) /\ last # Unset /\ last \in Window /\ last \in Nat
    BY <1>4, <1>8, <1>15, <2>2
  <2>4. ASSUME NEW w \in Window, w < last, InFull(w)' PROVE \E i \in 1 .. j - 1 : queue'[i] = w
    <3>1. /\ first # Unset /\ first <= w /\ audio[w] # {}
          /\ w = first => Complete(first)
      BY <1>23, <2>3, <2>4
    <3>2. CASE w = first
      <4>1. Len(queue) + 1 < j /\ queue'[Len(queue) + 1] = first
        <5>1. last # first
          BY <1>7, <3>1
        <5> QED
          BY <1>15, <2>2, <3>1, <3>2, <5>1
      <4>2. Len(queue) + 1 \in 1 .. j - 1
        BY <1>15, <4>1
      <4> QED
        BY <3>2, <4>1, <4>2
    <3>3. CASE w # first
      <4>1. first < w
        BY <1>7, <3>1, <3>3, WindowsNumbered
      <4>2. PICK i \in 1 .. Len(queue) : queue[i] = w
        BY <1>2, <1>4, <2>4, <3>1, <4>1 DEF Middle
      <4>3. i \in 1 .. j - 1 /\ queue'[i] = w
        BY <1>15, <2>2, <4>2
      <4> QED
        BY <4>3
    <3> QED
      BY <3>2, <3>3
  <2> QED
    BY <2>3, <2>4
<1> QED
  BY <1>5, <1>12, <1>13, <1>16, <1>17, <1>18, <1>19, <1>20, <1>21, <1>22, <1>24, <1>25 DEF NumberParts

\* Each step keeps what is known of the numbers,
LEMMA NumbersAreKept ==
    ASSUME UnsetIsNoRecord, HeaderInTime, Capacity > Length, GapInv, GapInv', ~crowded',
           NumberInv, DumpInv, [SegmenterNext]_segmenterVars
    PROVE  NumberInv' /\ DumpInv'
<1>1. CASE GroupMin
  BY <1>1 DEF GroupMin, NumberInv, DumpInv
<1>2. CASE Dump
  <2>1. /\ UNCHANGED <<chunks, segmenter, toLoad, header, settling, Given>> /\ now' = now
        /\ group' = group /\ astray' = astray
    BY <1>2 DEF Dump, loading, Given
  <2>2. NumberInv'
    BY <2>1, SilenceNumbers DEF NumberInv
  <2>3. ~dump'.astray => ~astray
    BY <1>2 DEF Dump
  <2>4. DumpInv'
    BY <1>2, <2>1, <2>3, DumpNumbers DEF NumberInv, DumpInv
  <2> QED
    BY <2>2, <2>4
<1>3. ASSUME ~GroupMin, ~Dump PROVE NumberInv' /\ DumpInv'
  <2>1. /\ group' = group /\ dump' = dump /\ now \in Nat /\ now' \in Nat /\ now <= now'
        /\ ~Restart => astray' = astray
        /\ Restart => astray' = dump.astray
    <3>1. now \in Nat
      BY DEF GapInv, SegmenterInv
    <3>2. group' = group /\ dump' = dump /\ (now' = now \/ now' = now + 1)
      BY <1>3 DEF SegmenterNext, segmenterVars, lives, Chunk, Silence, NoMapCame, LoadHeader, LoadChunk,
                  Loaded, Settle, Restart
    <3>3. ~Restart => astray' = astray
      BY <1>3 DEF SegmenterNext, segmenterVars, lives, Chunk, Silence, NoMapCame, LoadHeader, LoadChunk,
                  Loaded, Settle
    <3>4. Restart => astray' = dump.astray
      BY DEF Restart
    <3> QED
      BY <3>1, <3>2, <3>3, <3>4
  <2>2. DumpInv'
    BY <2>1, DumpHoldsStill DEF DumpInv
  <2>3. ASSUME group # "moved", ~astray' PROVE NumberParts'
    <3>1. CASE Restart
      BY <2>1, <2>3, <3>1, RestartNumbers DEF DumpInv
    <3>2. ASSUME ~Restart PROVE NumberParts'
      <4>1. NumberParts
        BY <2>1, <2>3, <3>2 DEF NumberInv
      <4>2. CASE Chunk
        BY <2>3, <4>1, <4>2, ChunkNumbers
      <4>3. CASE Silence \/ UNCHANGED segmenterVars
        <5>1. /\ UNCHANGED <<chunks, segmenter, toLoad, header, settling, Given>>
              /\ now' = now \/ now' = now + 1
          BY <4>3 DEF Silence, segmenterVars, loading, Given
        <5> QED
          BY <4>1, <5>1, SilenceNumbers
      <4>4. CASE NoMapCame
        BY <2>3, <4>1, <4>4, NoMapCameNumbers
      <4>5. CASE LoadHeader
        BY <2>3, <4>1, <4>5, HeaderNumbers
      <4>6. CASE LoadChunk
        BY <2>3, <4>1, <4>6, LoadChunkNumbers
      <4>7. CASE Loaded
        BY <2>3, <4>1, <4>7, LoadedNumbers
      <4>8. CASE Settle
        BY <4>1, <4>8, SettleNumbers
      <4> QED
        BY <1>3, <3>2, <4>2, <4>3, <4>4, <4>5, <4>6, <4>7, <4>8 DEF SegmenterNext
    <3> QED
      BY <3>1, <3>2
  <2>4. NumberInv'
    BY <2>1, <2>3 DEF NumberInv
  <2> QED
    BY <2>2, <2>4
<1> QED
  BY <1>1, <1>2, <1>3

\* and it is what a player relies on: the list has no gap in its numbers,
LEMMA NumbersShowIntact ==
    ASSUME GapInv, NumberInv
    PROVE  NumberingIntact
<1> SUFFICES ASSUME group # "moved", ~astray, NEW i \in 1 .. Len(List) - 1
             PROVE  List[i + 1].id = List[i].id + 1 /\ List[i + 1].ts >= List[i].end
  BY DEF NumberingIntact
<1>1. fin # Unset
  <2> SUFFICES ASSUME fin = Unset PROVE FALSE
    OBVIOUS
  <2>1. List = <<>> /\ Len(<<>>) = 0
    BY DEF List
  <2>2. i \in 1 .. -1
    BY <2>1
  <2> QED
    BY <2>2
<1>2. /\ List = fin.list /\ Consistent(fin) /\ ListPlaced(fin) /\ InOrderOfTime(fin.list)
      /\ Numbers(fin, Given) /\ Contiguous /\ SegmenterInv
  BY <1>1 DEF List, GapInv, Consistent, NumberInv, NumberParts, Numbering, Current
<1> DEFINE q == fin.list
           s == q[i]
           t == q[i + 1]
<1>3. Len(q) \in Nat /\ i \in 1 .. Len(q) /\ i + 1 \in 1 .. Len(q) /\ DOMAIN q = 1 .. Len(q) /\ i < i + 1 /\ i \in Nat
  <2>1. q \in Seq(Segment)
    BY <1>2 DEF Consistent, Typed
  <2>2. Len(q) \in Nat /\ DOMAIN q = 1 .. Len(q) /\ i \in 1 .. Len(q) - 1
    BY <1>2, <2>1
  <2> HIDE DEF q
  <2> QED
    BY <2>2
<1>4. \A j \in 1 .. Len(q) : q[j] \in ToSet(q)
  BY <1>3 DEF ToSet
<1>5. \A x \in ToSet(q) : \E j \in 1 .. Len(q) : x = q[j]
  BY <1>3 DEF ToSet
<1>6. ASSUME NEW x \in ToSet(q)
      PROVE  /\ x.w \in Window /\ x.w \in Nat /\ x.ts \in Int /\ Start(x.w) <= x.ts /\ x.end = End(x.w)
             /\ x.w \in Shown /\ x.w <= last /\ last \in Nat /\ <<x.id, x.w>> \in Given
  <2>1. x.w \in Window /\ x.w \in Nat /\ x.ts \in Int /\ Start(x.w) <= x.ts /\ x.end = End(x.w)
    BY <1>1, <1>2, WindowListed DEF Consistent
  <2>2. x.w \in Shown /\ <<x.id, x.w>> \in Given
    BY <1>1, <1>2 DEF Shown, Windows, Numbers, Notes
  <2>3. x.w <= last /\ last # Unset
    BY <1>2 DEF ListPlaced, Between
  <2>4. last \in Nat
    BY <1>2, <2>3, WindowsNumbered DEF SegmenterInv
  <2> QED
    BY <2>1, <2>2, <2>3, <2>4
<1>7. s \in ToSet(q) /\ t \in ToSet(q) /\ s.w < t.w
  BY <1>2, <1>3, <1>4 DEF InOrderOfTime
<1>8. t.ts >= s.end
  <2>1. /\ s.end = End(s.w) /\ t.ts \in Int /\ Start(t.w) <= t.ts
        /\ End(s.w) <= Start(t.w) /\ End(s.w) \in Nat /\ Start(t.w) \in Nat
    BY <1>6, <1>7, StartIs
  <2> QED
    BY <2>1
<1> DEFINE a == <<s.id, s.w>>
           b == <<t.id, t.w>>
<1>9. a \in Given /\ b \in Given /\ a[1] = s.id /\ a[2] = s.w /\ b[1] = t.id /\ b[2] = t.w
  BY <1>6, <1>7
<1>10. /\ s.w \in Nat /\ t.w \in Nat /\ s.w \in Shown /\ t.w <= last /\ last \in Nat
  BY <1>6, <1>7
<1>11. \A j \in 1 .. Len(q) : q[j].w <= s.w \/ t.w <= q[j].w
  <2> SUFFICES ASSUME NEW j \in 1 .. Len(q) PROVE q[j].w <= s.w \/ t.w <= q[j].w
    OBVIOUS
  <2>1. j < i \/ j = i \/ j = i + 1 \/ i + 1 < j
    BY <1>3
  <2>2. (j < i => q[j].w < s.w) /\ (i + 1 < j => t.w < q[j].w)
    BY <1>2, <1>3 DEF InOrderOfTime
  <2>3. q[j].w \in Nat
    BY <1>4, <1>6
  <2>4. (j = i => q[j].w = s.w) /\ (j = i + 1 => q[j].w = t.w)
    OBVIOUS
  <2>5. s.w \in Nat /\ t.w \in Nat
    BY <1>10
  <2>6. (j < i => q[j].w < s.w) /\ (i + 1 < j => t.w < q[j].w)
    BY <2>2
  <2> HIDE DEF q, s, t
  <2> QED
    BY <2>1, <2>3, <2>4, <2>5, <2>6
<1> HIDE DEF q, s, t, a, b
<1>12. /\ \A p, r \in Given : (p[2] < r[2] => p[1] < r[1]) /\ (p[2] = r[2] => p[1] = r[1])
       /\ \A p \in Given : p[1] \in Nat /\ p[2] \in Window /\ p[2] \in Nat /\ p[1] < fin.seq
       /\ \A n \in 0 .. fin.seq - 1 : \E p \in Given : p[1] = n
       /\ fin.seq \in Nat
  <2>1. /\ \A p, r \in Given : (p[2] < r[2] => p[1] < r[1]) /\ (p[2] = r[2] => p[1] = r[1])
        /\ \A n \in 0 .. fin.seq - 1 : \E p \in Given : p[1] = n
    BY <1>2 DEF Numbers
  <2>2. \A p \in Given : p[1] < fin.seq
    BY <1>2 DEF Numbers
  <2>3. Given \subseteq Nat \X Window
    BY <1>2 DEF Numbers
  <2>4. \A p \in Given : p[1] \in Nat /\ p[2] \in Window
    BY <2>3
  <2>5. \A p \in Given : p[2] \in Nat
    BY <2>4, WindowsNumbered
  <2>6. fin.seq \in Nat
    BY <1>2 DEF Consistent, Typed
  <2> QED
    BY <2>1, <2>2, <2>4, <2>5, <2>6
<1>13. s.id \in Nat /\ t.id \in Nat /\ s.id < t.id /\ t.id < fin.seq
  BY <1>7, <1>9, <1>12
<1>14. t.id = s.id + 1
  <2> SUFFICES ASSUME t.id # s.id + 1 PROVE FALSE
    OBVIOUS
  <2>1. s.id + 1 \in 0 .. fin.seq - 1 /\ s.id + 1 < t.id
    BY <1>12, <1>13
  <2>2. PICK p \in Given : p[1] = s.id + 1
    BY <1>12, <2>1
  <2>3. s.w < p[2] /\ p[2] < t.w /\ p[2] \in Nat
    <3>1. p[2] \in Nat
      BY <1>12
    <3>2. ~(p[2] < s.w) /\ p[2] # s.w
      BY <1>9, <1>12, <1>13, <2>2
    <3>3. ~(t.w < p[2]) /\ p[2] # t.w
      BY <1>9, <1>12, <1>13, <2>1, <2>2
    <3> QED
      BY <1>10, <3>1, <3>2, <3>3
  <2>4. p[2] \in Seen
    BY DEF Seen
  <2>5. p[2] # last
    BY <1>10, <2>3
  <2>6. p[2] \in Shown
    BY <1>2, <1>10, <2>3, <2>4, <2>5 DEF Contiguous
  <2>7. PICK x \in ToSet(q) : x.w = p[2]
    BY <1>1, <2>6 DEF Shown, Windows, q
  <2>8. PICK j \in 1 .. Len(q) : x = q[j]
    BY <1>5
  <2>9. p[2] <= s.w \/ t.w <= p[2]
    BY <1>11, <2>7, <2>8
  <2>10. s.w \in Nat /\ t.w \in Nat /\ p[2] \in Nat /\ s.w < p[2] /\ p[2] < t.w
    BY <1>10, <2>3
  <2> QED
    BY <2>9, <2>10
<1> QED
  BY <1>2, <1>8, <1>14 DEF q, s, t

\* and a number is one segment's for good.
LEMMA NumbersShowKept ==
    ASSUME NumberInv
    PROVE  NumbersKept
<1> SUFFICES ASSUME group # "moved", ~astray, NEW a \in listed, NEW b \in listed
             PROVE  a[1] = b[1] <=> a[2] = b[2]
  BY DEF NumbersKept
<1> DEFINE p == <<a[1], a[2]>>
           r == <<b[1], b[2]>>
<1>1. p \in Given /\ r \in Given /\ p[1] = a[1] /\ p[2] = a[2] /\ r[1] = b[1] /\ r[2] = b[2]
  BY DEF Given
<1> HIDE DEF p, r
<1>2. Numbers(Current, Given)
  BY <1>1 DEF NumberInv, NumberParts, Numbering
<1>3. Given \subseteq Nat \X Window
  BY <1>2 DEF Numbers
<1>4. p[1] \in Nat /\ r[1] \in Nat /\ p[2] \in Window /\ r[2] \in Window
  BY <1>1, <1>3
<1>5. p[2] \in Nat /\ r[2] \in Nat
  BY <1>4, WindowsNumbered
<1>6. /\ p[2] < r[2] => p[1] < r[1]
      /\ r[2] < p[2] => r[1] < p[1]
      /\ p[2] = r[2] => p[1] = r[1]
  BY <1>1, <1>2 DEF Numbers
<1> QED
  BY <1>1, <1>4, <1>5, <1>6

\* If a dump's header is read in time and the buffer holds more than a segment: the numbers of the
\* list (hls_segmenter.coffee:300-428) follow each other, and a number is one segment's for good,
\* over restarts from a dump of any age; until another bitrate moves the minimum, a map with a
\* misplaced segment is loaded, or chunks go from the buffer during a load.
THEOREM NumbersAreHeld ==
    ASSUME HeaderInTime, Capacity > Length, UnsetIsNoRecord
    PROVE  SegmenterSpec => []NumbersHold
<1> DEFINE I == ~crowded => GapInv /\ NumberInv /\ DumpInv
<1>1. SegmenterInit => I
  BY GapsStart, NumbersStart
<1>2. I /\ [SegmenterNext]_segmenterVars => I'
  BY GapsKept, NumbersAreKept, CrowdedStays
<1>3. I => NumbersHold
  <2>1. ASSUME crowded PROVE NumbersHold
    BY <2>1 DEF NumbersHold, NumberingIntact, NumbersKept
  <2>2. ASSUME GapInv, NumberInv PROVE NumbersHold
    BY <2>2, NumbersShowIntact, NumbersShowKept DEF NumbersHold
  <2> QED
    BY <2>1, <2>2
<1> QED
  BY <1>1, <1>2, <1>3, PTL DEF SegmenterSpec
=============================================================================
