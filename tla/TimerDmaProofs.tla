--------------------------- MODULE TimerDmaProofs ---------------------------
(***************************************************************************)
(* Proofs about NvkmTimer: for a comparator of any width, any delays and   *)
(* any threads, the earliest alarm has an interrupt, and polling is on in  *)
(* automatic mode only.  And about NouveauDma: for a ring and an IB of any *)
(* size, a wait that returns gives room that the GPU has done with.        *)
(***************************************************************************)
EXTENDS NvkmTimer, NouveauDma, SequenceTheorems, TLAPS

-----------------------------------------------------------------------------
(* Alarms: the inductive invariant.                                        *)

\* What nvkm_timer_alarm does under tmr->lock, and nvkm_timer_alarm_trigger.
Setting == {"first", "unlock"}
Triggering == {"scan", "init", "again"}

Pcs == {"idle", "update", "alarm", "lock", "exec"} \cup Setting \cup Triggering

Act == [pc : Pcs, alarm : Alarms, nsec : Nat]

AlarmLists == {<<>>, <<Poll>>, <<Fan>>, <<Poll, Fan>>, <<Fan, Poll>>}

TimerTypeOK ==
  /\ match \in 1 .. Wrap /\ enabled \in BOOLEAN /\ stat \in BOOLEAN /\ missed \in BOOLEAN
  /\ alarms \in AlarmLists /\ exec \in Seq(Alarms)
  /\ ahead \in [Alarms -> Int] /\ \A a \in Alarms : ahead[a] >= -1
  /\ tmrlock \in Actors \cup {Free} /\ thermlock \in Actors \cup {Free}
  /\ mode \in {"auto", "manual"} /\ cstate \in BOOLEAN
  /\ act \in [Actors -> Act]

\* An actor is in a section under a lock if and only if it holds the lock.
Polling(x) == act[x].pc \in {"alarm"} \cup Setting /\ act[x].alarm = Poll
LocksInv ==
  \A x \in Actors :
    /\ tmrlock = x <=> act[x].pc \in Setting \cup Triggering
    /\ thermlock = x <=> Polling(x)
    /\ x # Irq => act[x].pc \notin {"lock", "exec"} \cup Triggering

\* The list is in the order of the time stamps.
Ordered == Len(alarms) = 2 => ahead[alarms[1]] <= ahead[alarms[2]]

\* The first alarm has an interrupt; it has, but for a race with the time.
Interrupts(n) == enabled /\ (stat \/ match <= n)
Armed == alarms # <<>> => Interrupts(ahead[Head(alarms)])

\* The comparator is right but between a change of the list and alarm_init,
\* and while the interrupt is handled: the lock is held meanwhile, but for
\* the time between the interrupt and the lock.
ArmedInv ==
  /\ \A x \in Actors : At(x, "first") => alarms # <<>> /\ Head(alarms) = act[x].alarm
  /\ At(Irq, "init") => alarms # <<>>
  /\ At(Irq, "again") =>
       alarms # <<>> /\ (Interrupts(ahead[Head(alarms)]) \/ Now(Head(alarms)))
  /\ ~missed /\ act[Irq].pc \notin {"lock"} \cup Triggering
       /\ (\A x \in Actors : ~At(x, "first")) => Armed

\* The alarm of nvkm_therm_update is set as the mode says, by who has the lock.
Polled == Poll \in ToSet(alarms)
PollInv ==
  /\ PollByMode
  /\ \A x \in Actors : thermlock = x =>
       /\ act[x].nsec = (IF mode = "auto" THEN Period ELSE 0)
       /\ act[x].pc \in Setting => (Polled <=> mode = "auto")

TimerInv == TimerTypeOK /\ LocksInv /\ Ordered /\ ArmedInv /\ PollInv
-----------------------------------------------------------------------------
(* Constants, the comparator, and lists of two alarms.                     *)

LEMMA Names ==
  /\ Irq \in Actors /\ Free \notin Actors
  /\ Irq \notin Setters /\ Irq \notin Moders
  /\ Setters \subseteq Actors /\ Moders \subseteq Actors
  /\ Wrap \in Nat /\ Wrap > 0 /\ Period \in Nat /\ Period > 0 /\ Delays \subseteq Nat
BY TimerAssumption DEF Actors, Irq, Free

\* The comparator matches at the time it is set to, or a wrap or more before.
LEMMA Comparator ==
  ASSUME NEW n \in Int
  PROVE  LET k == IF n % Wrap = 0 THEN Wrap ELSE n % Wrap
         IN  k \in 1 .. Wrap /\ (n > 0 => k <= n)
<1>1. Wrap \in Nat /\ Wrap > 0
  BY Names
<1>2. n % Wrap \in 0 .. Wrap - 1
  BY <1>1, SMTT(30)
<1>3. ASSUME 0 < n, n < Wrap PROVE n % Wrap = n
  BY <1>1, <1>3, SMTT(30)
<1>. DEFINE m == n % Wrap
<1>4. m \in 0 .. Wrap - 1 /\ (0 < n /\ n < Wrap => m = n)
  BY <1>2, <1>3
<1>. HIDE DEF m
<1>5. (IF m = 0 THEN Wrap ELSE m) \in 1 .. Wrap /\ (n > 0 => (IF m = 0 THEN Wrap ELSE m) <= n)
  BY <1>1, <1>4
<1>. QED  BY <1>5 DEF m

Other(a) == IF a = Poll THEN Fan ELSE Poll

LEMMA TwoAlarms ==
  ASSUME NEW a \in Alarms
  PROVE  Other(a) \in Alarms /\ Other(a) # a /\ \A b \in Alarms : b = a \/ b = Other(a)
BY DEF Alarms, Other, Poll, Fan

\* The lists there are, named from one of the alarms.
LEMMA ListCases ==
  ASSUME NEW l \in AlarmLists, NEW a \in Alarms
  PROVE  LET b == Other(a)
         IN  \/ l = <<>> \/ l = <<a>> \/ l = <<b>> \/ l = <<a, b>> \/ l = <<b, a>>
BY DEF AlarmLists, Alarms, Other

\* What they are made of.
LEMMA ListParts ==
  ASSUME NEW a \in Alarms, NEW b \in Alarms
  PROVE  /\ <<>> \in Seq(Alarms) /\ Len(<<>>) = 0 /\ ToSet(<<>>) = {}
         /\ <<a>> \in Seq(Alarms) /\ Len(<<a>>) = 1 /\ <<a>>[1] = a
         /\ ToSet(<<a>>) = {a} /\ Head(<<a>>) = a /\ Tail(<<a>>) = <<>>
         /\ <<a, b>> \in Seq(Alarms) /\ Len(<<a, b>>) = 2 /\ <<a, b>>[1] = a /\ <<a, b>>[2] = b
         /\ ToSet(<<a, b>>) = {a, b} /\ Head(<<a, b>>) = a /\ Tail(<<a, b>>) = <<b>>
<1>1. ToSet(<<>>) = {}
  BY DEF ToSet
<1>2. ToSet(<<a>>) = {a}
  BY DEF ToSet
<1>3. ToSet(<<a, b>>) = {a, b}
  <2>1. DOMAIN <<a, b>> = {1, 2}
    OBVIOUS
  <2>. QED  BY <2>1 DEF ToSet
<1>4. Tail(<<a>>) = <<>> /\ Tail(<<a, b>>) = <<b>>
  OBVIOUS
<1>. QED  BY <1>1, <1>2, <1>3, <1>4

\* A sequence is what its length and its elements say.
LEMMA IsOne ==
  ASSUME NEW S, NEW s \in Seq(S), Len(s) = 1
  PROVE  s = <<s[1]>>
<1>. DEFINE t == <<s[1]>>
<1>1. s[1] \in S
  BY ElementOfSeq
<1>2. t \in Seq(S) /\ Len(t) = 1 /\ t[1] = s[1]
  BY <1>1
<1>. HIDE DEF t
<1>3. \A i \in 1 .. Len(s) : s[i] = t[i]
  BY <1>2
<1>4. s = t
  BY <1>2, <1>3, SeqEqual
<1>. QED  BY <1>4 DEF t

LEMMA IsTwo ==
  ASSUME NEW S, NEW s \in Seq(S), Len(s) = 2
  PROVE  s = <<s[1], s[2]>>
<1>. DEFINE t == <<s[1], s[2]>>
<1>1. 1 \in 1 .. Len(s) /\ 2 \in 1 .. Len(s)
  OBVIOUS
<1>2. s[1] \in S /\ s[2] \in S
  BY <1>1, ElementOfSeq
<1>3. t \in Seq(S) /\ Len(t) = 2 /\ t[1] = s[1] /\ t[2] = s[2]
  BY <1>2
<1>. HIDE DEF t
<1>4. \A i \in 1 .. Len(s) : s[i] = t[i]
  BY <1>3
<1>5. s = t
  BY <1>3, <1>4, SeqEqual
<1>. QED  BY <1>5 DEF t

\* What they become.
LEMMA ListSteps ==
  ASSUME NEW a \in Alarms, NEW b \in Alarms
  PROVE  /\ Append(<<>>, a) = <<a>> /\ Append(<<a>>, b) = <<a, b>>
         /\ InsertAt(<<a>>, 1, b) = <<b, a>>
         /\ RemoveAt(<<a>>, 1) = <<>>
         /\ RemoveAt(<<a, b>>, 1) = <<b>> /\ RemoveAt(<<a, b>>, 2) = <<a>>
<1>. DEFINE S == Alarms
<1>0. <<a>> \in Seq(S) /\ <<b>> \in Seq(S) /\ <<a, b>> \in Seq(S)
  OBVIOUS
<1>. HIDE DEF S
<1>1. Append(<<>>, a) = <<a>>
  OBVIOUS
<1>2. Append(<<a>>, b) = <<a, b>>
  <2>1. LET s == Append(<<a>>, b) IN s \in Seq(S) /\ Len(s) = 2 /\ s[1] = a /\ s[2] = b
    BY <1>0 DEF S
  <2>. QED  BY <2>1, IsTwo, Zenon
<1>3. <<b>> \o <<a>> = <<b, a>>
  <2>1. LET s == <<b>> \o <<a>> IN s \in Seq(S) /\ Len(s) = 2 /\ s[1] = b /\ s[2] = a
    BY <1>0, ConcatProperties
  <2>. QED  BY <2>1, IsTwo, Zenon
<1>4. SubSeq(<<a, b>>, 1, 1) = <<a>> /\ SubSeq(<<a, b>>, 2, 2) = <<b>> /\ SubSeq(<<a>>, 1, 1) = <<a>>
  <2>1. LET s == SubSeq(<<a, b>>, 1, 1) IN s \in Seq(S) /\ Len(s) = 1 /\ s[1] = a
    BY <1>0
  <2>2. LET s == SubSeq(<<a, b>>, 2, 2) IN s \in Seq(S) /\ Len(s) = 1 /\ s[1] = b
    BY <1>0
  <2>3. LET s == SubSeq(<<a>>, 1, 1) IN s \in Seq(S) /\ Len(s) = 1 /\ s[1] = a
    BY <1>0
  <2>4. SubSeq(<<a, b>>, 1, 1) = <<a>>
    BY <2>1, IsOne, Zenon
  <2>5. SubSeq(<<a, b>>, 2, 2) = <<b>>
    BY <2>2, IsOne, Zenon
  <2>6. SubSeq(<<a>>, 1, 1) = <<a>>
    BY <2>3, IsOne, Zenon
  <2>. QED  BY <2>4, <2>5, <2>6
<1>5. /\ SubSeq(<<a, b>>, 1, 0) = <<>> /\ SubSeq(<<a, b>>, 3, 2) = <<>>
      /\ SubSeq(<<a>>, 1, 0) = <<>> /\ SubSeq(<<a>>, 2, 1) = <<>>
  BY SubSeqEmpty
<1>6. /\ <<>> \o <<>> = <<>> /\ <<>> \o <<b>> = <<b>> /\ <<a>> \o <<>> = <<a>>
  BY <1>0, ConcatEmptySeq, EmptySeq
<1>7. InsertAt(<<a>>, 1, b) = <<b, a>>
  <2>1. InsertAt(<<a>>, 1, b) = SubSeq(<<a>>, 1, 0) \o <<b>> \o SubSeq(<<a>>, 1, 1)
    BY DEF InsertAt
  <2>. QED  BY <2>1, <1>3, <1>4, <1>5, <1>6
<1>8. RemoveAt(<<a>>, 1) = <<>>
  <2>1. RemoveAt(<<a>>, 1) = SubSeq(<<a>>, 1, 0) \o SubSeq(<<a>>, 2, 1)
    BY DEF RemoveAt
  <2>. QED  BY <2>1, <1>5, <1>6
<1>9. RemoveAt(<<a, b>>, 1) = <<b>> /\ RemoveAt(<<a, b>>, 2) = <<a>>
  <2>1. /\ RemoveAt(<<a, b>>, 1) = SubSeq(<<a, b>>, 1, 0) \o SubSeq(<<a, b>>, 2, 2)
        /\ RemoveAt(<<a, b>>, 2) = SubSeq(<<a, b>>, 1, 1) \o SubSeq(<<a, b>>, 3, 2)
    BY DEF RemoveAt
  <2>. QED  BY <2>1, <1>4, <1>5, <1>6
<1>. QED  BY <1>1, <1>2, <1>7, <1>8, <1>9

LEMMA MinOne ==
  ASSUME NEW k
  PROVE  k \in Int => Min({k}) = k
BY DEF Min

LEMMA Without ==
  ASSUME NEW l \in AlarmLists, NEW a \in Alarms
  PROVE  RemoveFirst(l, a) = IF Other(a) \in ToSet(l) THEN <<Other(a)>> ELSE <<>>
<1>. DEFINE b == Other(a)
            I == {i \in 1 .. Len(l) : l[i] = a}
<1>0. b \in Alarms /\ b # a
  BY TwoAlarms
<1>. HIDE DEF b
<1>1. RemoveFirst(l, a) = IF I # {} THEN RemoveAt(l, Min(I)) ELSE l
  BY DEF RemoveFirst, SelectInSeq
<1>. HIDE DEF I
<1>2. CASE l = <<>>
  <2>1. I = {}
    BY <1>2 DEF I
  <2>2. b \notin ToSet(l)
    BY <1>2 DEF ToSet
  <2>. QED  BY <1>1, <1>2, <2>1, <2>2 DEF b
<1>3. CASE l = <<b>>
  <2>1. I = {}
    BY <1>0, <1>3, ListParts DEF I
  <2>2. b \in ToSet(l)
    BY <1>0, <1>3, ListParts
  <2>. QED  BY <1>1, <1>3, <2>1, <2>2 DEF b
<1>4. CASE l = <<a>>
  <2>1. I = {1}
    BY <1>0, <1>4, ListParts DEF I
  <2>5. ToSet(l) = {a}
    BY <1>0, <1>4, ListParts
  <2>2. RemoveFirst(l, a) = RemoveAt(l, Min({1}))
    BY <1>1, <2>1
  <2>3. Min({1}) = 1
    BY MinOne
  <2>4. RemoveAt(<<a>>, 1) = <<>>
    BY <1>0, ListSteps
  <2>. QED  BY <1>0, <1>4, <2>2, <2>3, <2>4, <2>5 DEF b
<1>5. CASE l = <<a, b>>
  <2>1. I = {1}
    BY <1>0, <1>5, ListParts DEF I
  <2>5. b \in ToSet(l)
    BY <1>0, <1>5, ListParts
  <2>2. RemoveFirst(l, a) = RemoveAt(l, Min({1}))
    BY <1>1, <2>1
  <2>3. Min({1}) = 1
    BY MinOne
  <2>4. RemoveAt(<<a, b>>, 1) = <<b>>
    BY <1>0, ListSteps
  <2>. QED  BY <1>5, <2>2, <2>3, <2>4, <2>5 DEF b
<1>6. CASE l = <<b, a>>
  <2>1. I = {2}
    BY <1>0, <1>6, ListParts DEF I
  <2>5. b \in ToSet(l)
    BY <1>0, <1>6, ListParts
  <2>2. RemoveFirst(l, a) = RemoveAt(l, Min({2}))
    BY <1>1, <2>1
  <2>3. Min({2}) = 2
    BY MinOne
  <2>4. RemoveAt(<<b, a>>, 2) = <<b>>
    BY <1>0, ListSteps
  <2>. QED  BY <1>6, <2>2, <2>3, <2>4, <2>5 DEF b
<1>. QED  BY <1>2, <1>3, <1>4, <1>5, <1>6, ListCases DEF b

\* nvkm_timer_alarm leaves the other alarm where it is, and puts this one
\* before it if it is later.
LEMMA Reinserted ==
  ASSUME TimerTypeOK, NEW a \in Alarms, NEW n \in Nat
  PROVE  LET b == Other(a)
         IN  Reinsert(a, n) = IF b \notin ToSet(alarms) THEN IF n = 0 THEN <<>> ELSE <<a>>
                              ELSE IF n = 0 THEN <<b>>
                              ELSE IF ahead[b] > n THEN <<a, b>> ELSE <<b, a>>
<1>. DEFINE b == Other(a)
            rest == RemoveFirst(alarms, a)
            I == {i \in 1 .. Len(rest) : ahead[rest[i]] > n}
            later == IF I # {} THEN Min(I) ELSE 0
<1>0. b \in Alarms /\ b # a
  BY TwoAlarms
<1>1. rest = IF b \in ToSet(alarms) THEN <<b>> ELSE <<>>
  BY Without DEF TimerTypeOK
<1>2. Reinsert(a, n) = IF n = 0 THEN rest ELSE IF later = 0 THEN Append(rest, a)
                       ELSE InsertAt(rest, later, a)
  <2>1. later = SelectInSeq(rest, LAMBDA v : ahead[v] > n)
    BY DEF SelectInSeq
  <2>. HIDE DEF rest, later
  <2>2. Reinsert(a, n) = CASE n = 0 -> rest [] n # 0 /\ later = 0 -> Append(rest, a)
                           [] OTHER -> InsertAt(rest, later, a)
    BY <2>1 DEF Reinsert, rest
  <2>. QED  BY <2>2
<1>. HIDE DEF b, rest, later, I
<1>3. CASE b \notin ToSet(alarms)
  <2>1. I = {}
    BY <1>1, <1>3 DEF I
  <2>2. later = 0
    BY <2>1 DEF later
  <2>3. Append(<<>>, a) = <<a>>
    BY ListSteps
  <2>. QED  BY <1>1, <1>2, <1>3, <2>2, <2>3 DEF b
<1>4. CASE b \in ToSet(alarms) /\ ~(ahead[b] > n)
  <2>1. I = {}
    BY <1>1, <1>4 DEF I
  <2>2. later = 0
    BY <2>1 DEF later
  <2>3. Append(<<b>>, a) = <<b, a>>
    BY <1>0, ListSteps
  <2>. QED  BY <1>1, <1>2, <1>4, <2>2, <2>3 DEF b
<1>5. CASE b \in ToSet(alarms) /\ ahead[b] > n
  <2>1. I = {1}
    BY <1>1, <1>5 DEF I
  <2>2. later = 1
    BY <2>1, MinOne DEF later
  <2>3. InsertAt(<<b>>, 1, a) = <<a, b>>
    BY <1>0, ListSteps
  <2>. QED  BY <1>1, <1>2, <1>5, <2>2, <2>3 DEF b
<1>. QED  BY <1>3, <1>4, <1>5 DEF b

-----------------------------------------------------------------------------
(* The list in a state.                                                    *)

LEMMA TypeFacts ==
  ASSUME TimerTypeOK
  PROVE  /\ match \in Int /\ match >= 1 /\ match <= Wrap
         /\ \A a \in Alarms : ahead[a] \in Int /\ ahead[a] >= -1
         /\ \A x \in Actors : act[x] \in Act
         /\ \A x \in Actors : act[x].alarm \in Alarms /\ act[x].nsec \in Nat
BY Names DEF TimerTypeOK, Act

\* The first alarm, and what is behind it.
LEMMA FirstAlarm ==
  ASSUME TimerTypeOK, Ordered, alarms # <<>>
  PROVE  /\ Head(alarms) \in Alarms /\ Tail(alarms) \in AlarmLists
         /\ ToSet(alarms) = {Head(alarms)} \cup ToSet(Tail(alarms))
         /\ Head(alarms) \notin ToSet(Tail(alarms))
         /\ \A b \in ToSet(alarms) : b \in Alarms /\ ahead[Head(alarms)] <= ahead[b]
         /\ Len(Tail(alarms)) # 2
<1>1. PICK a \in Alarms : alarms = <<a>> \/ alarms = <<a, Other(a)>>
  BY DEF TimerTypeOK, AlarmLists, Alarms, Other, Poll, Fan
<1>. DEFINE b == Other(a)
<1>2. b \in Alarms /\ b # a
  BY TwoAlarms
<1>3. /\ <<>> \in AlarmLists /\ <<b>> \in AlarmLists
  BY <1>2 DEF AlarmLists, Alarms
<1>4. ahead[a] \in Int /\ ahead[b] \in Int
  BY <1>2, TypeFacts
<1>. HIDE DEF b
<1>5. CASE alarms = <<a>>
  <2>1. Head(alarms) = a /\ Tail(alarms) = <<>> /\ ToSet(alarms) = {a} /\ ToSet(Tail(alarms)) = {}
    BY <1>5, ListParts
  <2>2. Len(Tail(alarms)) = 0
    BY <2>1, ListParts
  <2>3. \A c \in ToSet(alarms) : c \in Alarms /\ ahead[Head(alarms)] <= ahead[c]
    BY <1>4, <2>1
  <2>4. ToSet(alarms) = {Head(alarms)} \cup ToSet(Tail(alarms)) /\ Head(alarms) \notin ToSet(Tail(alarms))
    BY <2>1
  <2>5. Tail(alarms) \in AlarmLists
    BY <1>3, <2>1, Zenon
  <2>. QED  BY <2>1, <2>2, <2>3, <2>4, <2>5
<1>6. CASE alarms = <<a, b>>
  <2>1. /\ Head(alarms) = a /\ Tail(alarms) = <<b>> /\ ToSet(alarms) = {a, b}
        /\ Len(alarms) = 2 /\ alarms[1] = a /\ alarms[2] = b
    BY <1>2, <1>6, ListParts
  <2>2. ToSet(Tail(alarms)) = {b} /\ Len(Tail(alarms)) = 1
    BY <1>2, <2>1, ListParts
  <2>3. ahead[a] <= ahead[b]
    BY <2>1 DEF Ordered
  <2>4. \A c \in ToSet(alarms) : c \in Alarms /\ ahead[Head(alarms)] <= ahead[c]
    BY <1>2, <1>4, <2>1, <2>3
  <2>5. ToSet(alarms) = {Head(alarms)} \cup ToSet(Tail(alarms)) /\ Head(alarms) \notin ToSet(Tail(alarms))
    BY <1>2, <2>1, <2>2
  <2>. QED  BY <1>3, <2>1, <2>2, <2>4, <2>5
<1>. QED  BY <1>1, <1>5, <1>6 DEF b

\* What nvkm_timer_alarm does to the list.
LEMMA ListSet ==
  ASSUME TimerTypeOK, Ordered, NEW a \in Alarms, NEW n \in Nat,
         alarms' = Reinsert(a, n), ahead' = [ahead EXCEPT ![a] = n]
  PROVE  /\ alarms' \in AlarmLists /\ Ordered'
         /\ ahead' \in [Alarms -> Int] /\ \A b \in Alarms : ahead'[b] >= -1
         /\ n # 0 => alarms' # <<>>
         /\ alarms' # <<>> /\ ~(n # 0 /\ Head(alarms') = a) =>
              alarms # <<>> /\ ahead[Head(alarms)] <= ahead'[Head(alarms')]
         /\ ToSet(alarms') = IF n = 0 THEN ToSet(alarms) \ {a} ELSE ToSet(alarms) \cup {a}
<1>. DEFINE b == Other(a)
<1>1. b \in Alarms /\ b # a /\ \A c \in Alarms : c = a \/ c = b
  BY TwoAlarms
<1>2. alarms' = IF b \notin ToSet(alarms) THEN IF n = 0 THEN <<>> ELSE <<a>>
                ELSE IF n = 0 THEN <<b>> ELSE IF ahead[b] > n THEN <<a, b>> ELSE <<b, a>>
  BY Reinserted
<1>. HIDE DEF b
<1>3. /\ ahead' \in [Alarms -> Int] /\ ahead'[a] = n /\ ahead'[b] = ahead[b]
      /\ \A c \in Alarms : ahead'[c] >= -1
  BY <1>1, TypeFacts DEF TimerTypeOK
<1>4. alarms' \in AlarmLists
  BY <1>1, <1>2 DEF AlarmLists, Alarms
<1>5. Ordered'
  <2>1. CASE alarms' = <<a, b>> /\ ahead[b] > n
    <3>1. alarms'[1] = a /\ alarms'[2] = b
      BY <2>1
    <3>. QED  BY <1>1, <1>3, <2>1, <3>1, TypeFacts DEF Ordered
  <2>2. CASE alarms' = <<b, a>> /\ ~(ahead[b] > n)
    <3>1. alarms'[1] = b /\ alarms'[2] = a
      BY <2>2
    <3>. QED  BY <1>1, <1>3, <2>2, <3>1, TypeFacts DEF Ordered
  <2>3. CASE alarms' = <<>> \/ alarms' = <<a>> \/ alarms' = <<b>>
    <3>1. Len(<<>>) # 2 /\ Len(<<a>>) # 2 /\ Len(<<b>>) # 2
      OBVIOUS
    <3>. QED  BY <2>3, <3>1 DEF Ordered
  <2>. QED  BY <1>2, <2>1, <2>2, <2>3
<1>6. \A c \in ToSet(alarms) : c = a \/ c = b
  <2>1. ToSet(alarms) \subseteq Alarms
    <3>1. CASE alarms = <<>>
      BY <3>1, ListParts DEF Alarms
    <3>. QED  BY <3>1, FirstAlarm
  <2>. QED  BY <1>1, <2>1
<1>7. ToSet(alarms') = IF n = 0 THEN ToSet(alarms) \ {a} ELSE ToSet(alarms) \cup {a}
  <2>1. /\ ToSet(<<>>) = {} /\ ToSet(<<a>>) = {a} /\ ToSet(<<b>>) = {b}
        /\ ToSet(<<a, b>>) = {a, b} /\ ToSet(<<b, a>>) = {a, b}
    BY <1>1, ListParts
  <2>2. CASE b \notin ToSet(alarms)
    <3>1. ToSet(alarms) \subseteq {a}
      BY <1>6, <2>2
    <3>. QED  BY <1>2, <2>1, <2>2, <3>1
  <2>3. CASE b \in ToSet(alarms)
    <3>1. ToSet(alarms) = {b} \/ ToSet(alarms) = {a, b}
      BY <1>6, <2>3
    <3>2. CASE n = 0
      <4>1. alarms' = <<b>>
        BY <1>2, <2>3, <3>2
      <4>2. ToSet(alarms) \ {a} = {b}
        BY <1>1, <3>1
      <4>. QED  BY <2>1, <3>2, <4>1, <4>2
    <3>3. CASE n # 0
      <4>1. alarms' = <<a, b>> \/ alarms' = <<b, a>>
        BY <1>2, <2>3, <3>3
      <4>2. ToSet(alarms) \cup {a} = {a, b}
        BY <3>1
      <4>. QED  BY <2>1, <3>3, <4>1, <4>2
    <3>. QED  BY <3>2, <3>3
  <2>. QED  BY <2>2, <2>3
<1>8. n # 0 => alarms' # <<>>
  BY <1>2
<1>9. ASSUME alarms' # <<>>, ~(n # 0 /\ Head(alarms') = a)
      PROVE  alarms # <<>> /\ ahead[Head(alarms)] <= ahead'[Head(alarms')]
  <2>1. Head(<<a>>) = a /\ Head(<<b>>) = b /\ Head(<<a, b>>) = a /\ Head(<<b, a>>) = b
    OBVIOUS
  <2>2. b \in ToSet(alarms) /\ Head(alarms') = b
    BY <1>2, <1>9, <2>1
  <2>3. alarms # <<>>
    BY <2>2, ListParts
  <2>. QED  BY <1>3, <2>2, <2>3, FirstAlarm
<1>. QED  BY <1>3, <1>4, <1>5, <1>7, <1>8, <1>9

-----------------------------------------------------------------------------
(* Each step keeps the invariant.                                          *)

LEMMA TimerInitInv == TimerInit => TimerInv
<1>. SUFFICES ASSUME TimerInit PROVE TimerInv
  OBVIOUS
<1>1. TimerTypeOK
  <2>1. alarms \in AlarmLists
    BY DEF TimerInit, AlarmLists
  <2>2. exec \in Seq(Alarms)
    BY EmptySeq DEF TimerInit
  <2>3. ahead \in [Alarms -> Int] /\ \A a \in Alarms : ahead[a] >= -1
    BY DEF TimerInit
  <2>4. Resting \in Act
    BY DEF Resting, Act, Pcs, Alarms
  <2>5. act \in [Actors -> Act]
    BY <2>4 DEF TimerInit
  <2>6. match \in 1 .. Wrap
    BY Names DEF TimerInit
  <2>7. /\ enabled = FALSE /\ stat = FALSE /\ missed = FALSE
        /\ tmrlock = Free /\ thermlock = Free /\ mode = "manual" /\ cstate = FALSE
    BY DEF TimerInit
  <2>. QED  BY <2>1, <2>2, <2>3, <2>5, <2>6, <2>7 DEF TimerTypeOK
<1>2. \A x \in Actors : act[x].pc = "idle" /\ act[x] = Resting
  BY DEF TimerInit, Resting
<1>3. LocksInv
  BY <1>2, Names DEF TimerInit, LocksInv, Polling, Setting, Triggering
<1>4. Ordered
  BY ListParts DEF TimerInit, Ordered
<1>5. ArmedInv
  BY <1>2, Names DEF TimerInit, ArmedInv, Armed, At
<1>6. PollInv
  <2>1. ToSet(alarms) = {}
    BY DEF TimerInit, ToSet
  <2>. QED  BY <1>2, <2>1, Names DEF TimerInit, PollInv, PollByMode
<1>. QED  BY <1>1, <1>3, <1>4, <1>5, <1>6 DEF TimerInv

\* The time passes: the comparator comes nearer as the first alarm does.
LEMMA TickInv == TimerInv /\ Tick => TimerInv'
<1>. SUFFICES ASSUME TimerInv, Tick PROVE TimerInv'
  OBVIOUS
<1>. USE DEF TimerInv
<1>0. UNCHANGED <<enabled, alarms, exec, tmrlock, thermlock, mode, cstate, act, missed>>
  BY DEF Tick
<1>1. /\ match' = IF match = 1 THEN Wrap ELSE match - 1
      /\ stat' = (stat \/ match = 1)
      /\ ahead' \in [Alarms -> Int]
      /\ \A a \in Alarms : ahead'[a] = IF a \in ToSet(alarms) /\ ahead[a] >= 0 THEN ahead[a] - 1 ELSE ahead[a]
  BY TypeFacts DEF Tick
<1>2. TimerTypeOK'
  <2>1. match' \in 1 .. Wrap /\ stat' \in BOOLEAN
    BY <1>1, Names DEF TimerTypeOK
  <2>2. \A a \in Alarms : ahead'[a] >= -1
    BY <1>1, TypeFacts
  <2>. QED  BY <1>0, <1>1, <2>1, <2>2 DEF TimerTypeOK
<1>3. LocksInv'
  BY <1>0 DEF LocksInv, Polling
<1>4. Ordered'
  <2>. SUFFICES ASSUME Len(alarms) = 2 PROVE ahead'[alarms[1]] <= ahead'[alarms[2]]
    BY <1>0 DEF Ordered
  <2>1. PICK a \in Alarms : alarms = <<a, Other(a)>>
    <3>1. Len(<<>>) # 2 /\ Len(<<Poll>>) # 2 /\ Len(<<Fan>>) # 2
      OBVIOUS
    <3>2. alarms = <<Poll, Fan>> \/ alarms = <<Fan, Poll>>
      BY <3>1 DEF TimerTypeOK, AlarmLists
    <3>. QED  BY <3>2 DEF Alarms, Other, Poll, Fan
  <2>2. /\ Other(a) \in Alarms /\ alarms[1] = a /\ alarms[2] = Other(a)
        /\ ToSet(alarms) = {a, Other(a)}
    BY <2>1, TwoAlarms, ListParts
  <2>3. ahead[a] <= ahead[Other(a)]
    BY <2>2 DEF Ordered
  <2>. QED  BY <1>1, <2>2, <2>3, TypeFacts
<1>5. ASSUME alarms # <<>>
      PROVE  LET h == Head(alarms)
             IN  /\ Now(h) => ahead'[h] <= 0
                 /\ Interrupts(ahead[h]) => Interrupts(ahead[h])' 
  <2>. DEFINE h == Head(alarms)
  <2>1. h \in Alarms /\ h \in ToSet(alarms)
    BY <1>5, FirstAlarm
  <2>2. Now(h) => ahead'[h] <= 0
    BY <1>1, <2>1, TypeFacts DEF Now
  <2>3. ASSUME Interrupts(ahead[h]) PROVE enabled' /\ (stat' \/ match' <= ahead'[h])
    <3>1. CASE stat \/ match = 1
      BY <1>0, <1>1, <2>3, <3>1 DEF Interrupts
    <3>2. CASE ~stat /\ match # 1
      BY <1>0, <1>1, <2>1, <2>3, <3>2, TypeFacts DEF Interrupts
    <3>. QED  BY <3>1, <3>2
  <2>. QED  BY <1>0, <2>2, <2>3 DEF Interrupts
<1>6. ArmedInv'
  BY <1>0, <1>5 DEF ArmedInv, Armed, At, Now
<1>7. PollInv'
  BY <1>0 DEF PollInv, PollByMode, Polled, Owed, At
<1>. QED  BY <1>2, <1>3, <1>4, <1>6, <1>7

\* One actor moves on, or calls nvkm_timer_alarm.
LEMMA Moves ==
  ASSUME TimerTypeOK, NEW x \in Actors, NEW pc \in Pcs, Goto(x, pc)
  PROVE  /\ act' \in [Actors -> Act]
         /\ act'[x].pc = pc /\ act'[x].alarm = act[x].alarm /\ act'[x].nsec = act[x].nsec
         /\ \A y \in Actors : y # x => act'[y] = act[y]
BY DEF TimerTypeOK, Act, Goto

LEMMA Calls ==
  ASSUME TimerTypeOK, NEW x \in Actors, NEW a \in Alarms, NEW n \in Nat, Call(x, a, n)
  PROVE  /\ act' \in [Actors -> Act]
         /\ act'[x].pc = "alarm" /\ act'[x].alarm = a /\ act'[x].nsec = n
         /\ \A y \in Actors : y # x => act'[y] = act[y]
BY DEF TimerTypeOK, Act, Pcs, Call

\* A change of the cstate is under way until who has made it goes on.
LEMMA OwedStays ==
  ASSUME NEW x \in Actors, act[x].pc # "update", \A y \in Actors : y # x => act'[y] = act[y]
  PROVE  Owed => Owed'
BY DEF Owed, At

\* nvkm_timer_alarm, the list: what was first before is first no more only if
\* it is the alarm itself.
LEMMA AlarmSetInv ==
  ASSUME TimerInv, NEW x \in Actors, AlarmSet(x)
  PROVE  TimerInv'
<1>. USE DEF TimerInv
<1>. DEFINE a == act[x].alarm
            n == act[x].nsec
            first == n # 0 /\ Head(alarms') = a
<1>0. a \in Alarms /\ n \in Nat
  BY TypeFacts
<1>1. /\ act[x].pc = "alarm" /\ tmrlock = Free /\ tmrlock' = x
      /\ UNCHANGED <<match, enabled, stat, exec, thermlock, mode, cstate, missed>>
      /\ alarms' = Reinsert(a, n) /\ ahead' = [ahead EXCEPT ![a] = n]
      /\ Goto(x, IF first THEN "first" ELSE "unlock")
  BY DEF AlarmSet, At, hwVars
<1>2. /\ alarms' \in AlarmLists /\ Ordered'
      /\ ahead' \in [Alarms -> Int] /\ \A b \in Alarms : ahead'[b] >= -1
      /\ n # 0 => alarms' # <<>>
      /\ alarms' # <<>> /\ ~first => alarms # <<>> /\ ahead[Head(alarms)] <= ahead'[Head(alarms')]
      /\ ToSet(alarms') = IF n = 0 THEN ToSet(alarms) \ {a} ELSE ToSet(alarms) \cup {a}
  BY <1>0, <1>1, ListSet
<1>3. /\ act' \in [Actors -> Act]
      /\ act'[x].pc = IF first THEN "first" ELSE "unlock"
      /\ act'[x].alarm = a /\ act'[x].nsec = n
      /\ \A y \in Actors : y # x => act'[y] = act[y]
  <2>1. (IF first THEN "first" ELSE "unlock") \in Pcs
    BY DEF Pcs, Setting
  <2>. HIDE DEF first
  <2>. QED  BY <1>1, <2>1, Moves
<1>. HIDE DEF a, n, first
<1>4. \A y \in Actors : act[y].pc \notin Setting \cup Triggering
  BY <1>1, Names DEF LocksInv
<1>5. TimerTypeOK'
  BY <1>1, <1>2, <1>3 DEF TimerTypeOK
<1>6. LocksInv'
  BY <1>1, <1>3, <1>4, Names DEF LocksInv, Polling, Setting, Triggering, a
<1>7. ArmedInv'
  <2>1. ASSUME NEW y \in Actors, act'[y].pc = "first"
        PROVE  alarms' # <<>> /\ Head(alarms') = act'[y].alarm
    BY <1>2, <1>3, <1>4, <2>1 DEF Setting, first
  <2>2. act'[Irq].pc \notin Triggering
    BY <1>3, <1>4, Names DEF Triggering
  <2>3. ASSUME ~missed', act'[Irq].pc # "lock", \A y \in Actors : act'[y].pc # "first", alarms' # <<>>
        PROVE  Interrupts(ahead[Head(alarms)])'
    <3>1. ~first
      BY <1>3, <2>3
    <3>2. alarms # <<>> /\ ahead[Head(alarms)] <= ahead'[Head(alarms')]
      BY <1>2, <2>3, <3>1
    <3>3. act[Irq].pc # "lock" /\ act[Irq].pc \notin Triggering /\ \A y \in Actors : act[y].pc # "first"
      BY <1>1, <1>3, <1>4, <2>3, Names DEF Setting
    <3>4. Interrupts(ahead[Head(alarms)])
      BY <1>1, <2>3, <3>2, <3>3 DEF ArmedInv, Armed, At
    <3>5. ahead[Head(alarms)] \in Int /\ ahead'[Head(alarms')] \in Int
      <4>1. Head(alarms) \in Alarms /\ Head(alarms') \in Alarms
        BY <1>2, <2>3, <3>2 DEF AlarmLists, Alarms, TimerTypeOK
      <4>. QED  BY <1>2, <4>1, TypeFacts
    <3>. QED  BY <1>1, <3>2, <3>4, <3>5, TypeFacts DEF Interrupts
  <2>. QED  BY <2>1, <2>2, <2>3 DEF ArmedInv, Armed, At, Triggering
<1>8. PollInv'
  <2>0. Owed => Owed'
    BY <1>1, <1>3, OwedStays
  <2>1. CASE a = Poll
    <3>1. thermlock = x /\ thermlock' = x
      BY <1>1, <2>1 DEF LocksInv, Polling, a
    <3>2. n = IF mode = "auto" THEN Period ELSE 0
      BY <3>1 DEF PollInv, n
    <3>3. Poll \in ToSet(alarms') <=> mode = "auto"
      BY <1>2, <2>1, <3>2, Names
    <3>4. x # Free
      BY Names
    <3>. QED  BY <1>1, <1>3, <3>1, <3>2, <3>3, <3>4 DEF PollInv, PollByMode, Polled
  <2>2. CASE a # Poll
    <3>1. Poll \in ToSet(alarms') <=> Poll \in ToSet(alarms)
      BY <1>2, <2>2
    <3>2. thermlock # x
      BY <2>2 DEF LocksInv, Polling, a
    <3>. QED  BY <1>1, <1>3, <2>0, <3>1, <3>2 DEF PollInv, PollByMode, Polled
  <2>. QED  BY <2>1, <2>2
<1>. QED  BY <1>2, <1>5, <1>6, <1>7, <1>8

\* The rest of it: the comparator is set for the alarm, if that is first now.
LEMMA AlarmDoneInv ==
  ASSUME TimerInv, NEW x \in Actors, AlarmDone(x)
  PROVE  TimerInv'
<1>. USE DEF TimerInv
<1>. DEFINE a == act[x].alarm
            next == [Resting EXCEPT !.pc = Home(x)]
<1>0. a \in Alarms /\ next \in Act /\ next.pc = IF x = Irq THEN "exec" ELSE "idle"
  BY TypeFacts DEF Resting, Act, Pcs, Alarms, Home
<1>1. /\ act[x].pc \in Setting
      /\ IF act[x].pc = "first" THEN AlarmInit(ahead[a]) /\ missed' = (missed \/ Now(a))
         ELSE UNCHANGED <<match, enabled, missed>>
      /\ tmrlock' = Free
      /\ thermlock' = IF thermlock = x THEN Free ELSE thermlock
      /\ act' = [act EXCEPT ![x] = next]
      /\ UNCHANGED <<stat, alarms, ahead, exec, mode, cstate>>
  BY DEF AlarmDone, At, Setting
<1>2. act' \in [Actors -> Act] /\ act'[x] = next /\ \A y \in Actors : y # x => act'[y] = act[y]
  BY <1>0, <1>1 DEF TimerTypeOK
<1>. HIDE DEF a, next
<1>3. ahead[a] \in Int
  BY <1>0, TypeFacts
<1>4. act[x].pc = "first" =>
        enabled' /\ match' \in 1 .. Wrap /\ (ahead[a] > 0 => match' <= ahead[a])
  BY <1>1, <1>3, Comparator DEF AlarmInit
<1>5. tmrlock = x /\ \A y \in Actors : y # x => act[y].pc \notin Setting \cup Triggering
  BY <1>1 DEF LocksInv
<1>6. TimerTypeOK'
  <2>1. match' \in 1 .. Wrap /\ enabled' \in BOOLEAN /\ missed' \in BOOLEAN
    <3>1. CASE act[x].pc = "first"
      BY <1>1, <1>4, <3>1 DEF AlarmInit, TimerTypeOK, Now
    <3>2. CASE act[x].pc # "first"
      BY <1>1, <3>2 DEF TimerTypeOK
    <3>. QED  BY <3>1, <3>2
  <2>. QED  BY <1>1, <1>2, <2>1 DEF TimerTypeOK
<1>7. LocksInv'
  BY <1>0, <1>1, <1>2, <1>5, Names DEF LocksInv, Polling, Setting, Triggering
<1>8. Ordered'
  BY <1>1 DEF Ordered
<1>9. ArmedInv'
  <2>1. \A y \in Actors : act'[y].pc \notin Setting \cup Triggering
    BY <1>0, <1>2, <1>5 DEF Setting, Triggering
  <2>2. ASSUME ~missed', act'[Irq].pc # "lock", alarms # <<>>
        PROVE  Interrupts(ahead[Head(alarms)])'
    <3>1. CASE act[x].pc = "first"
      <4>1. Head(alarms) = a
        BY <3>1 DEF ArmedInv, At, a
      <4>2. ~(ahead[a] <= 0)
        BY <1>1, <2>2, <3>1 DEF Now
      <4>. QED  BY <1>1, <1>3, <1>4, <3>1, <4>1, <4>2 DEF Interrupts
    <3>2. CASE act[x].pc # "first"
      <4>1. \A y \in Actors : act[y].pc # "first"
        BY <1>5, <3>2 DEF Setting
      <4>2. act[Irq].pc # "lock" /\ act[Irq].pc \notin Triggering
        <5>1. CASE x = Irq
          BY <1>1, <5>1 DEF Setting, Triggering
        <5>2. CASE x # Irq
          BY <1>2, <1>5, <2>2, <5>2, Names
        <5>. QED  BY <5>1, <5>2
      <4>. QED  BY <1>1, <2>2, <3>2, <4>1, <4>2 DEF ArmedInv, Armed, At, Interrupts
    <3>. QED  BY <3>1, <3>2
  <2>. QED  BY <1>1, <2>1, <2>2, Names DEF ArmedInv, Armed, At, Setting, Triggering
<1>10. PollInv'
  <2>0. Owed => Owed'
    BY <1>1, <1>2, OwedStays DEF Setting
  <2>1. CASE thermlock = x
    <3>1. Polled <=> mode = "auto"
      BY <1>1, <2>1 DEF PollInv
    <3>. QED  BY <1>1, <2>1, <3>1, Names DEF PollInv, PollByMode, Polled, TimerTypeOK
  <2>2. CASE thermlock # x
    BY <1>1, <1>2, <2>0, <2>2 DEF PollInv, PollByMode, Polled
  <2>. QED  BY <2>1, <2>2
<1>. QED  BY <1>6, <1>7, <1>8, <1>9, <1>10

\* nvkm_therm_update, up to its call of nvkm_timer_alarm.
\* The steps that set no alarm: nvkm_therm_cstate, and nvkm_therm_update when it
\* rules.
LEMMA CstateRules ==
  ASSUME TimerInv, NEW x \in Actors, act[x].pc \in {"idle", "update", "exec"},
         NEW pc \in {"idle", "update", "exec"}, x # Irq => pc # "exec", Goto(x, pc),
         UNCHANGED <<match, enabled, stat, alarms, ahead, tmrlock, thermlock, missed>>,
         mode' \in {"auto", "manual"}, cstate' \in BOOLEAN, exec' \in Seq(Alarms),
         thermlock = Free \/ mode' = mode, PollByMode'
  PROVE  TimerInv'
<1>. USE DEF TimerInv
<1>1. /\ act' \in [Actors -> Act]
      /\ act'[x].pc = pc /\ act'[x].alarm = act[x].alarm /\ act'[x].nsec = act[x].nsec
      /\ \A y \in Actors : y # x => act'[y] = act[y]
  BY Moves DEF Pcs
<1>2. TimerTypeOK'
  BY <1>1 DEF TimerTypeOK
<1>3. LocksInv'
  BY <1>1, Names DEF LocksInv, Polling, Setting, Triggering
<1>4. Ordered'
  BY DEF Ordered
<1>5. ArmedInv'
  <2>1. \A y \in Actors : At(y, "first")' <=> At(y, "first")
    BY <1>1 DEF At
  <2>2. \A y \in Actors : At(y, "first") => act'[y].alarm = act[y].alarm
    BY <1>1
  <2>3. /\ At(Irq, "init")' => At(Irq, "init")
        /\ At(Irq, "again")' => At(Irq, "again")
        /\ act'[Irq].pc \notin {"lock"} \cup Triggering => act[Irq].pc \notin {"lock"} \cup Triggering
    BY <1>1, Names DEF At, Triggering
  <2>4. Armed' = Armed /\ (Armed => Armed')
    BY DEF Armed, Interrupts
  <2>5. At(Irq, "again")' =>
          alarms' # <<>> /\ (Interrupts(ahead[Head(alarms)])' \/ Now(Head(alarms))')
    BY <2>3 DEF ArmedInv, Interrupts, Now
  <2>6. \A y \in Actors : At(y, "first")' => alarms' # <<>> /\ Head(alarms') = act'[y].alarm
    BY <2>1, <2>2 DEF ArmedInv
  <2>7. At(Irq, "init")' => alarms' # <<>>
    BY <2>3 DEF ArmedInv
  <2>8. ~missed' /\ act'[Irq].pc \notin {"lock"} \cup Triggering
          /\ (\A y \in Actors : ~At(y, "first")') => Armed'
    BY <2>1, <2>3, <2>4 DEF ArmedInv
  <2>. QED  BY <2>5, <2>6, <2>7, <2>8 DEF ArmedInv
<1>6. PollInv'
  <2>1. thermlock # x
    BY DEF LocksInv, Polling, Setting
  <2>. QED  BY <1>1, <2>1, Names DEF PollInv, Polled
<1>. QED  BY <1>2, <1>3, <1>4, <1>5, <1>6

LEMMA ThermUpdateInv ==
  ASSUME TimerInv, NEW x \in Actors, act[x].pc \in {"idle", "update", "exec"},
         x # Irq => act[x].pc # "exec", x = Irq => act[x].pc = "exec",
         NEW m \in {"same", "auto", "manual"}, ThermUpdate(x, m),
         exec' \in Seq(Alarms)
  PROVE  TimerInv'
<1>. USE DEF TimerInv
<1>. DEFINE n == IF mode' = "auto" THEN Period ELSE 0
<1>0. CASE mode' = "auto" /\ cstate
  <2>1. /\ mode' \in {"auto", "manual"} /\ cstate' \in BOOLEAN /\ thermlock = Free /\ cstate'
        /\ UNCHANGED <<match, enabled, stat, alarms, ahead, tmrlock, thermlock, missed>>
        /\ Goto(x, Home(x))
    BY <1>0 DEF ThermUpdate, hwVars, TimerTypeOK
  <2>2. Home(x) \in {"idle", "update", "exec"} /\ (x # Irq => Home(x) # "exec")
    BY DEF Home
  <2>3. PollByMode'
    BY <1>0, <2>1 DEF PollByMode
  <2>. QED  BY <2>1, <2>2, <2>3, CstateRules
<1>. SUFFICES ASSUME ~(mode' = "auto" /\ cstate) PROVE TimerInv'
  BY <1>0
<1>1. /\ thermlock = Free /\ thermlock' = x
      /\ mode' \in {"auto", "manual"}
      /\ Call(x, Poll, n)
      /\ UNCHANGED <<match, enabled, stat, alarms, ahead, tmrlock, cstate, missed>>
  BY DEF ThermUpdate, hwVars, TimerTypeOK
<1>2. /\ act' \in [Actors -> Act]
      /\ act'[x].pc = "alarm" /\ act'[x].alarm = Poll /\ act'[x].nsec = n
      /\ \A y \in Actors : y # x => act'[y] = act[y]
  <2>1. n \in Nat /\ Poll \in Alarms
    BY Names DEF Alarms
  <2>. HIDE DEF n
  <2>. QED  BY <1>1, <2>1, Calls
<1>3. TimerTypeOK'
  BY <1>1, <1>2 DEF TimerTypeOK
<1>4. LocksInv'
  BY <1>1, <1>2, Names DEF LocksInv, Polling, Setting, Triggering
<1>5. Ordered'
  BY <1>1 DEF Ordered
<1>6. ArmedInv'
  <2>1. \A y \in Actors : act'[y].pc # act[y].pc => y = x /\ act'[y].pc = "alarm"
    BY <1>2
  <2>2. \A y \in Actors : At(y, "first")' => At(y, "first") /\ act'[y].alarm = act[y].alarm
    BY <1>2, <2>1 DEF At
  <2>3. \A y \in Actors : At(y, "first") => At(y, "first")'
    BY <1>2 DEF At
  <2>4. /\ At(Irq, "init")' => At(Irq, "init")
        /\ At(Irq, "again")' => At(Irq, "again")
        /\ act'[Irq].pc \notin {"lock"} \cup Triggering => act[Irq].pc \notin {"lock"} \cup Triggering
    BY <2>1, Names DEF At, Triggering
  <2>5. /\ Armed => Armed'
        /\ Interrupts(ahead[Head(alarms)]) => Interrupts(ahead[Head(alarms)])'
        /\ Now(Head(alarms)) => Now(Head(alarms))'
    BY <1>1 DEF Armed, Interrupts, Now
  <2>6. \A y \in Actors : At(y, "first")' => alarms' # <<>> /\ Head(alarms') = act'[y].alarm
    BY <1>1, <2>2 DEF ArmedInv
  <2>7. At(Irq, "init")' => alarms' # <<>>
    BY <1>1, <2>4 DEF ArmedInv
  <2>8. At(Irq, "again")' =>
          alarms' # <<>> /\ (Interrupts(ahead[Head(alarms)])' \/ Now(Head(alarms))')
    BY <1>1, <2>4, <2>5 DEF ArmedInv
  <2>9. ~missed' /\ act'[Irq].pc \notin {"lock"} \cup Triggering
          /\ (\A y \in Actors : ~At(y, "first")') => Armed'
    BY <1>1, <2>3, <2>4, <2>5 DEF ArmedInv
  <2>. QED  BY <2>6, <2>7, <2>8, <2>9 DEF ArmedInv
<1>7. PollInv'
  BY <1>1, <1>2, Names DEF PollInv, PollByMode, Polled, Setting
<1>. QED  BY <1>3, <1>4, <1>5, <1>6, <1>7

\* nvkm_therm_cstate.
LEMMA CstateInv ==
  ASSUME TimerInv, NEW x \in Moders, SetCstate(x) \/ CstateUpdate(x)
  PROVE  TimerInv'
<1>1. x \in Actors /\ x # Irq /\ exec' \in Seq(Alarms)
  BY Names DEF SetCstate, CstateUpdate, TimerInv, TimerTypeOK
<1>2. CASE SetCstate(x)
  <2>1. /\ act[x].pc = "idle" /\ Goto(x, "update") /\ cstate' \in BOOLEAN /\ mode' = mode
        /\ UNCHANGED <<match, enabled, stat, alarms, ahead, exec, tmrlock, thermlock, missed>>
    BY <1>2, TimerAssumption DEF SetCstate, At, hwVars
  <2>2. Owed'
    BY <1>1, <2>1, Moves DEF Owed, At, Pcs, TimerInv
  <2>3. PollByMode'
    BY <2>1, <2>2 DEF PollByMode, TimerInv, PollInv
  <2>4. mode' \in {"auto", "manual"}
    BY <2>1 DEF TimerInv, TimerTypeOK
  <2>. QED  BY <1>1, <2>1, <2>3, <2>4, CstateRules
<1>3. CASE CstateUpdate(x)
  BY <1>1, <1>3, ThermUpdateInv DEF CstateUpdate, At
<1>. QED  BY <1>2, <1>3

LEMMA FanModeInv ==
  ASSUME TimerInv, NEW x \in Moders, FanMode(x)
  PROVE  TimerInv'
<1>1. x \in Actors /\ x # Irq /\ act[x].pc = "idle"
  BY Names DEF FanMode, At
<1>2. PICK m \in {"auto", "manual"} : ThermUpdate(x, m)
  BY DEF FanMode
<1>3. exec' \in Seq(Alarms)
  BY DEF FanMode, TimerInv, TimerTypeOK
<1>. QED  BY <1>1, <1>2, <1>3, ThermUpdateInv

\* The one-shot alarm is set or cancelled, by its thread or by its callback.
LEMMA FanCall ==
  ASSUME TimerInv, NEW x \in Actors, act[x].pc \in {"idle", "exec"},
         NEW n \in Delays, Call(x, Fan, n), exec' \in Seq(Alarms),
         Poll \in ToSet(exec) => Poll \in ToSet(exec'),
         UNCHANGED <<hwVars, alarms, ahead, tmrlock, thermlock, mode, cstate, missed>>
  PROVE  TimerInv'
<1>. USE DEF TimerInv
<1>1. UNCHANGED <<match, enabled, stat, alarms, ahead, tmrlock, thermlock, mode, cstate, missed>>
  BY DEF hwVars
<1>2. /\ act' \in [Actors -> Act]
      /\ act'[x].pc = "alarm" /\ act'[x].alarm = Fan /\ act'[x].nsec = n
      /\ \A y \in Actors : y # x => act'[y] = act[y]
  BY Names, Calls DEF Alarms
<1>3. TimerTypeOK'
  BY <1>1, <1>2 DEF TimerTypeOK
<1>4. LocksInv'
  BY <1>1, <1>2, Names DEF LocksInv, Polling, Setting, Triggering, Poll, Fan
<1>5. Ordered'
  BY <1>1 DEF Ordered
<1>6. ArmedInv'
  <2>1. \A y \in Actors : act'[y].pc # act[y].pc => y = x /\ act'[y].pc = "alarm"
    BY <1>2
  <2>2. \A y \in Actors : At(y, "first")' => At(y, "first") /\ act'[y].alarm = act[y].alarm
    BY <1>2, <2>1 DEF At
  <2>3. \A y \in Actors : At(y, "first") => At(y, "first")'
    BY <1>2 DEF At
  <2>4. /\ At(Irq, "init")' => At(Irq, "init")
        /\ At(Irq, "again")' => At(Irq, "again")
        /\ act'[Irq].pc \notin {"lock"} \cup Triggering => act[Irq].pc \notin {"lock"} \cup Triggering
    BY <2>1, Names DEF At, Triggering
  <2>5. /\ Armed => Armed'
        /\ Interrupts(ahead[Head(alarms)]) => Interrupts(ahead[Head(alarms)])'
        /\ Now(Head(alarms)) => Now(Head(alarms))'
    BY <1>1 DEF Armed, Interrupts, Now
  <2>6. \A y \in Actors : At(y, "first")' => alarms' # <<>> /\ Head(alarms') = act'[y].alarm
    BY <1>1, <2>2 DEF ArmedInv
  <2>7. At(Irq, "init")' => alarms' # <<>>
    BY <1>1, <2>4 DEF ArmedInv
  <2>8. At(Irq, "again")' =>
          alarms' # <<>> /\ (Interrupts(ahead[Head(alarms)])' \/ Now(Head(alarms))')
    BY <1>1, <2>4, <2>5 DEF ArmedInv
  <2>9. ~missed' /\ act'[Irq].pc \notin {"lock"} \cup Triggering
          /\ (\A y \in Actors : ~At(y, "first")') => Armed'
    BY <1>1, <2>3, <2>4, <2>5 DEF ArmedInv
  <2>. QED  BY <2>6, <2>7, <2>8, <2>9 DEF ArmedInv
<1>7. PollInv'
  <2>1. thermlock # x
    BY DEF LocksInv, Polling, Setting
  <2>2. Owed => Owed'
    BY <1>2, OwedStays
  <2>. QED  BY <1>1, <1>2, <2>1, <2>2, Names DEF PollInv, PollByMode, Polled
<1>. QED  BY <1>3, <1>4, <1>5, <1>6, <1>7

LEMMA SetFanInv ==
  ASSUME TimerInv, NEW x \in Setters, SetFan(x)
  PROVE  TimerInv'
<1>1. x \in Actors /\ act[x].pc = "idle"
  BY Names DEF SetFan, At
<1>2. PICK n \in Delays : Call(x, Fan, n)
  BY DEF SetFan
<1>3. UNCHANGED <<hwVars, alarms, ahead, exec, tmrlock, thermlock, mode, cstate, missed>>
  BY DEF SetFan
<1>4. exec' \in Seq(Alarms)
  BY <1>3 DEF TimerInv, TimerTypeOK
<1>. QED  BY <1>1, <1>2, <1>3, <1>4, FanCall

\* What has been taken from the front of exec, and put there.
LEMMA ExecTail ==
  ASSUME NEW s \in Seq(Alarms), s # <<>>
  PROVE  /\ Tail(s) \in Seq(Alarms) /\ Head(s) \in Alarms
         /\ ToSet(s) = {Head(s)} \cup ToSet(Tail(s))
<1>1. Len(s) \in Nat /\ Len(s) > 0
  BY EmptySeq
<1>2. /\ Tail(s) \in Seq(Alarms) /\ Head(s) \in Alarms /\ Head(s) = s[1]
      /\ Len(Tail(s)) = Len(s) - 1 /\ \A i \in 1 .. Len(Tail(s)) : Tail(s)[i] = s[i + 1]
  BY HeadTailProperties
<1>3. DOMAIN s = 1 .. Len(s) /\ DOMAIN Tail(s) = 1 .. Len(s) - 1
  BY <1>2, LenProperties
<1>4. ASSUME NEW v \in ToSet(s) PROVE v \in {Head(s)} \cup ToSet(Tail(s))
  <2>1. PICK i \in 1 .. Len(s) : v = s[i]
    BY <1>3, <1>4 DEF ToSet
  <2>2. CASE i = 1
    BY <1>2, <2>1, <2>2
  <2>3. CASE i # 1
    <3>1. i - 1 \in DOMAIN Tail(s) /\ Tail(s)[i - 1] = v
      BY <1>1, <1>2, <1>3, <2>1, <2>3
    <3>. QED  BY <3>1 DEF ToSet
  <2>. QED  BY <2>2, <2>3
<1>5. Head(s) \in ToSet(s)
  BY <1>1, <1>2, <1>3 DEF ToSet
<1>6. ASSUME NEW v \in ToSet(Tail(s)) PROVE v \in ToSet(s)
  <2>1. PICK i \in 1 .. Len(s) - 1 : v = Tail(s)[i]
    BY <1>3 DEF ToSet
  <2>2. i + 1 \in DOMAIN s /\ s[i + 1] = v
    BY <1>1, <1>2, <1>3, <2>1
  <2>. QED  BY <2>2 DEF ToSet
<1>. QED  BY <1>2, <1>4, <1>5, <1>6

LEMMA ExecCons ==
  ASSUME NEW s \in Seq(Alarms), NEW a \in Alarms
  PROVE  /\ <<a>> \o s \in Seq(Alarms)
         /\ ToSet(<<a>> \o s) = {a} \cup ToSet(s)
<1>. DEFINE t == <<a>> \o s
<1>0. <<a>> \in Seq(Alarms) /\ Len(<<a>>) = 1 /\ <<a>>[1] = a
  BY ListParts
<1>1. /\ t \in Seq(Alarms) /\ Len(t) = Len(s) + 1 /\ Len(s) \in Nat
      /\ t[1] = a /\ \A i \in 2 .. Len(s) + 1 : t[i] = s[i - 1]
  <2>1. /\ t \in Seq(Alarms) /\ Len(t) = 1 + Len(s) /\ Len(s) \in Nat
        /\ \A i \in 1 .. 1 + Len(s) : t[i] = IF i <= 1 THEN <<a>>[i] ELSE s[i - 1]
    BY <1>0, ConcatProperties, LenProperties
  <2>. HIDE DEF t
  <2>. QED  BY <1>0, <2>1
<1>. HIDE DEF t
<1>2. t # <<>>
  BY <1>1, EmptySeq
<1>3. Head(t) = a /\ Tail(t) \in Seq(Alarms) /\ Len(Tail(t)) = Len(s)
      /\ \A i \in 1 .. Len(s) : Tail(t)[i] = s[i]
  BY <1>1, <1>2, HeadTailProperties
<1>4. Tail(t) = s
  BY <1>3, SeqEqual
<1>. QED  BY <1>1, <1>2, <1>3, <1>4, ExecTail DEF t

LEMMA IrqExecInv ==
  ASSUME TimerInv, IrqExec
  PROVE  TimerInv'
<1>. USE DEF TimerInv
<1>1. Irq \in Actors /\ act[Irq].pc = "exec" /\ exec # <<>> /\ exec' = Tail(exec)
  BY Names DEF IrqExec, At
<1>2. /\ exec' \in Seq(Alarms)
      /\ ToSet(exec) = {Head(exec)} \cup ToSet(exec')
  BY <1>1, ExecTail DEF TimerTypeOK
<1>3. CASE Head(exec) = Poll
  <2>1. ThermUpdate(Irq, "same")
    BY <1>3 DEF IrqExec
  <2>. QED  BY <1>1, <1>2, <2>1, ThermUpdateInv
<1>4. CASE Head(exec) # Poll
  <2>1. UNCHANGED <<hwVars, alarms, ahead, tmrlock, thermlock, mode, cstate, missed>>
    BY <1>4 DEF IrqExec
  <2>2. Poll \in ToSet(exec) => Poll \in ToSet(exec')
    BY <1>2, <1>4
  <2>3. CASE UNCHANGED act
    <3>1. UNCHANGED <<match, enabled, stat, alarms, ahead, tmrlock, thermlock, mode, cstate, missed, act>>
      BY <2>1, <2>3 DEF hwVars
    <3>2. TimerTypeOK' /\ LocksInv' /\ Ordered'
      BY <1>2, <3>1 DEF TimerTypeOK, LocksInv, Polling, Ordered
    <3>3. ArmedInv'
      BY <3>1 DEF ArmedInv, Armed, At, Now, Interrupts
    <3>4. PollInv'
      BY <2>2, <3>1 DEF PollInv, PollByMode, Polled, Owed, At
    <3>. QED  BY <3>2, <3>3, <3>4
  <2>4. CASE \E n \in Delays \ {0} : Call(Irq, Fan, n)
    <3>1. PICK n \in Delays : Call(Irq, Fan, n)
      BY <2>4
    <3>. QED  BY <1>1, <1>2, <2>1, <2>2, <3>1, FanCall
  <2>. QED  BY <1>4, <2>3, <2>4 DEF IrqExec
<1>. QED  BY <1>3, <1>4

\* nv04_timer_intr.
LEMMA IrqEnds ==
  ASSUME TimerInv, IrqStart \/ IrqLock \/ IrqEnd
  PROVE  TimerInv'
<1>. USE DEF TimerInv
<1>0. UNCHANGED <<match, enabled, alarms, ahead, exec, thermlock, mode, cstate, missed>>
  BY DEF IrqStart, IrqLock, IrqEnd, hwVars
<1>1. /\ act[Irq].pc \in {"idle", "lock", "exec"} /\ stat' \in BOOLEAN
      /\ \/ act[Irq].pc = "idle" /\ Goto(Irq, "lock") /\ UNCHANGED tmrlock
         \/ act[Irq].pc = "lock" /\ Goto(Irq, "scan") /\ tmrlock = Free /\ tmrlock' = Irq /\ UNCHANGED stat
         \/ act[Irq].pc = "exec" /\ Goto(Irq, "idle") /\ UNCHANGED <<tmrlock, stat>>
  BY DEF IrqStart, IrqLock, IrqEnd, At, hwVars, TimerTypeOK
<1>2. PICK pc \in {"lock", "scan", "idle"} : Goto(Irq, pc)
  BY <1>1
<1>3. /\ act' \in [Actors -> Act]
      /\ act'[Irq].pc = pc /\ act'[Irq].alarm = act[Irq].alarm /\ act'[Irq].nsec = act[Irq].nsec
      /\ \A y \in Actors : y # Irq => act'[y] = act[y]
  BY <1>2, Names, Moves DEF Pcs, Triggering
<1>4. \/ act[Irq].pc = "idle" /\ act'[Irq].pc = "lock" /\ UNCHANGED tmrlock
      \/ act[Irq].pc = "lock" /\ act'[Irq].pc = "scan" /\ tmrlock = Free /\ tmrlock' = Irq
      \/ act[Irq].pc = "exec" /\ act'[Irq].pc = "idle" /\ UNCHANGED <<tmrlock, stat>>
  <2>1. \A p \in {"lock", "scan", "idle"} : Goto(Irq, p) => act'[Irq].pc = p
    BY Names, Moves DEF Pcs, Triggering
  <2>. QED  BY <1>1, <2>1
<1>5. TimerTypeOK'
  BY <1>0, <1>1, <1>3, <1>4, Names DEF TimerTypeOK
<1>6. LocksInv'
  BY <1>0, <1>3, <1>4, Names DEF LocksInv, Polling, Setting, Triggering
<1>7. Ordered'
  BY <1>0 DEF Ordered
<1>8. ArmedInv'
  <2>1. \A y \in Actors : At(y, "first")' <=> At(y, "first")
    BY <1>3, <1>4 DEF At
  <2>2. \A y \in Actors : At(y, "first")' => alarms' # <<>> /\ Head(alarms') = act'[y].alarm
    BY <1>0, <1>3, <2>1 DEF ArmedInv
  <2>3. ~At(Irq, "init")' /\ ~At(Irq, "again")'
    BY <1>4 DEF At
  <2>4. ASSUME act'[Irq].pc \notin {"lock"} \cup Triggering
        PROVE  act[Irq].pc \notin {"lock"} \cup Triggering /\ UNCHANGED stat
    BY <1>4, <2>4 DEF Triggering
  <2>5. UNCHANGED stat /\ Armed => Armed'
    BY <1>0 DEF Armed, Interrupts
  <2>. QED  BY <1>0, <2>1, <2>2, <2>3, <2>4, <2>5 DEF ArmedInv
<1>9. PollInv'
  <2>1. Owed => Owed'
    BY <1>3, <1>4, Names, OwedStays
  <2>. QED  BY <1>0, <1>3, <1>4, <2>1, Names DEF PollInv, PollByMode, Polled, Setting
<1>. QED  BY <1>5, <1>6, <1>7, <1>8, <1>9

\* The first alarm is put on exec.
LEMMA DueList ==
  ASSUME TimerInv, alarms # <<>>, Due
  PROVE  /\ alarms' \in AlarmLists /\ exec' \in Seq(Alarms) /\ Ordered'
         /\ ahead' \in [Alarms -> Int] /\ \A a \in Alarms : ahead'[a] >= -1
         /\ Poll \in ToSet(alarms') => Poll \in ToSet(alarms)
         /\ ToSet(alarms) \cup ToSet(exec) = ToSet(alarms') \cup ToSet(exec')
<1>. DEFINE h == Head(alarms)
<1>1. h \in Alarms /\ alarms' \in AlarmLists /\ ToSet(alarms) = {h} \cup ToSet(alarms') /\ Len(alarms') # 2
  BY FirstAlarm DEF TimerInv, Due
<1>2. exec' \in Seq(Alarms) /\ ToSet(exec') = {h} \cup ToSet(exec)
  BY <1>1, ExecCons DEF TimerInv, TimerTypeOK, Due
<1>3. ahead' \in [Alarms -> Int] /\ \A a \in Alarms : ahead'[a] >= -1
  BY <1>1, TypeFacts DEF TimerInv, TimerTypeOK, Due
<1>. QED  BY <1>1, <1>2, <1>3 DEF Ordered

\* nvkm_timer_alarm_trigger, under the lock.
LEMMA TriggerInv ==
  ASSUME TimerInv, IrqScan \/ IrqInit \/ IrqAgain \/ IrqEmpty
  PROVE  TimerInv'
<1>. USE DEF TimerInv
<1>0. Irq \in Actors /\ act[Irq].pc \in Triggering
  BY Names DEF IrqScan, IrqInit, IrqAgain, IrqEmpty, At, Triggering
<1>1. tmrlock = Irq /\ \A y \in Actors : y # Irq => act[y].pc \notin Setting \cup Triggering
  BY <1>0 DEF LocksInv
<1>2. UNCHANGED <<stat, thermlock, mode, cstate, missed>>
  BY DEF IrqScan, IrqInit, IrqAgain, IrqEmpty, hwVars
<1>3. ASSUME NEW pc \in {"scan", "init", "again", "exec"}, Goto(Irq, pc) \/ (pc = act[Irq].pc /\ UNCHANGED act),
             tmrlock' = (IF pc = "exec" THEN Free ELSE Irq)
      PROVE  /\ act' \in [Actors -> Act] /\ act'[Irq].pc = pc
             /\ \A y \in Actors : y # Irq => act'[y] = act[y]
             /\ \A y \in Actors : act'[y].pc \notin Setting
             /\ tmrlock' \in Actors \cup {Free}
             /\ LocksInv'
  <2>1. pc \in Pcs
    BY DEF Pcs, Triggering
  <2>2. /\ act' \in [Actors -> Act] /\ act'[Irq].pc = pc
        /\ \A y \in Actors : y # Irq => act'[y] = act[y]
    <3>1. CASE Goto(Irq, pc)
      BY <1>0, <2>1, <3>1, Moves
    <3>2. CASE pc = act[Irq].pc /\ UNCHANGED act
      BY <3>2 DEF TimerTypeOK
    <3>. QED  BY <1>3, <3>1, <3>2
  <2>3. \A y \in Actors : act'[y].pc \notin Setting
    BY <1>1, <2>2 DEF Setting
  <2>4. LocksInv'
    BY <1>0, <1>1, <1>2, <1>3, <2>2, Names DEF LocksInv, Polling, Setting, Triggering
  <2>. QED  BY <1>0, <1>3, <2>2, <2>3, <2>4
<1>4. PollByMode' /\ (\A y \in Actors : act'[y].pc \notin Setting)
        /\ (\A y \in Actors : y # Irq => act'[y] = act[y]) => PollInv'
  <2>1. thermlock # Irq
    BY <1>0 DEF LocksInv, Polling, Setting, Triggering
  <2>. QED  BY <1>2, <2>1 DEF PollInv
<1>9. (\A y \in Actors : y # Irq => act'[y] = act[y]) => (Owed => Owed')
  BY <1>0, OwedStays DEF Triggering
<1>5. CASE IrqScan
  <2>1. act[Irq].pc = "scan" /\ alarms # <<>> /\ UNCHANGED <<match, enabled, tmrlock>>
    BY <1>5 DEF IrqScan, At, hwVars
  <2>2. CASE Now(Head(alarms))
    <3>1. Due /\ UNCHANGED act
      BY <1>5, <2>2 DEF IrqScan
    <3>2. /\ alarms' \in AlarmLists /\ exec' \in Seq(Alarms) /\ Ordered'
          /\ ahead' \in [Alarms -> Int] /\ \A a \in Alarms : ahead'[a] >= -1
          /\ Poll \in ToSet(alarms') => Poll \in ToSet(alarms)
          /\ ToSet(alarms) \cup ToSet(exec) = ToSet(alarms') \cup ToSet(exec')
      BY <2>1, <3>1, DueList
    <3>3. /\ act' \in [Actors -> Act] /\ act'[Irq].pc = "scan" /\ LocksInv'
          /\ \A y \in Actors : act'[y].pc \notin Setting
          /\ \A y \in Actors : y # Irq => act'[y] = act[y]
      BY <1>1, <1>3, <2>1, <3>1
    <3>4. TimerTypeOK'
      BY <1>2, <2>1, <3>2, <3>3 DEF TimerTypeOK
    <3>5. ArmedInv'
      BY <3>3 DEF ArmedInv, At, Setting, Triggering
    <3>6. PollInv'
      BY <1>2, <1>4, <1>9, <3>2, <3>3 DEF PollInv, PollByMode
    <3>. QED  BY <3>2, <3>3, <3>4, <3>5, <3>6
  <2>3. CASE ~Now(Head(alarms))
    <3>1. Goto(Irq, "init") /\ UNCHANGED <<alarms, exec, ahead>>
      BY <1>5, <2>3 DEF IrqScan
    <3>2. /\ act' \in [Actors -> Act] /\ act'[Irq].pc = "init" /\ LocksInv'
          /\ \A y \in Actors : act'[y].pc \notin Setting
          /\ \A y \in Actors : y # Irq => act'[y] = act[y]
      BY <1>1, <1>3, <2>1, <3>1
    <3>3. TimerTypeOK' /\ Ordered'
      BY <1>2, <2>1, <3>1, <3>2 DEF TimerTypeOK, Ordered
    <3>4. ArmedInv'
      BY <2>1, <3>1, <3>2 DEF ArmedInv, At, Setting, Triggering
    <3>5. PollInv'
      BY <1>2, <1>4, <1>9, <3>1, <3>2 DEF PollInv, PollByMode
    <3>. QED  BY <3>2, <3>3, <3>4, <3>5
  <2>. QED  BY <2>2, <2>3
<1>6. CASE IrqInit
  <2>. DEFINE h == Head(alarms)
  <2>1. /\ act[Irq].pc = "init" /\ Goto(Irq, "again") /\ UNCHANGED <<alarms, ahead, exec, tmrlock>>
        /\ AlarmInit(ahead[h])
    BY <1>6 DEF IrqInit, At
  <2>2. alarms # <<>>
    BY <2>1 DEF ArmedInv, At
  <2>3. h \in Alarms /\ ahead[h] \in Int
    BY <2>2, FirstAlarm, TypeFacts
  <2>4. enabled' /\ enabled' \in BOOLEAN /\ match' \in 1 .. Wrap /\ (ahead[h] > 0 => match' <= ahead[h])
    BY <2>1, <2>3, Comparator DEF AlarmInit
  <2>5. /\ act' \in [Actors -> Act] /\ act'[Irq].pc = "again" /\ LocksInv'
        /\ \A y \in Actors : act'[y].pc \notin Setting
        /\ \A y \in Actors : y # Irq => act'[y] = act[y]
    BY <1>1, <1>3, <2>1
  <2>6. TimerTypeOK' /\ Ordered'
    BY <1>2, <2>1, <2>4, <2>5 DEF TimerTypeOK, Ordered
  <2>7. Interrupts(ahead[Head(alarms)])' \/ Now(Head(alarms))'
    BY <2>1, <2>3, <2>4 DEF Interrupts, Now
  <2>8. ArmedInv'
    BY <2>1, <2>2, <2>5, <2>7 DEF ArmedInv, At, Setting, Triggering
  <2>9. PollInv'
    BY <1>2, <1>4, <1>9, <2>1, <2>5 DEF PollInv, PollByMode
  <2>. QED  BY <2>5, <2>6, <2>8, <2>9
<1>7. CASE IrqAgain
  <2>1. act[Irq].pc = "again" /\ UNCHANGED <<match, enabled>>
    BY <1>7 DEF IrqAgain, At, hwVars
  <2>2. alarms # <<>> /\ (Interrupts(ahead[Head(alarms)]) \/ Now(Head(alarms)))
    BY <2>1 DEF ArmedInv, At
  <2>3. CASE Now(Head(alarms))
    <3>1. Due /\ Goto(Irq, "scan") /\ UNCHANGED tmrlock
      BY <1>7, <2>3 DEF IrqAgain
    <3>2. /\ alarms' \in AlarmLists /\ exec' \in Seq(Alarms) /\ Ordered'
          /\ ahead' \in [Alarms -> Int] /\ \A a \in Alarms : ahead'[a] >= -1
          /\ Poll \in ToSet(alarms') => Poll \in ToSet(alarms)
          /\ ToSet(alarms) \cup ToSet(exec) = ToSet(alarms') \cup ToSet(exec')
      BY <2>2, <3>1, DueList
    <3>3. /\ act' \in [Actors -> Act] /\ act'[Irq].pc = "scan" /\ LocksInv'
          /\ \A y \in Actors : act'[y].pc \notin Setting
          /\ \A y \in Actors : y # Irq => act'[y] = act[y]
      BY <1>1, <1>3, <2>1, <3>1
    <3>4. TimerTypeOK'
      BY <1>2, <2>1, <3>1, <3>2, <3>3 DEF TimerTypeOK
    <3>5. ArmedInv'
      BY <3>3 DEF ArmedInv, At, Setting, Triggering
    <3>6. PollInv'
      BY <1>2, <1>4, <1>9, <3>2, <3>3 DEF PollInv, PollByMode
    <3>. QED  BY <3>2, <3>3, <3>4, <3>5, <3>6
  <2>4. CASE ~Now(Head(alarms))
    <3>1. tmrlock' = Free /\ Goto(Irq, "exec") /\ UNCHANGED <<alarms, exec, ahead>>
      BY <1>7, <2>4 DEF IrqAgain
    <3>2. /\ act' \in [Actors -> Act] /\ act'[Irq].pc = "exec" /\ LocksInv'
          /\ tmrlock' \in Actors \cup {Free}
          /\ \A y \in Actors : act'[y].pc \notin Setting
          /\ \A y \in Actors : y # Irq => act'[y] = act[y]
      BY <1>3, <3>1
    <3>3. TimerTypeOK' /\ Ordered'
      BY <1>2, <2>1, <3>1, <3>2 DEF TimerTypeOK, Ordered
    <3>4. Armed'
      BY <1>2, <2>1, <2>2, <2>4, <3>1 DEF Armed, Interrupts
    <3>5. ArmedInv'
      BY <3>2, <3>4 DEF ArmedInv, At, Setting
    <3>6. PollInv'
      BY <1>2, <1>4, <1>9, <3>1, <3>2 DEF PollInv, PollByMode
    <3>. QED  BY <3>2, <3>3, <3>5, <3>6
  <2>. QED  BY <2>3, <2>4
<1>8. CASE IrqEmpty
  <2>1. /\ alarms = <<>> /\ enabled' = FALSE /\ tmrlock' = Free /\ Goto(Irq, "exec")
        /\ UNCHANGED <<match, alarms, ahead, exec>>
    BY <1>8 DEF IrqEmpty
  <2>2. /\ act' \in [Actors -> Act] /\ act'[Irq].pc = "exec" /\ LocksInv'
        /\ tmrlock' \in Actors \cup {Free}
        /\ \A y \in Actors : act'[y].pc \notin Setting
        /\ \A y \in Actors : y # Irq => act'[y] = act[y]
    BY <1>3, <2>1
  <2>3. TimerTypeOK' /\ Ordered'
    BY <1>2, <2>1, <2>2 DEF TimerTypeOK, Ordered
  <2>4. ArmedInv'
    BY <2>1, <2>2 DEF ArmedInv, Armed, At, Setting
  <2>5. PollInv'
    BY <1>2, <1>4, <1>9, <2>1, <2>2 DEF PollInv, PollByMode
  <2>. QED  BY <2>2, <2>3, <2>4, <2>5
<1>. QED  BY <1>5, <1>6, <1>7, <1>8

-----------------------------------------------------------------------------
(* The theorems about alarms.                                              *)

\* Every step of a thread, of the interrupt or of the time keeps the invariant.
LEMMA TimerStep == TimerInv /\ [TimerNext]_timerVars => TimerInv'
<1>. SUFFICES ASSUME TimerInv, [TimerNext]_timerVars PROVE TimerInv'
  OBVIOUS
<1>1. ASSUME NEW x \in Actors, AlarmStep(x) PROVE TimerInv'
  BY <1>1, AlarmSetInv, AlarmDoneInv DEF AlarmStep
<1>2. CASE IrqStep
  BY <1>2, IrqEnds, TriggerInv, IrqExecInv DEF IrqStep
<1>3. CASE UNCHANGED timerVars
  <2>1. UNCHANGED <<match, enabled, stat, alarms, ahead, exec, tmrlock, thermlock, mode, cstate, act, missed>>
    BY <1>3 DEF timerVars, hwVars
  <2>2. TimerTypeOK' /\ LocksInv' /\ Ordered'
    BY <2>1 DEF TimerInv, TimerTypeOK, LocksInv, Polling, Ordered
  <2>3. ArmedInv' /\ PollInv'
    BY <2>1 DEF TimerInv, ArmedInv, Armed, At, Now, Interrupts, PollInv, PollByMode, Polled, Owed
  <2>. QED  BY <2>2, <2>3 DEF TimerInv
<1>. QED  BY <1>1, <1>2, <1>3, TickInv, FanModeInv, CstateInv, SetFanInv DEF TimerNext

\* In every state the locks are held by who is in their sections, and the list
\* and the comparator are as the steps of their holders have left them.
THEOREM TimerCorrect == TimerSpec => []TimerInv
<1>1. TimerInit => TimerInv
  BY TimerInitInv
<1>2. TimerInv /\ [TimerNext]_timerVars => TimerInv'
  BY TimerStep
<1>. QED  BY <1>1, <1>2, PTL DEF TimerSpec

\* While no interrupt is handled the first alarm has one at its time or before,
\* across the wrap of the comparator; and polling is on in automatic mode
\* only, and there unless a cstate rules (nvkm_timer_alarm, nvkm_timer_alarm_trigger,
\* nvkm_therm_update).
THEOREM AlarmsCorrect == TimerSpec => []AlarmsSound
<1>1. TimerInv => AlarmsSound
  <2>. SUFFICES ASSUME TimerInv PROVE AlarmsSound
    OBVIOUS
  <2>1. PollByMode
    BY DEF TimerInv, PollInv
  <2>2. OnTime
    <3>. SUFFICES ASSUME tmrlock = Free, alarms # <<>>, At(Irq, "idle"), ~missed
                  PROVE  Interrupts(ahead[Head(alarms)])
      BY DEF OnTime, Interrupts
    <3>1. \A x \in Actors : ~At(x, "first")
      BY Names DEF TimerInv, LocksInv, At, Setting
    <3>. QED  BY <3>1 DEF TimerInv, ArmedInv, Armed, At, Triggering
  <2>. QED  BY <2>1, <2>2 DEF AlarmsSound
<1>. QED  BY <1>1, TimerCorrect, PTL

-----------------------------------------------------------------------------
(* Push buffers: the inductive invariant.                                  *)

\* What the GPU has to fetch, in its order: first the rest of its entry.
Ent(i) == IF i = 0 THEN seg ELSE pend[i]
Ents == 0 .. Len(pend)
InRing(e) == e.at # Outside
End(e) == e.at + e.len

Entry == [at : Nat \cup {Outside}, len : Nat]
DrvCall == [pc : {"idle", "ib", "ring", "turn", "push", "write"}, slots : Nat, size : Nat,
         pushes : Nat, fence : BOOLEAN]

DmaTypeOK ==
  /\ cur \in 0..DmaMax /\ put = cur /\ free \in Int
  /\ ibPut \in 0..IbMax /\ ibGet \in 0..IbMax /\ ibFree \in Int
  /\ drv \in DrvCall
  /\ seg \in Entry /\ get = seg.at
  /\ pend \in Seq(Entry) /\ \A i \in 1..Len(pend) : pend[i].len >= 1

\* What the call under way has been promised.
CallInv ==
  /\ ~DrvAt("idle") => drv.size \in 1..GemWords /\ drv.slots >= drv.pushes + 1
  /\ drv.pc \in {"ring", "turn"} => ibFree >= drv.slots + 1
  /\ DrvAt("push") => drv.pushes >= 1 /\ ibFree >= drv.pushes + 2
  /\ DrvAt("write") => drv.pushes = 0 /\ ibFree >= 2 /\ drv.size <= free

\* ib_free counts one entry too many when the GPU is ahead, never more.
IbInv ==
  /\ Len(pend) <= IbMax
  /\ ibPut = IF ibGet + Len(pend) <= IbMax THEN ibGet + Len(pend)
             ELSE ibGet + Len(pend) - (IbMax + 1)
  /\ ibFree <= IbMax - Len(pend) + 1

\* An entry lies behind the driver's window, or ahead of it.
Clear(e) == End(e) <= cur \/ (cur < e.at /\ cur + free < e.at)

\* The GPU fetches e before f: they lie in this order, on this lap or the last.
Before(e, f) ==
  /\ f.at > cur => e.at > cur
  /\ End(e) <= f.at \/ (e.at > cur /\ End(f) <= cur)

WindowInv ==
  /\ cur + free <= DmaMax
  /\ \A i \in Ents : InRing(Ent(i)) => End(Ent(i)) <= DmaMax /\ Clear(Ent(i))
  /\ \A i, j \in Ents : i < j /\ InRing(Ent(i)) /\ InRing(Ent(j)) => Before(Ent(i), Ent(j))

\* The driver turns only when the GPU has the rest of one lap before it; what
\* starts at 0 is then what the GPU will fetch first.
TurnInv ==
  DrvAt("turn") =>
    \A i \in Ents : InRing(Ent(i)) =>
      /\ Ent(i).at <= cur
      /\ Ent(i).at = 0 => i = 0 \/ (i = 1 /\ seg.at = 0 /\ seg.len = 0)

\* Until the GPU has fetched its first entry, GET = 0 says nothing.
FreshInv ==
  seg.at = 0 /\ seg.len = 0 =>
    /\ ibGet = 0 /\ ibFree <= IbMax - Len(pend)
    /\ \A i \in Ents : InRing(Ent(i)) => End(Ent(i)) <= cur
    /\ cur <= Len(pend) * GemWords
    /\ pend # <<>> /\ pend[1].at = Outside => cur <= (Len(pend) - 1) * GemWords

DmaInv == DmaTypeOK /\ CallInv /\ IbInv /\ WindowInv /\ TurnInv /\ FreshInv

-----------------------------------------------------------------------------
(* Entries and indices.                                                    *)

\* All of the assumption but its product, which is of use only in RingWait.
LEMMA Sizes ==
  /\ DmaMax \in Nat /\ IbMax \in Nat /\ GemWords \in Nat /\ MaxPush \in Nat
  /\ FenceWords \in 1..GemWords /\ EmitWords \subseteq 1..GemWords
  /\ MaxPush + 2 <= IbMax
BY DmaAssumption

USE Sizes

LEMMA Entries ==
  ASSUME DmaTypeOK
  PROVE  /\ Len(pend) \in Nat
         /\ \A i \in Ents : Ent(i) \in Entry /\ (i # 0 => Ent(i).len >= 1)
<1>1. Len(pend) \in Nat /\ \A i \in 1..Len(pend) : pend[i] \in Entry
  BY ElementOfSeq, LenProperties DEF DmaTypeOK
<1>. QED  BY <1>1 DEF DmaTypeOK, Ents, Ent

\* The parts of an entry.
LEMMA EntryInts ==
  ASSUME NEW e \in Entry
  PROVE  e.at \in Int /\ e.at >= Outside /\ e.len \in Nat /\ End(e) \in Int /\ End(e) = e.at + e.len
BY DEF Entry, End, Outside

\* Indices of the IB wrap at IbMax + 1.
LEMMA NextIndex ==
  ASSUME NEW p \in 0..IbMax
  PROVE  (p + 1) % (IbMax + 1) = IF p < IbMax THEN p + 1 ELSE 0
<1>1. CASE p < IbMax
  BY <1>1, SMTT(30)
<1>2. CASE p = IbMax
  BY <1>2, SMTT(30)
<1>. QED  BY <1>1, <1>2

-----------------------------------------------------------------------------
(* The invariant holds in every state.                                     *)

LEMMA DmaInitInv == DmaInit => DmaInv
<1>. SUFFICES ASSUME DmaInit PROVE DmaInv
  OBVIOUS
<1>1. pend = <<>> /\ Len(pend) = 0 /\ pend \in Seq(Entry) /\ Ents = {0} /\ Ent(0) = seg
  BY EmptySeq DEF DmaInit, Ents, Ent
<1>2. DmaTypeOK
  BY <1>1 DEF DmaInit, DmaTypeOK, DmaIdle, DrvCall, Entry
<1>3. CallInv /\ IbInv /\ TurnInv
  BY <1>1 DEF DmaInit, DmaIdle, CallInv, IbInv, TurnInv, DrvAt
<1>4. WindowInv
  BY <1>1 DEF DmaInit, WindowInv, Clear, End
<1>5. FreshInv
  BY <1>1 DEF DmaInit, FreshInv, End
<1>. QED  BY <1>2, <1>3, <1>4, <1>5 DEF DmaInv

\* A step that leaves the GPU's state and the driver's pointers alone.
LEMMA EntsSame ==
  ASSUME UNCHANGED gpuVars
  PROVE  /\ Len(pend)' = Len(pend) /\ Ents' = Ents
         /\ \A i \in Ents : Ent(i)' = Ent(i)
BY DEF gpuVars, Ents, Ent

LEMMA CallStep ==
  ASSUME DmaInv, DmaCall
  PROVE  DmaInv'
<1>1. UNCHANGED <<cur, put, free, ibPut, ibFree, ibGet, get, seg, pend>>
  BY DEF DmaCall, ringVars, gpuVars
<1>2. PICK slots \in Nat, size \in 1..GemWords, pushes \in Nat :
        /\ slots >= pushes + 1
        /\ drv' = [pc |-> "ib", slots |-> slots, size |-> size, pushes |-> pushes, fence |-> FALSE]
  <2>1. CASE \E n \in 1..MaxPush : Gem(n)
    <3>1. PICK n \in 1..MaxPush : Gem(n)
      BY <2>1
    <3>2. n + 1 \in Nat /\ n \in Nat /\ n + 1 >= n + 1 /\ GemWords \in 1..GemWords
      OBVIOUS
    <3>. QED  BY <3>1, <3>2, Zenon DEF Gem, Wait
  <2>2. CASE \E w \in EmitWords : Emit(w)
    <3>1. PICK w \in EmitWords : Emit(w)
      BY <2>2
    <3>2. 1 \in Nat /\ 0 \in Nat /\ 1 >= 0 + 1 /\ w \in 1..GemWords
      OBVIOUS
    <3>. QED  BY <3>1, <3>2, Zenon DEF Emit, Wait
  <2>. QED  BY <2>1, <2>2 DEF DmaCall
<1>3. DmaTypeOK' /\ CallInv'
  BY <1>1, <1>2 DEF DmaInv, DmaTypeOK, CallInv, DrvCall, DrvAt
<1>4. IbInv' /\ FreshInv'
  BY <1>1 DEF DmaInv, IbInv, FreshInv, Ents, Ent, End, InRing
<1>5. WindowInv'
  BY <1>1 DEF DmaInv, WindowInv, Ents, Ent, End, InRing, Clear, Before
<1>6. TurnInv'
  BY <1>2 DEF TurnInv, DrvAt
<1>. QED  BY <1>3, <1>4, <1>5, <1>6 DEF DmaInv

LEMMA IbWaitStep ==
  ASSUME DmaInv, IbWait
  PROVE  DmaInv'
<1>1. UNCHANGED <<cur, put, free, ibPut, ibGet, get, seg, pend>>
  BY DEF IbWait, ringVars, gpuVars
<1>2. WindowInv'
  BY <1>1 DEF DmaInv, WindowInv, Ents, Ent, End, InRing, Clear, Before
<1>3. CASE ibFree >= drv.slots + 1 /\ drv' = [drv EXCEPT !.pc = "ring"] /\ ibFree' = ibFree
  <2>1. DmaTypeOK' /\ CallInv'
    BY <1>1, <1>3 DEF IbWait, DmaInv, DmaTypeOK, CallInv, DrvCall, DrvAt
  <2>2. IbInv' /\ FreshInv'
    BY <1>1, <1>3 DEF DmaInv, IbInv, FreshInv, Ents, Ent, End, InRing
  <2>3. TurnInv'
    BY <1>3 DEF DmaInv, DmaTypeOK, DrvCall, TurnInv, DrvAt
  <2>. QED  BY <2>1, <2>2, <2>3, <1>2 DEF DmaInv
<1>4. CASE /\ drv' = drv
           /\ ibFree' = LET n == ibGet - ibPut IN IF n <= 0 THEN n + IbMax ELSE n
  <2>1. Len(pend) \in Nat /\ ibPut \in Int /\ ibGet \in Int
    BY Entries DEF DmaInv, DmaTypeOK
  <2>2. /\ ibFree' \in Int /\ ibFree' <= IbMax - Len(pend) + 1
        /\ ibGet = 0 => ibFree' <= IbMax - Len(pend)
    <3>. DEFINE n == ibGet - ibPut
    <3>1. ibFree' = IF n <= 0 THEN n + IbMax ELSE n
      BY <1>4
    <3>2. /\ n \in Int /\ n = IF ibGet + Len(pend) <= IbMax THEN 0 - Len(pend)
                             ELSE IbMax + 1 - Len(pend)
          /\ Len(pend) <= IbMax
      BY <2>1 DEF DmaInv, IbInv
    <3>. HIDE DEF n
    <3>. QED  BY <2>1, <3>1, <3>2
  <2>3. DmaTypeOK' /\ IbInv'
    BY <1>1, <1>4, <2>2 DEF DmaInv, DmaTypeOK, IbInv
  <2>4. CallInv'
    BY <1>1, <1>4 DEF IbWait, DmaInv, CallInv, DrvAt
  <2>5. FreshInv'
    BY <1>1, <2>2 DEF DmaInv, FreshInv, Ents, Ent, End, InRing
  <2>6. TurnInv'
    BY <1>1, <1>4 DEF DmaInv, TurnInv, DrvAt, Ents, Ent, InRing
  <2>. QED  BY <2>3, <2>4, <2>5, <2>6, <1>2 DEF DmaInv
<1>. QED  BY <1>3, <1>4 DEF IbWait, Needs, DrvGoto

LEMMA FailStep ==
  ASSUME DmaInv, WaitFails
  PROVE  DmaInv'
<1>1. UNCHANGED <<cur, put, free, ibPut, ibFree, ibGet, get, seg, pend>> /\ drv' = DmaIdle
  BY DEF WaitFails, gpuVars, DmaInv, DmaTypeOK
<1>2. DmaTypeOK' /\ CallInv' /\ TurnInv'
  BY <1>1 DEF DmaInv, DmaTypeOK, CallInv, TurnInv, DrvCall, DrvAt, DmaIdle
<1>3. IbInv' /\ FreshInv'
  BY <1>1 DEF DmaInv, IbInv, FreshInv, Ents, Ent, End, InRing
<1>4. WindowInv'
  BY <1>1 DEF DmaInv, WindowInv, Ents, Ent, End, InRing, Clear, Before
<1>. QED  BY <1>2, <1>3, <1>4 DEF DmaInv

\* GET behind the driver: so is everything that the GPU has to fetch.
LEMMA AllBehind ==
  ASSUME DmaInv, get # Outside, get <= cur
  PROVE  \A i \in Ents : InRing(Ent(i)) => Ent(i).at <= cur /\ End(Ent(i)) <= cur
<1>. SUFFICES ASSUME NEW i \in Ents, InRing(Ent(i))
              PROVE  Ent(i).at <= cur /\ End(Ent(i)) <= cur
  OBVIOUS
<1>1. /\ Len(pend) \in Nat /\ i \in Nat /\ 0 \in Ents /\ Ent(0) = seg
      /\ Ent(i) \in Entry /\ seg \in Entry /\ InRing(seg) /\ seg.at <= cur
  BY Entries DEF DmaInv, DmaTypeOK, Ents, Ent, InRing
<1>2. i # 0 => Before(seg, Ent(i))
  BY <1>1 DEF DmaInv, WindowInv
<1>3. Ent(i).at <= cur
  <2>1. Ent(i).at \in Int /\ seg.at \in Int /\ cur \in Int
    BY <1>1, EntryInts DEF DmaInv, DmaTypeOK
  <2>. QED  BY <1>1, <1>2, <2>1 DEF Before
<1>4. Clear(Ent(i))
  BY DEF DmaInv, WindowInv
<1>. QED  BY <1>1, <1>3, <1>4, EntryInts DEF Clear, DmaInv, DmaTypeOK

LEMMA LessProduct ==
  ASSUME NEW n \in Nat, NEW m \in Int, NEW g \in Nat, n <= m - 1
  PROVE  n * g <= m * g - g
<1>1. (m - 1 - n) \in Nat /\ (m - 1 - n) * g >= 0
  BY SMTT(30)
<1>2. (m - 1 - n) * g = m * g - g - n * g
  BY SMTT(30)
<1>. QED  BY <1>1, <1>2, SMTT(30)

\* The last of the IB's entries that the driver may use turns the ring, and by
\* then it has written a ring full: what starts at 0 comes first.
LEMMA TurnStart ==
  ASSUME DmaInv, DrvAt("ring"), get # Outside, get <= cur, DmaMax - cur < drv.size,
         NEW i \in Ents, Ent(i).at = 0, i # 0
  PROVE  i = 1 /\ seg.at = 0 /\ seg.len = 0
<1>1. /\ Len(pend) \in Nat /\ i \in Nat /\ i <= Len(pend) /\ 0 \in Ents /\ 1 \in Ents
      /\ Ent(0) = seg /\ Ent(1) = pend[1] /\ pend # <<>>
      /\ Ent(i) \in Entry /\ seg \in Entry /\ pend[1] \in Entry /\ pend[1].len >= 1
      /\ InRing(seg) /\ InRing(Ent(i)) /\ seg.at <= cur /\ cur \in Nat /\ ibFree \in Int
  BY Entries DEF DmaInv, DmaTypeOK, Ents, Ent, InRing, Outside
<1>2. Before(seg, Ent(i)) /\ (i # 1 /\ InRing(pend[1]) => Before(pend[1], Ent(i)))
  BY <1>1 DEF DmaInv, WindowInv
<1>3. seg.at = 0 /\ seg.len = 0
  BY <1>1, <1>2 DEF Before, Entry, End, InRing, Outside
<1>4. SUFFICES ASSUME i # 1 PROVE FALSE
  BY <1>3
<1>5. InRing(pend[1]) => pend[1].at <= cur
  BY <1>1, AllBehind
<1>6. pend[1].at = Outside
  BY <1>1, <1>2, <1>4, <1>5 DEF Before, Entry, End, InRing
<1>7. /\ ibFree <= IbMax - Len(pend) /\ cur <= (Len(pend) - 1) * GemWords
      /\ ibFree >= 2 /\ drv.size <= GemWords /\ drv.size \in Nat
  <2>1. ibFree <= IbMax - Len(pend) /\ cur <= (Len(pend) - 1) * GemWords
    BY <1>1, <1>3, <1>6 DEF DmaInv, FreshInv
  <2>2. ibFree >= 2 /\ drv.size <= GemWords /\ drv.size \in Nat
    BY <1>1 DEF DmaInv, DmaTypeOK, DrvCall, CallInv, DrvAt
  <2>. QED  BY <2>1, <2>2
<1>. DEFINE n == Len(pend) - 1
            m == IbMax - 2
<1>8. n \in Nat /\ m \in Int /\ n <= m - 1
  BY <1>1, <1>7
<1>9. cur <= n * GemWords /\ m * GemWords <= DmaMax
  BY <1>7, DmaAssumption
<1>. HIDE DEF n, m
<1>10. n * GemWords <= m * GemWords - GemWords
  BY <1>8, LessProduct
<1>11. n * GemWords \in Int /\ m * GemWords \in Int
  BY <1>8
<1>12. cur <= DmaMax - GemWords
  BY <1>1, <1>9, <1>10, <1>11
<1>. QED  BY <1>1, <1>7, <1>12

LEMMA RingWaitStep ==
  ASSUME DmaInv, RingWait
  PROVE  DmaInv'
<1>1. UNCHANGED <<cur, put, ibPut, ibFree, ibGet, get, seg, pend>>
  BY DEF RingWait, gpuVars
<1>2. IbInv' /\ FreshInv'
  BY <1>1 DEF DmaInv, IbInv, FreshInv, Ents, Ent, End, InRing
<1>3. \A i, j \in Ents' : i < j /\ InRing(Ent(i)') /\ InRing(Ent(j)') => Before(Ent(i), Ent(j))'
  BY <1>1 DEF DmaInv, WindowInv, Ents, Ent, End, InRing, Before
<1>4. /\ drv \in DrvCall /\ drv.pc = "ring" /\ drv.size \in 1..GemWords
      /\ drv.slots >= drv.pushes + 1 /\ ibFree >= drv.slots + 1
      /\ cur \in Nat /\ cur <= DmaMax /\ seg \in Entry /\ get = seg.at
      /\ free \in Int /\ ibFree \in Int /\ drv.slots \in Nat /\ drv.pushes \in Nat
  BY DEF RingWait, DmaInv, DmaTypeOK, CallInv, DrvCall, DrvAt
<1>5. ASSUME free' \in Int, drv.size <= free', drv' = [drv EXCEPT !.pc = Ready]
      PROVE  DmaTypeOK' /\ CallInv' /\ TurnInv'
  <2>1. drv' \in DrvCall /\ drv'.pc \in {"push", "write"} /\ drv'.pc = Ready
        /\ drv'.size = drv.size /\ drv'.slots = drv.slots /\ drv'.pushes = drv.pushes
    BY <1>4, <1>5 DEF DrvCall, Ready
  <2>2. DmaTypeOK' /\ TurnInv'
    BY <1>1, <1>5, <2>1 DEF DmaInv, DmaTypeOK, TurnInv, DrvAt
  <2>3. CallInv'
    BY <1>1, <1>4, <1>5, <2>1 DEF CallInv, DrvAt, Ready
  <2>. QED  BY <2>2, <2>3
<1>6. CASE free >= drv.size /\ DrvGoto(Ready) /\ free' = free
  <2>1. WindowInv'
    BY <1>1, <1>3, <1>6 DEF DmaInv, WindowInv, Ents, Ent, End, InRing, Clear
  <2>. QED  BY <1>2, <1>4, <1>5, <1>6, <2>1 DEF DmaInv, DrvGoto
<1>7. CASE free' = free /\ drv' = drv
  <2>1. DmaTypeOK' /\ CallInv'
    BY <1>1, <1>7 DEF DmaInv, DmaTypeOK, CallInv, DrvAt
  <2>2. WindowInv'
    BY <1>1, <1>3, <1>7 DEF DmaInv, WindowInv, Ents, Ent, End, InRing, Clear
  <2>3. TurnInv'
    BY <1>4, <1>7 DEF TurnInv, DrvAt
  <2>. QED  BY <1>2, <2>1, <2>2, <2>3 DEF DmaInv
<1>8. CASE /\ get # Outside /\ get <= cur /\ free' = DmaMax - cur
           /\ DrvGoto(IF free' >= drv.size THEN Ready ELSE "turn")
  <2>1. \A i \in Ents : InRing(Ent(i)) => Ent(i).at <= cur /\ End(Ent(i)) <= cur
    BY <1>8, AllBehind
  <2>2. free' \in Int /\ cur' + free' <= DmaMax
    BY <1>1, <1>4, <1>8
  <2>3. \A i \in Ents' : InRing(Ent(i)') => End(Ent(i)') <= DmaMax /\ Clear(Ent(i))'
    BY <1>1, <2>1 DEF DmaInv, WindowInv, Ents, Ent, End, InRing, Clear
  <2>4. WindowInv'
    BY <1>3, <2>2, <2>3 DEF WindowInv, Ents, Ent, InRing, End
  <2>5. CASE free' >= drv.size
    BY <1>2, <1>4, <1>5, <1>8, <2>2, <2>4, <2>5 DEF DmaInv, DrvGoto
  <2>6. CASE ~(free' >= drv.size)
    <3>1. drv' = [drv EXCEPT !.pc = "turn"]
      BY <1>8, <2>6 DEF DrvGoto
    <3>2. /\ drv' \in DrvCall /\ drv'.pc = "turn"
          /\ drv'.size = drv.size /\ drv'.slots = drv.slots /\ drv'.pushes = drv.pushes
      BY <1>4, <3>1 DEF DrvCall
    <3>3. DmaTypeOK' /\ CallInv'
      BY <1>1, <1>4, <2>2, <3>2 DEF DmaInv, DmaTypeOK, CallInv, DrvAt
    <3>4. DmaMax - cur < drv.size
      BY <1>4, <1>8, <2>6
    <3>5. \A i \in Ents : InRing(Ent(i)) =>
            /\ Ent(i).at <= cur
            /\ Ent(i).at = 0 => i = 0 \/ (i = 1 /\ seg.at = 0 /\ seg.len = 0)
      BY <1>4, <1>8, <2>1, <3>4, TurnStart DEF DrvAt
    <3>6. TurnInv'
      BY <1>1, <3>5 DEF TurnInv, Ents, Ent, InRing
    <3>. QED  BY <1>2, <2>4, <3>3, <3>6 DEF DmaInv
  <2>. QED  BY <2>5, <2>6
<1>9. CASE get # Outside /\ get > cur /\ free' = get - cur - 1 /\ drv' = drv
  <2>1. free' \in Int /\ cur' + free' = get - 1 /\ get \in Int
    BY <1>1, <1>4, <1>9 DEF Entry, Outside
  <2>2. DmaTypeOK' /\ CallInv' /\ TurnInv'
    BY <1>1, <1>4, <1>9, <2>1 DEF DmaInv, DmaTypeOK, CallInv, TurnInv, DrvAt
  <2>3. 0 \in Ents /\ Ent(0) = seg /\ InRing(seg) /\ Len(pend) \in Nat
    BY <1>4, <1>9, Entries DEF DmaInv, Ents, Ent, InRing
  <2>4. cur' + free' <= DmaMax
    <3>1. End(seg) <= DmaMax
      BY <2>3 DEF DmaInv, WindowInv
    <3>. QED  BY <1>4, <2>1, <3>1 DEF End, Entry
  <2>5. ASSUME NEW i \in Ents, InRing(Ent(i))
        PROVE  End(Ent(i)) <= DmaMax /\ (End(Ent(i)) <= cur \/ (cur < Ent(i).at /\ get - 1 < Ent(i).at))
    <3>1. End(Ent(i)) <= DmaMax /\ Clear(Ent(i)) /\ Ent(i) \in Entry
      BY <2>5, Entries DEF DmaInv, WindowInv
    <3>2. CASE i = 0
      BY <1>4, <1>9, <2>1, <2>3, <3>1, <3>2
    <3>3. CASE i # 0
      <4>1. Before(seg, Ent(i))
        <5>1. 0 < i
          BY <2>3, <3>3 DEF Ents
        <5>. QED  BY <2>3, <2>5, <5>1 DEF DmaInv, WindowInv
      <4>2. /\ Ent(i).at \in Int /\ seg.at \in Int /\ seg.at = get
            /\ End(Ent(i)) \in Int /\ Ent(i).at <= End(Ent(i))
            /\ End(seg) \in Int /\ seg.at <= End(seg)
        BY <1>4, <3>1, EntryInts
      <4>. QED  BY <1>4, <1>9, <3>1, <4>1, <4>2 DEF Before, Clear
    <3>. QED  BY <3>2, <3>3
  <2>6. WindowInv'
    <3>1. \A i \in Ents' : InRing(Ent(i)') => End(Ent(i)') <= DmaMax /\ Clear(Ent(i))'
      BY <1>1, <2>1, <2>5 DEF Ents, Ent, End, InRing, Clear
    <3>. QED  BY <1>3, <2>4, <3>1 DEF WindowInv, Ents, Ent, InRing, End
  <2>. QED  BY <1>2, <2>2, <2>6 DEF DmaInv
<1>10. \/ free >= drv.size /\ DrvGoto(Ready) /\ free' = free
       \/ free' = free /\ drv' = drv
       \/ /\ get # Outside /\ get <= cur /\ free' = DmaMax - cur
          /\ DrvGoto(IF free' >= drv.size THEN Ready ELSE "turn")
       \/ get # Outside /\ get > cur /\ free' = get - cur - 1 /\ drv' = drv
  <2>1. CASE free >= drv.size /\ DrvGoto(Ready) /\ UNCHANGED free
    BY <2>1
  <2>2. CASE free < drv.size /\ get = Outside /\ UNCHANGED <<free, drv>>
    BY <2>2
  <2>3. CASE /\ free < drv.size /\ get # Outside /\ get <= cur
             /\ free' = DmaMax - cur
             /\ DrvGoto(IF free' >= drv.size THEN Ready ELSE "turn")
    BY <2>3
  <2>4. CASE free < drv.size /\ get > cur /\ free' = Ahead(get) /\ UNCHANGED drv
    <3>1. get # Outside
      BY <1>4, <2>4 DEF Outside
    <3>. QED  BY <2>4, <3>1 DEF Ahead
  <2>. QED  BY <2>1, <2>2, <2>3, <2>4 DEF RingWait
<1>. QED  BY <1>6, <1>7, <1>8, <1>9, <1>10

\* The GPU has left 0, and all that it has to fetch lies after GET.
LEMMA RingTurnStep ==
  ASSUME DmaInv, RingTurn
  PROVE  DmaInv'
<1>1. /\ UNCHANGED <<ibPut, ibFree, ibGet, get, seg, pend>>
      /\ cur' = 0 /\ put' = 0 /\ free' = get - 1 /\ drv' = [drv EXCEPT !.pc = "ring"]
  BY DEF RingTurn, gpuVars, DrvGoto
<1>2. /\ drv \in DrvCall /\ drv.pc = "turn" /\ seg \in Entry /\ get = seg.at /\ get # 0
      /\ seg.at \in Int /\ seg.len \in Nat /\ End(seg) \in Int /\ seg.at <= End(seg)
      /\ cur \in Nat /\ 0 \in Ents /\ Ent(0) = seg /\ Len(pend) \in Nat
  BY Entries, EntryInts DEF RingTurn, DmaInv, DmaTypeOK, DrvAt, Ents, Ent
<1>3. DmaTypeOK' /\ CallInv'
  <2>1. /\ drv' \in DrvCall /\ drv'.pc = "ring"
        /\ drv'.size = drv.size /\ drv'.slots = drv.slots /\ drv'.pushes = drv.pushes
    BY <1>1, <1>2 DEF DrvCall
  <2>. QED  BY <1>1, <1>2, <2>1, SMTT(20) DEF DmaInv, DmaTypeOK, CallInv, DrvAt
<1>4. IbInv' /\ FreshInv' /\ TurnInv'
  BY <1>1, <1>2 DEF DmaInv, IbInv, FreshInv, TurnInv, DrvAt, DrvCall
<1>5. ASSUME NEW i \in Ents, InRing(Ent(i))
      PROVE  /\ Ent(i).at \in Int /\ End(Ent(i)) \in Int /\ Ent(i).at <= End(Ent(i))
             /\ 0 < Ent(i).at /\ Ent(i).at <= cur /\ End(Ent(i)) <= DmaMax
  <2>1. /\ Ent(i).at \in Int /\ Ent(i).at >= 0 /\ End(Ent(i)) \in Int
        /\ Ent(i).at <= End(Ent(i))
    BY <1>5, Entries, EntryInts DEF DmaInv, InRing, Outside
  <2>2. Ent(i).at <= cur /\ Ent(i).at # 0
    BY <1>2, <1>5 DEF DmaInv, TurnInv, DrvAt
  <2>3. End(Ent(i)) <= DmaMax
    BY <1>5 DEF DmaInv, WindowInv
  <2>. QED  BY <2>1, <2>2, <2>3
<1>6. ASSUME NEW i \in Ents, InRing(Ent(i))
      PROVE  get - 1 < Ent(i).at
  <2>1. CASE i = 0
    BY <1>2, <2>1
  <2>2. CASE get = Outside
    BY <1>5, <1>6, <2>2 DEF Outside
  <2>3. CASE i # 0 /\ get # Outside
    <3>1. 0 < i /\ InRing(Ent(0))
      BY <1>2, <2>3 DEF Ents, InRing
    <3>2. Before(Ent(0), Ent(i))
      BY <1>2, <1>6, <3>1 DEF DmaInv, WindowInv
    <3>3. Ent(0).at <= cur
      BY <1>2, <1>5, <3>1
    <3>. QED  BY <1>2, <1>5, <1>6, <3>2, <3>3 DEF Before
  <2>. QED  BY <2>1, <2>2, <2>3
<1>7. ASSUME NEW i \in Ents, NEW j \in Ents, i < j, InRing(Ent(i)), InRing(Ent(j))
      PROVE  End(Ent(i)) <= Ent(j).at
  <2>1. Before(Ent(i), Ent(j))
    BY <1>7 DEF DmaInv, WindowInv
  <2>2. Ent(i).at <= cur /\ Ent(i).at \in Int
    BY <1>5, <1>7
  <2>. QED  BY <1>2, <2>1, <2>2 DEF Before
<1>8. get - 1 <= DmaMax
  <2>1. CASE get = Outside
    BY <2>1 DEF Outside
  <2>2. CASE get # Outside
    BY <1>2, <1>5, <2>2 DEF InRing
  <2>. QED  BY <2>1, <2>2
<1>9. WindowInv'
  <2>1. cur' + free' = get - 1 /\ cur' + free' <= DmaMax
    BY <1>1, <1>2, <1>8
  <2>2. Ents' = Ents /\ \A i \in Ents : Ent(i)' = Ent(i)
    BY <1>1 DEF Ents, Ent
  <2>3. \A i \in Ents' : InRing(Ent(i)') => End(Ent(i)') <= DmaMax /\ Clear(Ent(i))'
    BY <1>1, <1>5, <1>6, <2>1, <2>2 DEF InRing, End, Clear
  <2>4. \A i, j \in Ents' : i < j /\ InRing(Ent(i)') /\ InRing(Ent(j)') => Before(Ent(i), Ent(j))'
    BY <1>1, <1>5, <1>7, <2>2 DEF InRing, End, Before
  <2>. QED  BY <2>1, <2>3, <2>4 DEF WindowInv, InRing, End
<1>. QED  BY <1>3, <1>4, <1>9 DEF DmaInv

\* A new entry is the last.
LEMMA PushEnts ==
  ASSUME DmaTypeOK, NEW e \in Entry, e.len >= 1, pend' = Append(pend, e), seg' = seg
  PROVE  /\ pend' \in Seq(Entry) /\ Len(pend)' = Len(pend) + 1
         /\ \A i \in 1..Len(pend)' : pend'[i].len >= 1
         /\ Ents' = Ents \cup {Len(pend) + 1}
         /\ \A i \in Ents : Ent(i)' = Ent(i)
         /\ \A k \in {Len(pend) + 1} : Ent(k)' = e
<1>1. pend \in Seq(Entry) /\ Len(pend) \in Nat
  BY Entries DEF DmaTypeOK
<1>2. /\ pend' \in Seq(Entry) /\ Len(pend') = Len(pend) + 1
      /\ \A i \in 1..Len(pend) : pend'[i] = pend[i]
      /\ pend'[Len(pend) + 1] = e
  BY <1>1, AppendProperties
<1>3. \A i \in 1..Len(pend') : pend'[i].len >= 1
  BY <1>1, <1>2 DEF DmaTypeOK
<1>4. Ents' = Ents \cup {Len(pend) + 1}
  BY <1>1, <1>2 DEF Ents
<1>5. \A i \in Ents : Ent(i)' = Ent(i)
  BY <1>1, <1>2 DEF Ents, Ent
<1>6. \A k \in {Len(pend) + 1} : Ent(k)' = e
  BY <1>1, <1>2 DEF Ent
<1>. QED  BY <1>2, <1>3, <1>4, <1>5, <1>6

LEMMA PushIb ==
  ASSUME DmaInv, NEW e \in Entry, e.len >= 1, Push(e), seg' = seg, ibGet' = ibGet, ibFree >= 2
  PROVE  IbInv' /\ ibPut' \in 0..IbMax /\ ibFree' = ibFree - 1 /\ ibFree' \in Int
<1>1. /\ Len(pend) \in Nat /\ Len(pend)' = Len(pend) + 1
      /\ ibPut \in 0..IbMax /\ ibGet \in 0..IbMax /\ ibFree \in Int
      /\ ibPut' = (ibPut + 1) % (IbMax + 1) /\ ibFree' = ibFree - 1
  BY Entries, PushEnts DEF DmaInv, DmaTypeOK, Push
<1>2. /\ Len(pend) <= IbMax - 1 /\ ibFree <= IbMax - Len(pend) + 1
      /\ ibPut = IF ibGet + Len(pend) <= IbMax THEN ibGet + Len(pend)
                 ELSE ibGet + Len(pend) - (IbMax + 1)
  BY <1>1 DEF DmaInv, IbInv
<1>3. ibPut' = IF ibPut < IbMax THEN ibPut + 1 ELSE 0
  BY <1>1, NextIndex
<1>4. IbInv'
  <2>. DEFINE n == Len(pend)
              sum == IF ibGet + n <= IbMax THEN ibGet + n ELSE ibGet + n - (IbMax + 1)
              next == IF ibGet + (n + 1) <= IbMax THEN ibGet + (n + 1)
                      ELSE ibGet + (n + 1) - (IbMax + 1)
  <2>1. n \in Nat /\ ibPut = sum /\ n <= IbMax - 1 /\ ibGet \in 0..IbMax
    BY <1>1, <1>2
  <2>2. next = IF sum < IbMax THEN sum + 1 ELSE 0
    <3>. HIDE DEF n
    <3>1. CASE ibGet + n <= IbMax
      BY <2>1, <3>1
    <3>2. CASE ~(ibGet + n <= IbMax)
      BY <2>1, <3>2
    <3>. QED  BY <3>1, <3>2
  <2>3. ibPut' = next
    BY <1>3, <2>1, <2>2
  <2>4. Len(pend)' <= IbMax /\ ibFree' <= IbMax - Len(pend)' + 1
    BY <1>1, <1>2
  <2>5. ibPut' = IF ibGet' + Len(pend)' <= IbMax THEN ibGet' + Len(pend)'
                 ELSE ibGet' + Len(pend)' - (IbMax + 1)
    BY <1>1, <2>3
  <2>. QED  BY <2>4, <2>5 DEF IbInv
<1>. QED  BY <1>1, <1>3, <1>4

LEMMA GemPushStep ==
  ASSUME DmaInv, GemPush
  PROVE  DmaInv'
<1>. DEFINE last == Len(pend) + 1
<1>1. /\ UNCHANGED <<cur, put, free, ibGet, get, seg>> /\ Push(UserEntry)
      /\ pend' = Append(pend, UserEntry)
  BY DEF GemPush, ringVars, Push
<1>2. UserEntry \in Entry /\ UserEntry.len >= 1 /\ UserEntry.at = Outside
  BY DEF UserEntry, Entry, Outside
<1>3. /\ pend' \in Seq(Entry) /\ Len(pend)' = Len(pend) + 1
      /\ \A i \in 1..Len(pend)' : pend'[i].len >= 1
      /\ Ents' = Ents \cup {last} /\ \A i \in Ents : Ent(i)' = Ent(i)
      /\ \A k \in {last} : Ent(k)' = UserEntry
  BY <1>1, <1>2, PushEnts DEF DmaInv
<1>4. /\ drv \in DrvCall /\ drv.pc = "push" /\ drv.pushes >= 1 /\ ibFree >= drv.pushes + 2
      /\ drv.size \in 1..GemWords /\ drv.slots >= drv.pushes + 1
      /\ drv.pushes \in Nat /\ drv.slots \in Nat /\ ibFree \in Int /\ Len(pend) \in Nat
      /\ cur \in Nat
  BY Entries DEF GemPush, DmaInv, DmaTypeOK, CallInv, DrvCall, DrvAt
<1>5. IbInv' /\ ibPut' \in 0..IbMax /\ ibFree' = ibFree - 1 /\ ibFree' \in Int
  BY <1>1, <1>2, <1>4, PushIb
<1>6. DmaTypeOK' /\ CallInv' /\ TurnInv'
  <2>1. CASE drv.pushes > 1 /\ drv' = [drv EXCEPT !.pushes = @ - 1]
    <3>. DEFINE left == drv.pushes - 1
    <3>0. left \in Nat /\ left >= 1 /\ drv' = [drv EXCEPT !.pushes = left]
      <4>1. drv' = [drv EXCEPT !.pushes = left]
        BY <2>1
      <4>2. drv.pushes \in Nat /\ drv.pushes > 1
        BY <1>4, <2>1
      <4>. QED  BY <4>1, <4>2
    <3>3. ibFree' >= left + 2 /\ drv.slots >= left + 1
      <4>1. /\ ibFree' = ibFree - 1 /\ ibFree >= drv.pushes + 2 /\ drv.slots >= drv.pushes + 1
            /\ ibFree \in Int /\ drv.pushes \in Nat /\ drv.slots \in Nat
        BY <1>4, <1>5
      <4>. QED  BY <4>1
    <3>. HIDE DEF left
    <3>1. /\ drv' \in DrvCall /\ drv'.pc = "push" /\ drv'.pushes = left
          /\ drv'.size = drv.size /\ drv'.slots = drv.slots
      BY <1>4, <3>0 DEF DrvCall
    <3>2. DmaTypeOK'
      BY <1>1, <1>3, <1>5, <3>1 DEF DmaInv, DmaTypeOK
    <3>4. CallInv' /\ TurnInv'
      BY <1>4, <3>0, <3>1, <3>3 DEF CallInv, TurnInv, DrvAt
    <3>. QED  BY <3>2, <3>4
  <2>2. CASE drv' = [pc |-> "ib", slots |-> 1, size |-> FenceWords, pushes |-> 0, fence |-> TRUE]
    <3>1. drv' \in DrvCall
      BY <2>2 DEF DrvCall
    <3>2. DmaTypeOK'
      BY <1>1, <1>3, <1>5, <3>1 DEF DmaInv, DmaTypeOK
    <3>3. CallInv' /\ TurnInv'
      BY <2>2 DEF CallInv, TurnInv, DrvAt
    <3>. QED  BY <3>2, <3>3
  <2>. QED  BY <2>1, <2>2 DEF GemPush
<1>7. WindowInv'
  <2>1. ~InRing(UserEntry)
    BY <1>2 DEF InRing
  <2>2. /\ \A i \in Ents' : InRing(Ent(i)') => i \in Ents /\ Ent(i)' = Ent(i)
    BY <1>3, <2>1
  <2>3. \A i \in Ents' : InRing(Ent(i)') => End(Ent(i)') <= DmaMax /\ Clear(Ent(i))'
    BY <1>1, <2>2 DEF DmaInv, WindowInv, InRing, End, Clear
  <2>4. \A i, j \in Ents' : i < j /\ InRing(Ent(i)') /\ InRing(Ent(j)') => Before(Ent(i), Ent(j))'
    BY <1>1, <2>2 DEF DmaInv, WindowInv, InRing, End, Before
  <2>5. cur' + free' <= DmaMax
    BY <1>1 DEF DmaInv, WindowInv
  <2>. QED  BY <2>3, <2>4, <2>5 DEF WindowInv, InRing, End
<1>8. FreshInv'
  <2>. SUFFICES ASSUME seg.at = 0, seg.len = 0
                PROVE  /\ ibGet' = 0 /\ ibFree' <= IbMax - Len(pend)'
                       /\ \A i \in Ents' : InRing(Ent(i)') => End(Ent(i)') <= cur'
                       /\ cur' <= Len(pend)' * GemWords
                       /\ cur' <= (Len(pend)' - 1) * GemWords
    BY <1>1 DEF FreshInv, InRing, End
  <2>1. /\ ibGet = 0 /\ ibFree <= IbMax - Len(pend)
        /\ \A i \in Ents : InRing(Ent(i)) => End(Ent(i)) <= cur
        /\ cur <= Len(pend) * GemWords
    BY DEF DmaInv, FreshInv
  <2>2. \A i \in Ents' : InRing(Ent(i)') => End(Ent(i)') <= cur'
    BY <1>1, <1>2, <1>3, <2>1 DEF InRing, End
  <2>3. Len(pend)' - 1 = Len(pend)
    BY <1>3, <1>4
  <2>4. Len(pend) * GemWords <= (Len(pend) + 1) * GemWords
    BY <1>4, SMTT(30)
  <2>. QED  BY <1>1, <1>3, <1>4, <1>5, <2>1, <2>2, <2>3, <2>4
<1>. QED  BY <1>5, <1>6, <1>7, <1>8 DEF DmaInv

\* What is written lies behind the driver then, and after all that is there.
LEMMA KickStep ==
  ASSUME DmaInv, Kick
  PROVE  DmaInv'
<1>. DEFINE last == Len(pend) + 1
            new == [at |-> put, len |-> cur + drv.size - put]
<1>1. /\ UNCHANGED <<ibGet, get, seg>> /\ Push(new) /\ pend' = Append(pend, new)
      /\ cur' = cur + drv.size /\ put' = cur' /\ free' = free - drv.size /\ drv' = DmaIdle
  BY DEF Kick, Push
<1>2. /\ drv.pushes = 0 /\ ibFree >= 2 /\ drv.size <= free
      /\ drv.size \in 1..GemWords /\ drv.size \in Nat
      /\ ibFree \in Int /\ Len(pend) \in Nat /\ cur \in Nat /\ put = cur /\ free \in Int
      /\ cur + free <= DmaMax
  BY Entries DEF Kick, DmaInv, DmaTypeOK, CallInv, DrvCall, DrvAt, WindowInv
<1>3. new \in Entry /\ new.at = cur /\ new.len = drv.size /\ new.len >= 1 /\ End(new) = cur'
      /\ InRing(new)
  BY <1>1, <1>2 DEF Entry, End, InRing, Outside
<1>. HIDE DEF new
<1>4. /\ pend' \in Seq(Entry) /\ Len(pend)' = Len(pend) + 1
      /\ \A i \in 1..Len(pend)' : pend'[i].len >= 1
      /\ Ents' = Ents \cup {last} /\ \A i \in Ents : Ent(i)' = Ent(i)
      /\ \A k \in {last} : Ent(k)' = new
  BY <1>1, <1>3, PushEnts DEF DmaInv
<1>5. IbInv' /\ ibPut' \in 0..IbMax /\ ibFree' = ibFree - 1 /\ ibFree' \in Int
  BY <1>1, <1>2, <1>3, PushIb
<1>6. /\ cur' \in 0..DmaMax /\ free' \in Int /\ cur' + free' = cur + free
      /\ cur \in Int /\ free \in Int /\ cur' \in Int /\ cur <= cur' /\ cur' <= cur + free
  <2>. DEFINE n == drv.size
  <2>1. n \in Nat /\ n <= free /\ cur' = cur + n /\ free' = free - n
    BY <1>1, <1>2
  <2>. HIDE DEF n
  <2>. QED  BY <1>2, <2>1
<1>7. DmaTypeOK' /\ CallInv' /\ TurnInv'
  <2>1. drv' \in DrvCall /\ drv'.pc = "idle"
    BY <1>1 DEF DmaIdle, DrvCall
  <2>. QED  BY <1>1, <1>4, <1>5, <1>6, <2>1 DEF DmaInv, DmaTypeOK, CallInv, TurnInv, DrvAt
<1>8. ASSUME NEW i \in Ents, InRing(Ent(i))
      PROVE  /\ Ent(i).at \in Int /\ End(Ent(i)) \in Int /\ Ent(i).at <= End(Ent(i))
             /\ End(Ent(i)) <= DmaMax
             /\ End(Ent(i)) <= cur \/ (cur' < Ent(i).at /\ cur' + free' < Ent(i).at)
             /\ Ent(i).at > cur => Ent(i).at > cur'
  <2>1. Ent(i).at \in Int /\ End(Ent(i)) \in Int /\ Ent(i).at <= End(Ent(i))
    BY Entries, EntryInts DEF DmaInv
  <2>2. End(Ent(i)) <= DmaMax /\ Clear(Ent(i))
    BY <1>8 DEF DmaInv, WindowInv
  <2>3. CASE End(Ent(i)) <= cur
    BY <1>6, <2>1, <2>2, <2>3
  <2>4. CASE cur < Ent(i).at /\ cur + free < Ent(i).at
    <3>. DEFINE a == Ent(i).at
                b == cur + free
    <3>1. a \in Int /\ b \in Int /\ cur' \in Int /\ cur' <= b /\ cur' + free' = b /\ b < a
      <4>1. a \in Int
        BY <2>1
      <4>2. b \in Int
        BY <1>6
      <4>3. cur' \in Int /\ cur' <= b
        BY <1>6
      <4>4. cur' + free' = b
        BY <1>6
      <4>5. b < a
        BY <2>4
      <4>. QED  BY <4>1, <4>2, <4>3, <4>4, <4>5
    <3>. HIDE DEF a, b
    <3>2. cur' < a /\ cur' + free' < a
      BY <3>1
    <3>3. cur' < Ent(i).at /\ cur' + free' < Ent(i).at
      BY <3>2 DEF a
    <3>. QED  BY <2>1, <2>2, <3>3
  <2>. QED  BY <2>2, <2>3, <2>4 DEF Clear
<1>9. WindowInv'
  <2>1. \A i \in Ents' : InRing(Ent(i)') => End(Ent(i)') <= DmaMax /\ Clear(Ent(i))'
    <3>1. ASSUME NEW i \in Ents, InRing(Ent(i))
          PROVE  End(Ent(i)) <= DmaMax /\ (End(Ent(i)) <= cur' \/ (cur' < Ent(i).at /\ cur' + free' < Ent(i).at))
      BY <1>1, <1>2, <1>8, <3>1
    <3>2. End(new) <= DmaMax /\ End(new) <= cur'
      BY <1>3, <1>6
    <3>. QED  BY <1>4, <3>1, <3>2 DEF InRing, End, Clear
  <2>2. ASSUME NEW i \in Ents, NEW j \in Ents, i < j, InRing(Ent(i)), InRing(Ent(j))
        PROVE  /\ Ent(j).at > cur' => Ent(i).at > cur'
               /\ End(Ent(i)) <= Ent(j).at \/ (Ent(i).at > cur' /\ End(Ent(j)) <= cur')
    <3>1. Before(Ent(i), Ent(j))
      BY <2>2 DEF DmaInv, WindowInv
    <3>2. Ent(j).at > cur' => Ent(j).at > cur
      BY <1>1, <1>2, <1>8, <2>2, SMTT(20)
    <3>3. End(Ent(j)) <= cur => End(Ent(j)) <= cur'
      BY <1>1, <1>2, <1>8, <2>2, SMTT(20)
    <3>. QED  BY <1>8, <2>2, <3>1, <3>2, <3>3 DEF Before
  <2>3. ASSUME NEW i \in Ents, InRing(Ent(i))
        PROVE  /\ ~(new.at > cur')
               /\ End(Ent(i)) <= new.at \/ (Ent(i).at > cur' /\ End(new) <= cur')
    <3>1. ~(new.at > cur') /\ End(new) <= cur'
      BY <1>3, <1>6
    <3>2. End(Ent(i)) <= cur \/ cur' < Ent(i).at
      BY <1>8, <2>3
    <3>. QED  BY <1>3, <1>6, <3>1, <3>2
  <2>4. \A i, j \in Ents' : i < j /\ InRing(Ent(i)') /\ InRing(Ent(j)') => Before(Ent(i), Ent(j))'
    <3>. SUFFICES ASSUME NEW i \in Ents', NEW j \in Ents', i < j, InRing(Ent(i)'), InRing(Ent(j)')
                  PROVE  Before(Ent(i), Ent(j))'
      OBVIOUS
    <3>1. i \in Ents /\ Ent(i)' = Ent(i)
      BY <1>2, <1>4 DEF Ents
    <3>2. CASE j \in Ents
      BY <1>4, <2>2, <3>1, <3>2 DEF Before, InRing, End
    <3>3. CASE j = last
      BY <1>4, <2>3, <3>1, <3>3 DEF Before, InRing, End
    <3>. QED  BY <1>4, <3>2, <3>3
  <2>. QED  BY <1>2, <1>6, <2>1, <2>4 DEF WindowInv, InRing, End
<1>10. FreshInv'
  <2>. SUFFICES ASSUME seg.at = 0, seg.len = 0
                PROVE  /\ ibGet' = 0 /\ ibFree' <= IbMax - Len(pend)'
                       /\ \A i \in Ents' : InRing(Ent(i)') => End(Ent(i)') <= cur'
                       /\ cur' <= Len(pend)' * GemWords
                       /\ pend'[1].at = Outside => cur' <= (Len(pend)' - 1) * GemWords
    BY <1>1 DEF FreshInv, InRing, End
  <2>1. /\ ibGet = 0 /\ ibFree <= IbMax - Len(pend)
        /\ \A i \in Ents : InRing(Ent(i)) => End(Ent(i)) <= cur
        /\ cur <= Len(pend) * GemWords
        /\ pend # <<>> /\ pend[1].at = Outside => cur <= (Len(pend) - 1) * GemWords
    BY DEF DmaInv, FreshInv
  <2>2. \A i \in Ents' : InRing(Ent(i)') => End(Ent(i)') <= cur'
    <3>1. ASSUME NEW i \in Ents, InRing(Ent(i)) PROVE End(Ent(i)) <= cur'
      BY <1>1, <1>2, <1>8, <2>1, <3>1, SMTT(20)
    <3>2. End(new) <= cur'
      BY <1>3, <1>6
    <3>. QED  BY <1>4, <3>1, <3>2 DEF InRing, End
  <2>3. (Len(pend) + 1) * GemWords = Len(pend) * GemWords + GemWords
    BY <1>2, SMTT(30)
  <2>6. PICK n, m, o, g : n = Len(pend) * GemWords /\ m = Len(pend)' * GemWords /\ o = drv.size /\ g = GemWords
    OBVIOUS
  <2>7. /\ n \in Int /\ g \in Nat /\ o \in Nat /\ o <= g /\ m = n + g
        /\ cur \in Nat /\ cur <= n /\ cur' = cur + o
    <3>1. GemWords \in Nat
      BY DmaAssumption
    <3>2. n \in Int
      BY <1>2, <2>6, <3>1, SMTT(30)
    <3>. QED  BY <1>1, <1>2, <1>4, <2>1, <2>3, <2>6, <3>1, <3>2
  <2>4. cur' <= Len(pend)' * GemWords
    <3>1. cur' <= m
      BY ONLY <2>7
    <3>. QED  BY <2>6, <3>1
  <2>5. ASSUME pend'[1].at = Outside PROVE cur' <= (Len(pend)' - 1) * GemWords
    <3>1. pend # <<>> /\ pend[1].at = Outside
      <4>1. pend = <<>> => Len(pend) = 0 /\ pend'[1] = new
        BY <1>4 DEF Ent
      <4>2. pend # <<>> => pend'[1] = pend[1]
        <5>1. pend # <<>> => 1 \in Ents
          BY <1>2, EmptySeq DEF Ents, DmaInv, DmaTypeOK
        <5>. QED  BY <1>4, <5>1 DEF Ent
      <4>. QED  BY <1>3, <2>5, <4>1, <4>2 DEF InRing
    <3>2. Len(pend) * GemWords = (Len(pend) - 1) * GemWords + GemWords
      BY <1>2, SMTT(30)
    <3>3. PICK q : q = (Len(pend) - 1) * GemWords
      OBVIOUS
    <3>4. n = q + g /\ cur <= q /\ q \in Int
      BY <1>2, <2>1, <2>6, <2>7, <3>1, <3>2, <3>3, DmaAssumption, SMTT(30)
    <3>5. cur' <= n
      BY ONLY <2>7, <3>4
    <3>6. Len(pend)' - 1 = Len(pend)
      BY <1>2, <1>4
    <3>. QED  BY <2>6, <3>5, <3>6
  <2>. QED  BY <1>1, <1>2, <1>4, <1>5, <2>1, <2>2, <2>4, <2>5, SMTT(20)
<1>. QED  BY <1>5, <1>7, <1>9, <1>10 DEF DmaInv

\* The GPU takes the entries as they come.
LEMMA IbFetchStep ==
  ASSUME DmaInv, IbFetch
  PROVE  DmaInv'
<1>1. /\ UNCHANGED <<cur, put, free, ibPut, ibFree, drv>>
      /\ seg.len = 0 /\ pend # <<>> /\ pend' = Tail(pend) /\ seg' = Head(pend)
      /\ get' = seg'.at /\ ibGet' = (ibGet + 1) % (IbMax + 1)
  BY DEF IbFetch, ringVars
<1>2. pend \in Seq(Entry) /\ Len(pend) \in Nat \ {0}
  BY <1>1, EmptySeq DEF DmaInv, DmaTypeOK
<1>3. /\ pend' \in Seq(Entry) /\ Len(pend)' = Len(pend) - 1 /\ seg' = pend[1]
      /\ \A i \in 1 .. Len(pend)' : pend'[i] = pend[i + 1]
  <2>1. /\ Head(pend) \in Entry /\ Tail(pend) \in Seq(Entry) /\ Len(Tail(pend)) = Len(pend) - 1
        /\ \A i \in 1 .. Len(Tail(pend)) : Tail(pend)[i] = pend[i + 1]
    BY <1>1, <1>2, HeadTailProperties
  <2>. QED  BY <1>1, <1>2, <2>1
<1>4. /\ \A i \in Ents' : i \in Nat /\ i + 1 \in Ents /\ Ent(i)' = Ent(i + 1)
      /\ Ent(1) = pend[1] /\ 1 \in Ents
  BY <1>2, <1>3 DEF Ents, Ent
<1>5. seg' \in Entry /\ seg'.len >= 1 /\ \A i \in 1..Len(pend)' : pend'[i].len >= 1
  BY <1>2, <1>3, Entries DEF DmaInv, DmaTypeOK
<1>6. ibGet' = IF ibGet < IbMax THEN ibGet + 1 ELSE 0
  BY <1>1, NextIndex DEF DmaInv, DmaTypeOK
<1>7. DmaTypeOK' /\ CallInv'
  <2>1. ibGet' \in 0..IbMax
    BY <1>6 DEF DmaInv, DmaTypeOK
  <2>. QED  BY <1>1, <1>3, <1>5, <2>1 DEF DmaInv, DmaTypeOK, CallInv, DrvAt
<1>8. IbInv'
  <2>. DEFINE n == Len(pend)
              sum == IF ibGet + n <= IbMax THEN ibGet + n ELSE ibGet + n - (IbMax + 1)
              g == IF ibGet < IbMax THEN ibGet + 1 ELSE 0
              next == IF g + (n - 1) <= IbMax THEN g + (n - 1) ELSE g + (n - 1) - (IbMax + 1)
  <2>1. n \in Nat \ {0} /\ ibPut = sum /\ n <= IbMax /\ ibGet \in 0..IbMax
        /\ ibFree <= IbMax - n + 1 /\ ibFree \in Int
    BY <1>2 DEF DmaInv, IbInv, DmaTypeOK
  <2>2. next = sum
    <3>. HIDE DEF n
    <3>1. CASE ibGet < IbMax
      BY <2>1, <3>1
    <3>2. CASE ibGet = IbMax
      BY <2>1, <3>2
    <3>. QED  BY <2>1, <3>1, <3>2
  <2>3. Len(pend)' <= IbMax /\ ibFree' <= IbMax - Len(pend)' + 1
    BY <1>1, <1>3, <2>1
  <2>4. ibPut' = IF ibGet' + Len(pend)' <= IbMax THEN ibGet' + Len(pend)'
                 ELSE ibGet' + Len(pend)' - (IbMax + 1)
    BY <1>1, <1>3, <1>6, <2>1, <2>2
  <2>. QED  BY <2>3, <2>4 DEF IbInv
<1>9. WindowInv'
  <2>1. \A i \in Ents' : InRing(Ent(i)') => End(Ent(i)') <= DmaMax /\ Clear(Ent(i))'
    BY <1>1, <1>4 DEF DmaInv, WindowInv, InRing, End, Clear
  <2>2. \A i, j \in Ents' : i < j /\ InRing(Ent(i)') /\ InRing(Ent(j)') => Before(Ent(i), Ent(j))'
    <3>. SUFFICES ASSUME NEW i \in Ents', NEW j \in Ents', i < j, InRing(Ent(i)'), InRing(Ent(j)')
                  PROVE  Before(Ent(i), Ent(j))'
      OBVIOUS
    <3>1. /\ i + 1 \in Ents /\ j + 1 \in Ents /\ i + 1 < j + 1
          /\ Ent(i)' = Ent(i + 1) /\ Ent(j)' = Ent(j + 1)
      BY <1>4
    <3>2. Before(Ent(i + 1), Ent(j + 1))
      BY <3>1 DEF DmaInv, WindowInv
    <3>. QED  BY <1>1, <3>1, <3>2 DEF Before, End
  <2>3. cur' + free' <= DmaMax
    BY <1>1 DEF DmaInv, WindowInv
  <2>. QED  BY <2>1, <2>2, <2>3 DEF WindowInv, InRing, End
<1>10. TurnInv'
  <2>. SUFFICES ASSUME DrvAt("turn"), NEW i \in Ents', InRing(Ent(i)')
                PROVE  Ent(i)'.at <= cur /\ (Ent(i)'.at = 0 => i = 0)
    BY <1>1 DEF TurnInv, DrvAt, InRing
  <2>1. /\ i \in Nat /\ i + 1 \in Ents /\ Ent(i)' = Ent(i + 1) /\ InRing(Ent(i + 1))
    BY <1>4 DEF InRing
  <2>2. /\ Ent(i + 1).at <= cur
        /\ Ent(i + 1).at = 0 => i + 1 = 0 \/ i + 1 = 1
    BY <2>1 DEF DmaInv, TurnInv
  <2>. QED  BY <2>1, <2>2
<1>11. FreshInv'
  BY <1>5 DEF FreshInv, Entry
<1>. QED  BY <1>7, <1>8, <1>9, <1>10, <1>11 DEF DmaInv

LEMMA WordFetchStep ==
  ASSUME DmaInv, WordFetch
  PROVE  DmaInv'
<1>1. /\ UNCHANGED <<cur, put, free, ibPut, ibFree, drv, ibGet, pend>>
      /\ seg' = [seg EXCEPT !.len = @ - 1, !.at = IF @ = Outside THEN @ ELSE @ + 1]
      /\ get' = seg'.at /\ seg.len > 0
  BY DEF WordFetch, ringVars
<1>2. seg \in Entry /\ seg.len \in Nat /\ seg.len - 1 \in Nat /\ seg.at \in Nat \cup {Outside}
  BY <1>1, SMTT(20) DEF DmaInv, DmaTypeOK, Entry
<1>3. /\ seg'.len = seg.len - 1 /\ seg'.at = IF seg.at = Outside THEN Outside ELSE seg.at + 1
      /\ seg' \in Entry
  <2>. DEFINE l == seg.len - 1
              a == IF seg.at = Outside THEN Outside ELSE seg.at + 1
  <2>1. seg' = [seg EXCEPT !.len = l, !.at = a]
    BY <1>1
  <2>2. l \in Nat /\ a \in Nat \cup {Outside}
    BY <1>2
  <2>3. seg'.len = l /\ seg'.at = a /\ seg' \in Entry
    <3>. HIDE DEF l, a
    <3>. QED  BY <1>2, <2>1, <2>2 DEF Entry
  <2>. QED  BY <2>3
<1>4. /\ Ents' = Ents /\ Len(pend) \in Nat /\ 0 \in Ents /\ Ent(0) = seg /\ Ent(0)' = seg'
      /\ \A i \in Ents : i \in Nat /\ (i # 0 => Ent(i)' = Ent(i))
  BY <1>1, Entries DEF DmaInv, Ents, Ent
<1>5. InRing(seg) = InRing(seg') /\ (InRing(seg) => seg'.at = seg.at + 1 /\ End(seg') = End(seg))
  BY <1>2, <1>3 DEF InRing, End, Outside
<1>6. DmaTypeOK' /\ CallInv' /\ IbInv'
  BY <1>1, <1>3 DEF DmaInv, DmaTypeOK, CallInv, IbInv, DrvAt
<1>7. ASSUME NEW i \in Ents, InRing(Ent(i)')
      PROVE  /\ InRing(Ent(i)) /\ End(Ent(i)') = End(Ent(i))
             /\ Ent(i).at \in Nat /\ Ent(i)'.at \in Nat /\ Ent(i).at <= Ent(i)'.at
             /\ i # 0 => Ent(i)' = Ent(i)
  <2>1. CASE i = 0
    BY <1>2, <1>4, <1>5, <1>7, <2>1 DEF InRing, Outside
  <2>2. CASE i # 0
    BY <1>4, <1>7, <2>2, Entries DEF DmaInv, Entry, InRing, Outside
  <2>. QED  BY <2>1, <2>2
<1>8. WindowInv'
  <2>1. cur \in Int /\ free \in Int /\ cur + free <= DmaMax
    BY DEF DmaInv, DmaTypeOK, WindowInv
  <2>2. ASSUME NEW i \in Ents, InRing(Ent(i)')
        PROVE  End(Ent(i)') <= DmaMax /\ Clear(Ent(i))'
    <3>1. End(Ent(i)) <= DmaMax /\ Clear(Ent(i))
      BY <1>7, <2>2 DEF DmaInv, WindowInv
    <3>2. End(Ent(i)') = End(Ent(i)) /\ Ent(i).at \in Nat /\ Ent(i)'.at \in Nat /\ Ent(i).at <= Ent(i)'.at
      BY <1>7, <2>2
    <3>3. End(Ent(i)') <= cur \/ (cur < Ent(i)'.at /\ cur + free < Ent(i)'.at)
      BY <2>1, <3>1, <3>2 DEF Clear
    <3>. QED  BY <1>1, <3>1, <3>2, <3>3 DEF Clear, End
  <2>3. ASSUME NEW i \in Ents, NEW j \in Ents, i < j, InRing(Ent(i)'), InRing(Ent(j)')
        PROVE  Before(Ent(i), Ent(j))'
    <3>1. j # 0
      BY <1>4, <2>3
    <3>2. Before(Ent(i), Ent(j))
      BY <1>7, <2>3 DEF DmaInv, WindowInv
    <3>3. /\ End(Ent(i)') = End(Ent(i)) /\ Ent(i).at \in Nat /\ Ent(i)'.at \in Nat
          /\ Ent(i).at <= Ent(i)'.at
      BY <1>7, <2>3
    <3>4. Ent(j)' = Ent(j)
      BY <1>7, <2>3, <3>1
    <3>5. /\ Ent(j).at > cur => Ent(i)'.at > cur
          /\ End(Ent(i)') <= Ent(j).at \/ (Ent(i)'.at > cur /\ End(Ent(j)) <= cur)
      BY <2>1, <3>2, <3>3 DEF Before
    <3>. QED  BY <1>1, <3>4, <3>5 DEF Before, End
  <2>. QED  BY <1>1, <1>4, <2>1, <2>2, <2>3 DEF WindowInv, InRing, End
<1>9. TurnInv'
  <2>. SUFFICES ASSUME DrvAt("turn"), NEW i \in Ents, InRing(Ent(i)')
                PROVE  Ent(i)'.at <= cur /\ (Ent(i)'.at = 0 => i = 0)
    BY <1>1, <1>4 DEF TurnInv, DrvAt, InRing
  <2>1. InRing(Ent(i)) /\ Ent(i).at <= cur
    BY <1>7 DEF DmaInv, TurnInv
  <2>2. CASE i = 0
    <3>1. Clear(seg) /\ End(seg) \in Int /\ End(seg) >= seg.at + 1 /\ cur \in Int /\ seg.at <= cur
      <4>1. Clear(seg) /\ seg.at <= cur /\ cur \in Int
        BY <1>4, <2>1, <2>2 DEF DmaInv, WindowInv, DmaTypeOK
      <4>2. End(seg) = seg.at + seg.len /\ seg.at \in Int /\ seg.len \in Nat /\ seg.len > 0
        BY <1>1, <1>2, EntryInts
      <4>. QED  BY <4>1, <4>2
    <3>2. seg'.at = seg.at + 1 /\ seg.at \in Nat
      BY <1>2, <1>4, <1>5, <2>1, <2>2 DEF InRing
    <3>. QED  BY <1>4, <2>2, <3>1, <3>2 DEF Clear
  <2>3. CASE i # 0
    <3>1. Ent(i)' = Ent(i)
      BY <1>4, <2>3
    <3>2. Ent(i).at = 0 => seg.len = 0
      BY <2>1, <2>3 DEF DmaInv, TurnInv
    <3>. QED  BY <1>1, <1>2, <2>1, <3>1, <3>2
  <2>. QED  BY <2>2, <2>3
<1>10. FreshInv'
  BY <1>2, <1>3 DEF FreshInv, Outside
<1>. QED  BY <1>6, <1>8, <1>9, <1>10 DEF DmaInv

-----------------------------------------------------------------------------
(* The theorems about push buffers.                                        *)

LEMMA NextInv == DmaInv /\ [DmaNext]_dmaVars => DmaInv'
<1>. SUFFICES ASSUME DmaInv, [DmaNext]_dmaVars PROVE DmaInv'
  OBVIOUS
<1>1. ASSUME UNCHANGED <<cur, put, free, ibPut, ibFree, drv, ibGet, get, seg, pend>>
      PROVE  DmaInv'
  <2>1. DmaTypeOK' /\ CallInv' /\ IbInv'
    BY <1>1 DEF DmaInv, DmaTypeOK, CallInv, IbInv, DrvAt
  <2>2. WindowInv'
    BY <1>1 DEF DmaInv, WindowInv, Ents, Ent, End, InRing, Clear, Before
  <2>3. TurnInv' /\ FreshInv'
    BY <1>1 DEF DmaInv, TurnInv, FreshInv, DrvAt, Ents, Ent, End, InRing
  <2>. QED  BY <2>1, <2>2, <2>3 DEF DmaInv
<1>2. CASE UNCHANGED dmaVars
  BY <1>1, <1>2 DEF dmaVars, ringVars, gpuVars
<1>3. CASE Hang
  BY <1>1, <1>3 DEF Hang, ringVars, gpuVars
<1>. QED  BY <1>2, <1>3, CallStep, IbWaitStep, RingWaitStep, RingTurnStep, GemPushStep,
             KickStep, FailStep, IbFetchStep, WordFetchStep DEF DmaNext, DrvStep

\* The window of the driver and the order of the entries are what DmaInv says
\* in every state (nv50_dma_wait, nv50_dma_push, FIRE_RING).
THEOREM DmaInvariant == DmaSpec => []DmaInv
<1>. QED  BY DmaInitInv, NextInv, PTL DEF DmaSpec

\* The driver never writes over words that the GPU has still to fetch, nor past
\* the end of the push buffer: nv50_dma_wait's choice of the room, its turn to
\* the start, and GETs outside the push buffer.
THEOREM RingSafe == DmaSpec => []RingIntact
<1>1. DmaInv => RingIntact
  <2>. SUFFICES ASSUME DmaInv, DrvAt("write")
                PROVE  LET words == cur .. (cur + drv.size - 1)
                       IN  words \cap Unfetched = {} /\ words \subseteq 0..(DmaMax - 1)
    BY DEF RingIntact
  <2>. DEFINE size == drv.size
              words == cur .. (cur + size - 1)
  <2>1. cur \in Nat /\ size \in Nat /\ free \in Int /\ size <= free /\ cur + free <= DmaMax
    BY DEF DmaInv, DmaTypeOK, CallInv, WindowInv, DrvAt
  <2>2. words \subseteq 0..(DmaMax - 1)
    BY <2>1
  <2>3. ASSUME NEW i \in Ents, InRing(Ent(i))
        PROVE  words \cap (Ent(i).at .. (Ent(i).at + Ent(i).len - 1)) = {}
    <3>1. Ent(i) \in Entry /\ Clear(Ent(i))
      BY <2>3, Entries DEF DmaInv, WindowInv
    <3>. DEFINE a == Ent(i).at
                l == Ent(i).len
    <3>2. a \in Int /\ l \in Nat /\ (a + l <= cur \/ cur + free < a)
      BY <3>1, EntryInts DEF Clear
    <3>. HIDE DEF a, l, size
    <3>3. words \cap (a .. (a + l - 1)) = {}
      BY <2>1, <3>2
    <3>. QED  BY <3>3 DEF a, l
  <2>4. ASSUME NEW w \in Unfetched
        PROVE  \E i \in Ents : InRing(Ent(i)) /\ w \in Ent(i).at .. (Ent(i).at + Ent(i).len - 1)
    <3>1. PICK e \in ToSet(pend) \cup {seg} :
            w \in IF e.at = Outside THEN {} ELSE e.at .. (e.at + e.len - 1)
      BY <2>4 DEF Unfetched
    <3>2. InRing(e) /\ w \in e.at .. (e.at + e.len - 1)
      BY <3>1 DEF InRing
    <3>3. PICK i \in Ents : Ent(i) = e
      <4>1. pend \in Seq(Entry) /\ Len(pend) \in Nat /\ DOMAIN pend = 1..Len(pend)
        BY LenProperties DEF DmaInv, DmaTypeOK
      <4>2. CASE e = seg
        BY <4>1, <4>2 DEF Ents, Ent
      <4>3. CASE e \in ToSet(pend)
        BY <4>1, <4>3 DEF ToSet, Ents, Ent
      <4>. QED  BY <4>2, <4>3
    <3>. QED  BY <3>2, <3>3
  <2>5. words \cap Unfetched = {}
    BY <2>3, <2>4
  <2>. QED  BY <2>2, <2>5
<1>. QED  BY <1>1, DmaInvariant, PTL

\* ib_free, one too many or not, never lets the driver push an entry over one
\* that the GPU has not fetched (nv50_dma_push_wait).
THEOREM IbSafe == DmaSpec => []IbIntact
<1>1. DmaInv => IbIntact
  <2>. SUFFICES ASSUME DmaInv PROVE IbIntact
    OBVIOUS
  <2>. DEFINE n == Len(pend)
              d == IbMax + 1
  <2>1. /\ n \in Nat /\ n < d /\ d \in Nat \ {0} /\ ibPut \in Int /\ ibGet \in Int
        /\ ibPut - ibGet = n \/ ibPut - ibGet = n - d
    BY Entries DEF DmaInv, DmaTypeOK, IbInv
  <2>2. n % d = n /\ (n - d) % d = n
    <3>. HIDE DEF n, d
    <3>. QED  BY <2>1, SMTT(30)
  <2>3. n = (ibPut - ibGet) % d
    <3>. HIDE DEF n, d
    <3>. QED  BY <2>1, <2>2
  <2>4. drv.pc \in {"push", "write"} => ibFree >= 1
    BY DEF DmaInv, DmaTypeOK, DrvCall, CallInv, DrvAt
  <2>. QED  BY <2>3, <2>4 DEF IbIntact
<1>. QED  BY <1>1, DmaInvariant, PTL
=============================================================================
