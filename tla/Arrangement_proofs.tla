-------------------------- MODULE Arrangement_proofs --------------------------
(***************************************************************************)
(* With arrangement record alone, OBS does what Live does once the bridge   *)
(* has caught up: for any backlog, any callbacks of the count-in between    *)
(* the edges, crashes included.                                             *)
(*                                                                          *)
(* The argument: the listener's flags say which edge was found last; the    *)
(* edges on their way alternate, beginning with the opposite of what the    *)
(* start time says (_started_at: a take has begun and has not ended) and    *)
(* ending with what the flags say.  When none is on its way, a take has     *)
(* begun exactly if the flags say so, and when the listener is at rest they *)
(* say what Live does.  OBS does not record a take that has begun only if   *)
(* its start was dropped (ms_since_record_mode_on raised), and then the     *)
(* switch is off already and its STOPPED is on its way (StaleEnds).         *)
(*                                                                          *)
(* The same edges make OBS a delayed copy of Live's switch: a record_mode   *)
(* that changes it is a Flip of DelayedSwitch, OBS starting or stopping is  *)
(* a Follow, a dropped start is a Skip, a crash is a Restart, and every     *)
(* other step hands an edge on without changing the order of those on their *)
(* way.                                                                     *)
(***************************************************************************)
EXTENDS Bridge_proofs, WellFoundedInduction

\* Session record and clips are not used, no notification meets the boot sync,
\* and nothing goes wrong but that the bridge may die.
ArrangementOnly ==
    /\ Sessions = {0}
    /\ ClipScans \subseteq {FALSE}
    /\ ~BootRace
    /\ Faults \subseteq {"crash"}

On == signals.arrangement = 1

\* What is not used is never seen, and no thread comes near it.
Calm ==
    /\ signals.session = 0 /\ ~signals.clip
    /\ \A t \in Thread : seen[t].session = 0 /\ ~seen[t].clip
    /\ pc["poll"] = "rest"
    /\ pc["osc"] \in {"rest", "countInDone", "modeOn", "modeOff", "snapshot", "compareStart",
                      "setStart", "compareStop", "setStop", "emit"}
    /\ after["osc"] = "rest"
    /\ ~pendingObsStart
    /\ wpc \notin {"fetch", "decide"}
    /\ obs = "orphan" => pc["main"] = "orphan"

\* The boot sync finds what the osc thread has found before it.
CalmBoot ==
    /\ pc["main"] \in {"orphan", "scan", "bootSnapshot", "bootCompare", "bootStop", "up"}
    /\ edges["main"] = <<>>
    /\ pc["main"] \in {"orphan", "bootCompare", "bootStop"} => pc["osc"] = "rest"
    /\ pc["main"] \in {"bootCompare", "bootStop"} =>
          seen["main"].arrangement = signals.arrangement
    /\ pc["main"] = "orphan" => signals.arrangement = 0

\* How far apply() has brought its flags up to date.
FlagsFollow ==
    /\ pc["osc"] \in {"rest", "countInDone"} => (wasStart <=> On) /\ (wasStop <=> On)
    /\ pc["osc"] \in {"modeOn", "modeOff", "snapshot", "compareStart", "setStart"} =>
          (wasStart <=> wasStop)
    /\ pc["osc"] = "modeOn" => ~wasStop
    /\ pc["osc"] \in {"compareStop", "setStop", "emit"} => (wasStart <=> On)
    /\ pc["osc"] = "emit" => (wasStop <=> On)
    /\ pc["osc"] \in {"compareStart", "setStart", "compareStop", "setStop"} =>
          seen["osc"].arrangement = signals.arrangement

\* The time record mode went on is known while it is on, but for the step that
\* brings it up to date.
ModeStamped ==
    /\ pc["osc"] = "modeOn" => On
    /\ pc["osc"] = "modeOff" => ~On
    /\ pc["osc"] # "modeOff" => (recordModeOn <=> On /\ pc["osc"] # "modeOn")

\* And which edges it has found and not emitted.
EdgesFound ==
    /\ pc["osc"] \in {"rest", "countInDone", "modeOn", "modeOff", "snapshot", "compareStart"} =>
          edges["osc"] = <<>>
    /\ pc["osc"] \in {"setStart", "compareStop"} =>
          edges["osc"] = IF On /\ ~wasStop THEN <<"STARTED">> ELSE <<>>
    /\ pc["osc"] = "setStop" =>
          edges["osc"] = IF On <=> wasStop THEN <<>>
                         ELSE IF On THEN <<"STARTED">> ELSE <<"STOPPED">>
    /\ pc["osc"] = "emit" => edges["osc"] = IF On THEN <<"STARTED">> ELSE <<"STOPPED">>

\* Does callback c lead from x to y?  (1: a take has begun, 0: none has)
Turn(x, c, y) ==
    /\ c.kind = "STARTED" => c.on /\ x = 0 /\ y = 1
    /\ c.kind = "STOPPED" => x = 1 /\ y = 0
    /\ c.kind = "COUNT_IN_FINISHED" => x = y

\* Do the callbacks of q, one after the other, lead from a to b?
Leads(q, a, b) ==
    \E s \in [1..(Len(q) + 1) -> {0, 1}] :
        /\ s[1] = a /\ s[Len(q) + 1] = b
        /\ \A i \in 1..Len(q) : Turn(s[i], q[i], s[i + 1])

Bit(b) == IF b THEN 1 ELSE 0

\* Has a take begun when the worker is done with its callback?
AfterJob ==
    IF job.kind = "STARTED" /\ wpc = "run" THEN 1
    ELSE IF job.kind = "STOPPED" /\ wpc \in {"run", "stop", "stopped", "finalize"} THEN 0
    ELSE Bit(hasStart)

\* And after all that is in the queue?
Emitted == IF pc["osc"] = "emit" THEN Bit(~wasStop) ELSE Bit(wasStop)

JobAlternates ==
    /\ wpc = "run" => Turn(Bit(hasStart), job, AfterJob)
    /\ wpc \in {"lag", "start"} => job.kind = "STARTED"
    /\ wpc \in {"stop", "stopped", "finalize"} => job.kind = "STOPPED"
    /\ obs = "take" \/ wpc \in {"lag", "start", "started"} => hasStart

EdgesAlternate == Leads(queue, AfterJob, Emitted)

\* A start that was dropped has its stop on the way.
StaleEnds ==
    StaleStartTime =>
        \/ Running("STOPPED")
        \/ EdgesAmong(queue) # <<>>
        \/ ~recordModeOn /\ Emitted = 1

Detected == FlagsFollow /\ ModeStamped /\ EdgesFound
Alternates == JobAlternates /\ EdgesAlternate /\ StaleEnds
SInv == IInv /\ Calm /\ CalmBoot /\ Detected /\ Alternates

-----------------------------------------------------------------------------
(* Sequences of callbacks.                                                  *)

\* Nothing on its way leads nowhere.
LEMMA LeadsNowhere ==
    /\ \A a \in {0, 1} : Leads(<<>>, a, a)
    /\ \A a, b : Leads(<<>>, a, b) => a = b
<1>1. ASSUME NEW a \in {0, 1} PROVE Leads(<<>>, a, a)
  <2> DEFINE s == [i \in 1..1 |-> a]
  <2>1. s \in [1..(Len(<<>>) + 1) -> {0, 1}] /\ s[1] = a /\ s[Len(<<>>) + 1] = a
    OBVIOUS
  <2>2. \A i \in 1..Len(<<>>) : FALSE
    OBVIOUS
  <2> QED
    BY <2>1, <2>2 DEF Leads
<1>2. ASSUME NEW a, NEW b, Leads(<<>>, a, b) PROVE a = b
  BY <1>2 DEF Leads
<1> QED
  BY <1>1, <1>2

\* One more callback at the end.
LEMMA LeadsOn ==
    ASSUME NEW q \in Seq(Callback), NEW c \in Callback, NEW a, NEW b, NEW d \in {0, 1},
           Leads(q, a, b), Turn(b, c, d)
    PROVE  Leads(Append(q, c), a, d)
<1>1. PICK s \in [1..(Len(q) + 1) -> {0, 1}] :
          /\ s[1] = a /\ s[Len(q) + 1] = b
          /\ \A i \in 1..Len(q) : Turn(s[i], q[i], s[i + 1])
  BY DEF Leads
<1> DEFINE r == Append(q, c)
           u == [i \in 1..(Len(r) + 1) |-> IF i = Len(q) + 2 THEN d ELSE s[i]]
<1>2. Len(r) = Len(q) + 1 /\ r[Len(q) + 1] = c /\ \A i \in 1..Len(q) : r[i] = q[i]
  OBVIOUS
<1>3. Len(q) \in Nat
  OBVIOUS
<1> HIDE DEF r
<1>4. u \in [1..(Len(r) + 1) -> {0, 1}] /\ u[1] = a /\ u[Len(r) + 1] = d
  BY <1>1, <1>2, <1>3
<1>5. ASSUME NEW i \in 1..Len(r) PROVE Turn(u[i], r[i], u[i + 1])
  <2>1. CASE i = Len(q) + 1
    <3>1. u[i] = b /\ u[i + 1] = d
      BY <1>1, <1>2, <1>3, <2>1
    <3> QED
      BY <1>2, <2>1, <3>1
  <2>2. CASE i # Len(q) + 1
    <3>1. i \in 1..Len(q) /\ i \in 1..(Len(r) + 1) /\ i + 1 \in 1..(Len(r) + 1)
      BY <1>2, <1>3, <2>2
    <3>2. u[i] = s[i] /\ u[i + 1] = s[i + 1]
      BY <1>3, <3>1
    <3> QED
      BY <1>1, <1>2, <3>1, <3>2
  <2> QED
    BY <2>1, <2>2
<1>6. Leads(r, a, d)
  BY <1>4, <1>5 DEF Leads
<1> QED
  BY <1>6 DEF r

\* The first callback is taken off.
LEMMA LeadsPast ==
    ASSUME NEW q \in Seq(Callback), q # <<>>, NEW a, NEW b, Leads(q, a, b)
    PROVE  \E d \in {0, 1} : Turn(a, Head(q), d) /\ Leads(Tail(q), d, b)
<1>1. PICK s \in [1..(Len(q) + 1) -> {0, 1}] :
          /\ s[1] = a /\ s[Len(q) + 1] = b
          /\ \A i \in 1..Len(q) : Turn(s[i], q[i], s[i + 1])
  BY DEF Leads
<1> DEFINE r == Tail(q)
           u == [i \in 1..(Len(r) + 1) |-> s[i + 1]]
<1>2. Len(q) \in Nat \ {0} /\ Len(r) = Len(q) - 1 /\ Head(q) = q[1]
  OBVIOUS
<1>3. \A i \in 1..Len(r) : r[i] = q[i + 1]
  OBVIOUS
<1> HIDE DEF r
<1>4. u \in [1..(Len(r) + 1) -> {0, 1}] /\ u[1] = s[2] /\ u[Len(r) + 1] = b
  BY <1>1, <1>2
<1>5. ASSUME NEW i \in 1..Len(r) PROVE Turn(u[i], r[i], u[i + 1])
  <2>1. i + 1 \in 1..Len(q) /\ u[i] = s[i + 1] /\ u[i + 1] = s[i + 2] /\ (i + 1) + 1 = i + 2
    BY <1>2
  <2> QED
    BY <1>1, <1>3, <2>1
<1>6. s[2] \in {0, 1} /\ Turn(a, Head(q), s[2])
  BY <1>1, <1>2
<1>7. Leads(r, s[2], b)
  BY <1>4, <1>5 DEF Leads
<1> QED
  BY <1>6, <1>7 DEF r

-----------------------------------------------------------------------------
(* The edges among the callbacks of a queue.  EdgesAmong is a recursive      *)
(* function: that it has a value, and only one, is shown by induction over   *)
(* the number of callbacks scanned.                                         *)

\* Induction over the natural numbers, for sets.
LEMMA NatSets ==
    ASSUME NEW S \in SUBSET Nat, 0 \in S, \A n \in S : n + 1 \in S
    PROVE  S = Nat
<1> SUFFICES ASSUME Nat \ S # {} PROVE FALSE
  OBVIOUS
<1> DEFINE R == OpToRel(<, Nat)
<1>1. \A x, y \in Nat : <<x, y>> \in R <=> x < y
  BY DEF OpToRel
<1>2. IsWellFoundedOn(R, Nat)
  BY NatLessThanWellFounded
<1> HIDE DEF R
<1>3. PICK x \in Nat \ S : \A y \in Nat \ S : ~ (<<y, x>> \in R)
  BY <1>2, WFMin
<1>4. x - 1 \in Nat /\ x - 1 < x
  BY <1>3
<1>5. x - 1 \in S
  BY <1>1, <1>3, <1>4
<1> QED
  BY <1>3, <1>5

\* f scans q: at n it has the edges among the first n callbacks.
Scans(f, q) ==
    /\ f \in [0..Len(q) -> Seq(Edge)]
    /\ f[0] = <<>>
    /\ \A n \in 1..Len(q) : f[n] = WithEdge(f[n - 1], q[n])

\* A callback adds at most one edge.
LEMMA WithEdgeType ==
    ASSUME NEW s \in Seq(Edge), NEW c \in Callback
    PROVE  WithEdge(s, c) \in Seq(Edge)
BY DEF WithEdge

\* Every queue has a scan.
LEMMA ScanExists == ASSUME NEW q \in Seq(Callback) PROVE \E f : Scans(f, q)
<1> DEFINE Upto(n) == \E f \in [0..n -> Seq(Edge)] :
                          /\ f[0] = <<>>
                          /\ \A i \in 1..n : f[i] = WithEdge(f[i - 1], q[i])
           S == {n \in Nat : n <= Len(q) => Upto(n)}
<1>1. Upto(0)
  <2> DEFINE f == [i \in 0..0 |-> <<>>]
  <2>1. f \in [0..0 -> Seq(Edge)] /\ f[0] = <<>> /\ 1..0 = {}
    OBVIOUS
  <2> QED
    BY <2>1
<1>2. ASSUME NEW n \in S, n + 1 <= Len(q) PROVE Upto(n + 1)
  <2>1. n \in Nat /\ Len(q) \in Nat /\ n <= Len(q)
    BY <1>2
  <2>2. PICK f \in [0..n -> Seq(Edge)] :
            f[0] = <<>> /\ \A i \in 1..n : f[i] = WithEdge(f[i - 1], q[i])
    BY <2>1
  <2> DEFINE g == [i \in 0..(n + 1) |-> IF i = n + 1 THEN WithEdge(f[n], q[n + 1]) ELSE f[i]]
  <2>3. q[n + 1] \in Callback /\ f[n] \in Seq(Edge)
    BY <1>2, <2>1, <2>2
  <2>4. WithEdge(f[n], q[n + 1]) \in Seq(Edge)
    BY <2>3, WithEdgeType
  <2>5. g \in [0..(n + 1) -> Seq(Edge)] /\ g[0] = <<>>
    BY <2>1, <2>2, <2>4
  <2>6. ASSUME NEW i \in 1..(n + 1) PROVE g[i] = WithEdge(g[i - 1], q[i])
    <3>1. i - 1 \in 0..n /\ i \in 0..(n + 1) /\ i - 1 \in 0..(n + 1) /\ i - 1 # n + 1
      BY <2>1
    <3>2. g[i - 1] = f[i - 1]
      BY <3>1
    <3>3. CASE i = n + 1
      BY <2>1, <3>1, <3>2, <3>3
    <3>4. CASE i # n + 1
      <4>1. i \in 1..n /\ g[i] = f[i]
        BY <2>1, <3>1, <3>4
      <4> QED
        BY <2>2, <3>2, <4>1
    <3> QED
      BY <3>3, <3>4
  <2> HIDE DEF g
  <2> QED
    BY <2>5, <2>6
<1> HIDE DEF Upto
<1>3. S = Nat
  <2>1. S \in SUBSET Nat /\ 0 \in S
    BY <1>1
  <2>2. \A n \in S : n + 1 \in S
    BY <1>2
  <2> HIDE DEF S
  <2> QED
    BY <2>1, <2>2, NatSets
<1>4. Upto(Len(q))
  BY <1>3
<1> QED
  BY <1>4 DEF Upto, Scans

\* And only one, whose end are the edges among its callbacks.
LEMMA ScanEnd ==
    ASSUME NEW q \in Seq(Callback), NEW f, Scans(f, q)
    PROVE  EdgesAmong(q) = f[Len(q)]
<1> DEFINE Whole(h) == h = [n \in 0..Len(q) |->
                               IF n = 0 THEN <<>> ELSE WithEdge(h[n - 1], q[n])]
           g == CHOOSE h : Whole(h)
<1>1. EdgesAmong(q) = g[Len(q)]
  BY DEF EdgesAmong
<1>2. Whole(f)
  <2>1. Len(q) \in Nat /\ \A n \in 0..Len(q) : n = 0 \/ n \in 1..Len(q)
    OBVIOUS
  <2>2. \A n \in 0..Len(q) : f[n] = IF n = 0 THEN <<>> ELSE WithEdge(f[n - 1], q[n])
    BY <2>1 DEF Scans
  <2>3. f = [n \in 0..Len(q) |-> f[n]]
    BY DEF Scans
  <2> QED
    BY <2>2, <2>3
<1>3. Whole(g)
  BY <1>2, Zenon
<1> HIDE DEF g
<1> DEFINE S == {n \in Nat : n <= Len(q) => g[n] = f[n]}
<1>4. Len(q) \in Nat
  OBVIOUS
<1>5. 0 \in S
  BY <1>3, <1>4 DEF Scans
<1>6. ASSUME NEW n \in S, n + 1 <= Len(q) PROVE g[n + 1] = f[n + 1]
  <2>1. n + 1 \in 1..Len(q) /\ n + 1 \in 0..Len(q) /\ n + 1 # 0 /\ (n + 1) - 1 = n /\ g[n] = f[n]
    BY <1>4, <1>6
  <2>2. g[n + 1] = WithEdge(g[(n + 1) - 1], q[n + 1])
    BY <1>3, <2>1
  <2>3. f[n + 1] = WithEdge(f[(n + 1) - 1], q[n + 1])
    BY <2>1 DEF Scans
  <2> QED
    BY <2>1, <2>2, <2>3
<1> HIDE DEF Whole
<1>7. S = Nat
  <2>1. S \in SUBSET Nat
    OBVIOUS
  <2>2. \A n \in S : n + 1 \in S
    BY <1>6
  <2> HIDE DEF S
  <2> QED
    BY <1>5, <2>1, <2>2, NatSets
<1> QED
  BY <1>1, <1>4, <1>7

\* Nothing among no callbacks.
LEMMA EdgesAmongNone == EdgesAmong(<<>>) = <<>>
<1>1. <<>> \in Seq(Callback)
  BY ShortType
<1>2. PICK f : Scans(f, <<>>)
  BY <1>1, ScanExists
<1>3. EdgesAmong(<<>>) = f[Len(<<>>)]
  BY <1>1, <1>2, ScanEnd
<1> QED
  BY <1>2, <1>3 DEF Scans

\* What is among the callbacks are edges.
LEMMA EdgesAmongType == ASSUME NEW q \in Seq(Callback) PROVE EdgesAmong(q) \in Seq(Edge)
<1>1. PICK f : Scans(f, q)
  BY ScanExists
<1>2. EdgesAmong(q) = f[Len(q)]
  BY <1>1, ScanEnd
<1>3. Len(q) \in 0..Len(q)
  OBVIOUS
<1> QED
  BY <1>1, <1>2, <1>3 DEF Scans

\* One more callback.
LEMMA EdgesAmongAppend ==
    ASSUME NEW q \in Seq(Callback), NEW c \in Callback
    PROVE  EdgesAmong(Append(q, c)) = WithEdge(EdgesAmong(q), c)
<1>1. PICK f : Scans(f, q)
  BY ScanExists
<1>2. EdgesAmong(q) = f[Len(q)]
  BY <1>1, ScanEnd
<1> DEFINE r == Append(q, c)
           g == [n \in 0..Len(r) |-> IF n = Len(r) THEN WithEdge(f[Len(q)], c) ELSE f[n]]
<1>3. /\ r \in Seq(Callback) /\ Len(r) = Len(q) + 1 /\ Len(q) \in Nat
      /\ r[Len(q) + 1] = c /\ \A n \in 1..Len(q) : r[n] = q[n]
  OBVIOUS
<1> HIDE DEF r
<1>4. WithEdge(f[Len(q)], c) \in Seq(Edge)
  <2>1. f[Len(q)] \in Seq(Edge)
    BY <1>1, <1>3 DEF Scans
  <2> QED
    BY <2>1, WithEdgeType
<1>5. g \in [0..Len(r) -> Seq(Edge)] /\ g[0] = <<>>
  BY <1>1, <1>3, <1>4 DEF Scans
<1>6. ASSUME NEW n \in 1..Len(r) PROVE g[n] = WithEdge(g[n - 1], r[n])
  <2>1. n - 1 \in 0..Len(q) /\ n \in 0..Len(r) /\ n - 1 \in 0..Len(r) /\ n - 1 # Len(r)
    BY <1>3
  <2>2. g[n - 1] = f[n - 1]
    BY <2>1
  <2>3. CASE n = Len(r)
    BY <1>3, <2>1, <2>2, <2>3
  <2>4. CASE n # Len(r)
    <3>1. n \in 1..Len(q) /\ g[n] = f[n]
      BY <1>3, <2>1, <2>4
    <3> QED
      BY <1>1, <1>3, <2>2, <3>1 DEF Scans
  <2> QED
    BY <2>3, <2>4
<1>7. Len(r) \in 0..Len(r) /\ g[Len(r)] = WithEdge(f[Len(q)], c)
  BY <1>3
<1> HIDE DEF g
<1>8. Scans(g, r)
  BY <1>5, <1>6 DEF Scans
<1>9. EdgesAmong(r) = g[Len(r)]
  BY <1>3, <1>8, ScanEnd
<1> QED
  BY <1>2, <1>7, <1>9 DEF r

\* An edge is added at the end of what there is.
LEMMA WithEdgeAfter ==
    ASSUME NEW a \in Seq(Edge), NEW s \in Seq(Edge), NEW c \in Callback
    PROVE  WithEdge(a \o s, c) = a \o WithEdge(s, c)
<1>1. ASSUME c.kind \in Edge PROVE Append(a \o s, c.kind) = a \o Append(s, c.kind)
  BY <1>1
<1> QED
  BY <1>1 DEF WithEdge

\* The first callback apart.
LEMMA EdgesAmongTail ==
    ASSUME NEW q \in Seq(Callback), q # <<>>
    PROVE  EdgesAmong(q) = WithEdge(<<>>, Head(q)) \o EdgesAmong(Tail(q))
<1> DEFINE r == Tail(q)
           a == WithEdge(<<>>, Head(q))
<1>1. /\ r \in Seq(Callback) /\ Len(q) \in Nat \ {0} /\ Len(r) = Len(q) - 1
      /\ Head(q) = q[1] /\ Head(q) \in Callback /\ \A n \in 1..Len(r) : r[n] = q[n + 1]
  OBVIOUS
<1> HIDE DEF r
<1>2. PICK g : Scans(g, r)
  BY <1>1, ScanExists
<1>3. EdgesAmong(r) = g[Len(r)]
  BY <1>1, <1>2, ScanEnd
<1>4. a \in Seq(Edge)
  BY <1>1, ShortType, WithEdgeType
<1>a. a = WithEdge(<<>>, q[1])
  BY <1>1
<1> HIDE DEF a
<1> DEFINE f == [n \in 0..Len(q) |-> IF n = 0 THEN <<>> ELSE a \o g[n - 1]]
<1>5. f \in [0..Len(q) -> Seq(Edge)] /\ f[0] = <<>>
  <2>1. ASSUME NEW n \in 0..Len(q), n # 0 PROVE a \o g[n - 1] \in Seq(Edge)
    <3>1. n - 1 \in 0..Len(r)
      BY <1>1, <2>1
    <3>2. g \in [0..Len(r) -> Seq(Edge)]
      BY <1>2 DEF Scans
    <3>3. g[n - 1] \in Seq(Edge)
      BY <3>1, <3>2
    <3> QED
      BY <1>4, <3>3
  <2> QED
    BY <1>1, <2>1
<1>6. ASSUME NEW n \in 1..Len(q) PROVE f[n] = WithEdge(f[n - 1], q[n])
  <2>1. n \in 0..Len(q) /\ n - 1 \in 0..Len(q) /\ n - 1 \in 0..Len(r) /\ n # 0
    BY <1>1
  <2>2. f[n] = a \o g[n - 1] /\ g[n - 1] \in Seq(Edge)
    BY <1>2, <2>1 DEF Scans
  <2>3. CASE n = 1
    <3>1. g[n - 1] = <<>> /\ f[n - 1] = <<>>
      BY <1>2, <2>1, <2>3 DEF Scans
    <3>2. a \o <<>> = a
      BY <1>4
    <3> QED
      BY <1>a, <2>2, <2>3, <3>1, <3>2
  <2>4. CASE n # 1
    <3>1. /\ n - 1 \in 1..Len(r) /\ r[n - 1] = q[n] /\ n - 1 # 0 /\ (n - 1) - 1 \in 0..Len(r)
          /\ q[n] \in Callback
      BY <1>1, <2>1, <2>4
    <3>2. g[n - 1] = WithEdge(g[(n - 1) - 1], q[n]) /\ g[(n - 1) - 1] \in Seq(Edge)
      BY <1>2, <3>1 DEF Scans
    <3>3. f[n - 1] = a \o g[(n - 1) - 1]
      BY <2>1, <3>1
    <3>4. WithEdge(a \o g[(n - 1) - 1], q[n]) = a \o WithEdge(g[(n - 1) - 1], q[n])
      BY <1>4, <3>1, <3>2, WithEdgeAfter
    <3> QED
      BY <2>2, <3>2, <3>3, <3>4
  <2> QED
    BY <2>3, <2>4
<1>7. f[Len(q)] = a \o g[Len(r)]
  BY <1>1
<1> HIDE DEF f
<1>8. Scans(f, q)
  BY <1>5, <1>6 DEF Scans
<1>9. EdgesAmong(q) = f[Len(q)]
  BY <1>8, ScanEnd
<1> QED
  BY <1>3, <1>7, <1>9 DEF a, r

\* Callbacks without an edge lead nowhere.
LEMMA NoEdgesLeadNowhere ==
    ASSUME NEW q \in Seq(Callback), NEW a, NEW b, Leads(q, a, b), EdgesAmong(q) = <<>>
    PROVE  a = b
<1> DEFINE S == {n \in Nat : \A p \in Seq(Callback) : \A c :
                    Len(p) = n /\ Leads(p, c, b) /\ EdgesAmong(p) = <<>> => c = b}
<1>1. 0 \in S
  <2>1. \A p \in Seq(Callback) : Len(p) = 0 => p = <<>>
    OBVIOUS
  <2> QED
    BY <2>1, LeadsNowhere
<1>2. ASSUME NEW n \in S PROVE n + 1 \in S
  <2> SUFFICES ASSUME NEW p \in Seq(Callback), NEW c, Len(p) = n + 1, Leads(p, c, b),
                      EdgesAmong(p) = <<>>
               PROVE  c = b
    OBVIOUS
  <2>1. /\ n \in Nat
        /\ \A t \in Seq(Callback) : \A d : Len(t) = n /\ Leads(t, d, b) /\ EdgesAmong(t) = <<>> => d = b
    BY <1>2
  <2>2. p # <<>> /\ Tail(p) \in Seq(Callback) /\ Len(Tail(p)) = n /\ Head(p) \in Callback
    BY <2>1
  <2>3. PICK d \in {0, 1} : Turn(c, Head(p), d) /\ Leads(Tail(p), d, b)
    BY <2>2, LeadsPast
  <2>4. /\ WithEdge(<<>>, Head(p)) \o EdgesAmong(Tail(p)) = <<>>
        /\ WithEdge(<<>>, Head(p)) \in Seq(Edge) /\ EdgesAmong(Tail(p)) \in Seq(Edge)
    BY <2>2, EdgesAmongTail, EdgesAmongType, WithEdgeType, ShortType
  <2>5. WithEdge(<<>>, Head(p)) = <<>> /\ EdgesAmong(Tail(p)) = <<>>
    BY <2>4
  <2>6. Head(p).kind = "COUNT_IN_FINISHED"
    <3>1. \A e : Append(<<>>, e) # <<>>
      OBVIOUS
    <3> QED
      BY <2>2, <2>5, <3>1 DEF WithEdge, Callback, CallbackKind
  <2>7. c = d
    BY <2>3, <2>6 DEF Turn
  <2> QED
    BY <2>1, <2>2, <2>3, <2>5, <2>7
<1>3. S = Nat
  <2>1. S \in SUBSET Nat
    OBVIOUS
  <2> HIDE DEF S
  <2> QED
    BY <1>1, <1>2, <2>1, NatSets
<1>4. Len(q) \in Nat
  OBVIOUS
<1> QED
  BY <1>3, <1>4

\* A callback that is put in the queue leaves the edges in it.
LEMMA EdgesStay ==
    ASSUME NEW q \in Seq(Callback), NEW c \in Callback
    PROVE  EdgesAmong(Append(q, c)) = <<>> => EdgesAmong(q) = <<>> /\ c.kind \notin Edge
<1>1. EdgesAmong(Append(q, c)) = WithEdge(EdgesAmong(q), c) /\ EdgesAmong(q) \in Seq(Edge)
  BY EdgesAmongAppend, EdgesAmongType
<1>2. \A s \in Seq(Edge), e \in Edge : Append(s, e) # <<>>
  OBVIOUS
<1> QED
  BY <1>1, <1>2 DEF WithEdge

-----------------------------------------------------------------------------
(* The invariant at the beginning, and what leaves it alone.                *)

\* The bridge starts with nothing detected and nothing on its way.
LEMMA InitSInv == Init => SInv
<1> SUFFICES ASSUME Init PROVE SInv
  OBVIOUS
<1>1. IInv
  BY InitIInv
<1>2. /\ pc["main"] = "orphan" /\ pc["osc"] = "rest" /\ pc["poll"] = "rest"
      /\ edges["main"] = <<>> /\ edges["osc"] = <<>> /\ after["osc"] = "rest"
      /\ \A t \in Thread : seen[t] = NoSignals
  BY DEF Init, ListenerInit, Thread
<1>3. Calm /\ CalmBoot /\ Detected
  BY <1>2 DEF Init, ListenerInit, RecorderInit, NoSignals, Calm, CalmBoot, Detected,
              FlagsFollow, ModeStamped, EdgesFound, On, SharedInit
<1>4. AfterJob = 0 /\ Emitted = 0
  BY <1>2 DEF Init, ListenerInit, RecorderInit, AfterJob, Emitted, Bit, NoJob
<1>5. Alternates
  BY <1>4, LeadsNowhere
  DEF Init, SharedInit, RecorderInit, Alternates, JobAlternates, EdgesAlternate, StaleEnds,
      StaleStartTime
<1> QED
  BY <1>1, <1>3, <1>5 DEF SInv

\* A step that keeps the worker, the queue and what the flags say.
LEMMA AlternatesKept ==
    ASSUME Alternates, UNCHANGED <<queue, isRecording, wpc, job, hasStart, obs>>,
           Emitted' = Emitted, Emitted = 1 /\ ~recordModeOn => ~recordModeOn'
    PROVE  Alternates'
BY DEF Alternates, JobAlternates, EdgesAlternate, AfterJob, StaleEnds, StaleStartTime, Running

\* The listener puts a callback in the queue.
LEMMA AlternatesOn ==
    ASSUME TypeOK, Alternates, UNCHANGED <<isRecording, recordModeOn, wpc, job, hasStart, obs>>,
           NEW c \in Callback, queue' = Append(queue, c),
           Turn(Emitted, c, Emitted'), Emitted' \in {0, 1}
    PROVE  Alternates'
<1>1. AfterJob' = AfterJob
  BY DEF AfterJob
<1>2. Leads(queue', AfterJob, Emitted')
  BY LeadsOn DEF TypeOK, SharedTypeOK, Alternates, EdgesAlternate
<1>3. EdgesAmong(queue') = <<>> => EdgesAmong(queue) = <<>> /\ Emitted' = Emitted
  BY EdgesStay DEF TypeOK, SharedTypeOK, Callback, CallbackKind, Turn
<1>4. StaleEnds'
  BY <1>3 DEF Alternates, StaleEnds, StaleStartTime, Running
<1> QED
  BY <1>1, <1>2, <1>4 DEF Alternates, JobAlternates, EdgesAlternate

\* With session record unused both predicates ask for the arrangement only.
LEMMA OneSwitch ==
    ASSUME NEW s \in Signals, s.session = 0, ~s.clip
    PROVE  (StartActive(s) <=> s.arrangement = 1) /\ (StopActive(s) <=> s.arrangement = 1)
BY DEF StartActive, StopActive

-----------------------------------------------------------------------------
(* What Live does.                                                          *)

\* A notification finds the osc thread at rest and changes the record switch, or
\* the count-in (osc_client.py:248-300); apply() is still to come.
LEMMA LiveSwitches == ASSUME ArrangementOnly, SInv, LiveNext PROVE SInv'
<1> USE DEF SInv, Calm, CalmBoot, Detected, FlagsFollow, ModeStamped, EdgesFound, On
<1>1. IInv'
  BY ListenerIInv
<1>2. UNCHANGED <<queue, isRecording, recordModeOn, wpc, job, hasStart, obs, pendingObsStart, seen,
                  edges, stateMachine>>
  BY DEF LiveNext, LiveInput, OscRecordMode, OscSessionStatus, OscCountingIn, PollScan,
         CallDispatch, recorderVars, workerVars, takeVars, sharedVars, attributes
<1>3. pc \in [Thread -> Place] /\ after \in [Thread -> AfterDispatch] /\ signals \in Signals
  BY DEF IInv, TypeOK, ListenerTypeOK
<1>4. Listening => pc["main"] \in {"scan", "bootSnapshot", "up"}
  BY DEF Listening, ArrangementOnly
<1>5. ASSUME NEW value \in Arrangements, OscRecordMode(value) PROVE SInv'
  <2>1. /\ pc["osc"] = "rest" /\ Listening /\ value \in {0, 1}
        /\ pc'["osc"] = IF value = 0 THEN "modeOff"
                       ELSE IF signals.arrangement = 0 THEN "modeOn" ELSE "snapshot"
        /\ pc'["poll"] = pc["poll"] /\ pc'["main"] = pc["main"] /\ after'["osc"] = "rest"
        /\ signals'.session = 0 /\ ~signals'.clip /\ signals'.arrangement = value
    BY <1>3, <1>5, ConstantsAssumption DEF OscRecordMode, Goto, Signals, SignalsOf, Thread
  <2>2. signals.arrangement \in {0, 1}
    BY <1>3, ConstantsAssumption DEF Signals, SignalsOf
  <2>3. Calm' /\ CalmBoot' /\ Detected'
    BY <1>2, <1>4, <2>1, <2>2 DEF stateMachine
  <2>4. Emitted' = Emitted
    BY <1>2, <2>1 DEF Emitted, stateMachine
  <2> QED
    BY <1>1, <1>2, <2>3, <2>4, AlternatesKept
<1>6. CASE \E value \in Sessions : OscSessionStatus(value)
  <2>1. /\ pc["osc"] = "rest" /\ pc' = [pc EXCEPT !["osc"] = "snapshot"]
        /\ after' = [after EXCEPT !["osc"] = "rest"] /\ Listening
        /\ signals'.session = 0 /\ ~signals'.clip /\ signals'.arrangement = signals.arrangement
    BY <1>3, <1>6 DEF OscSessionStatus, CallDispatch, Goto, Signals, SignalsOf, ArrangementOnly
  <2>2. /\ pc'["osc"] = "snapshot" /\ pc'["poll"] = pc["poll"] /\ pc'["main"] = pc["main"]
        /\ after'["osc"] = "rest"
    BY <1>3, <2>1 DEF Thread
  <2>3. Calm' /\ CalmBoot' /\ Detected'
    BY <1>2, <1>4, <2>1, <2>2 DEF stateMachine
  <2>4. Emitted' = Emitted
    BY <1>2, <2>1, <2>2 DEF Emitted, stateMachine
  <2> QED
    BY <1>1, <1>2, <2>3, <2>4, AlternatesKept
<1>7. CASE \E value \in CountIns : OscCountingIn(value)
  <2>1. /\ pc["osc"] = "rest" /\ Listening
        /\ \E to \in {"rest", "countInDone"} : pc' = [pc EXCEPT !["osc"] = to]
        /\ UNCHANGED <<signals, after>>
    BY <1>7 DEF OscCountingIn, Goto
  <2>2. /\ pc'["osc"] \in {"rest", "countInDone"}
        /\ pc'["poll"] = pc["poll"] /\ pc'["main"] = pc["main"]
    BY <1>3, <2>1 DEF Thread
  <2>3. Calm' /\ CalmBoot' /\ Detected'
    BY <1>2, <1>4, <2>1, <2>2 DEF stateMachine
  <2>4. Emitted' = Emitted
    BY <1>2, <2>1, <2>2 DEF Emitted, stateMachine
  <2> QED
    BY <1>1, <1>2, <2>3, <2>4, AlternatesKept
<1>8. CASE \E clip \in ClipScans : PollScan(clip)
  BY <1>8, <1>3 DEF PollScan, ArrangementOnly, Signals, SignalsOf
<1> QED
  BY <1>5, <1>6, <1>7, <1>8 DEF LiveNext, LiveInput

-----------------------------------------------------------------------------
(* The listener's threads.                                                  *)

\* apply() and its emission on the osc thread: the flags follow the switch, and a
\* change of them is an edge (recording_state.py:49-60, osc_client.py:199-209).
LEMMA DispatchFollows ==
    ASSUME SInv, DispatchStep("osc"), UNCHANGED recorderVars, IInv'
    PROVE  SInv'
<1> USE DEF SInv, Calm, CalmBoot, Detected, FlagsFollow, ModeStamped, EdgesFound, On, Goto,
            stateMachine
<1>1. /\ pc \in [Thread -> Place] /\ seen \in [Thread -> Signals]
      /\ edges \in [Thread -> Seq(Edge)] /\ signals \in Signals
      /\ wasStart \in BOOLEAN /\ wasStop \in BOOLEAN
  BY DEF IInv, TypeOK, ListenerTypeOK
<1>2. UNCHANGED <<wpc, job, hasStart, obs, pendingObsStart, isRecording, recordModeOn>>
  BY DEF recorderVars, workerVars, takeVars, DispatchStep, Snapshot, CompareStart, SetStart,
         CompareStop, SetStop, EmitEdge, sharedVars, attributes
<1>3. /\ StartActive(seen["osc"]) <=> seen["osc"].arrangement = 1
      /\ StopActive(seen["osc"]) <=> seen["osc"].arrangement = 1
  BY <1>1, OneSwitch DEF Thread
<1>4. "osc" \in Thread /\ "main" \in Thread /\ "poll" \in Thread
  BY DEF Thread
<1>5. CASE Snapshot("osc")
  <2>1. /\ pc["osc"] = "snapshot" /\ pc' = [pc EXCEPT !["osc"] = "compareStart"]
        /\ seen' = [seen EXCEPT !["osc"] = signals]
        /\ UNCHANGED <<edges, after, signals, wasStart, wasStop, queue>>
    BY <1>5 DEF Snapshot, sharedVars, attributes
  <2>2. Calm' /\ CalmBoot' /\ Detected'
    BY <1>1, <1>2, <1>4, <2>1
  <2>3. Emitted' = Emitted
    BY <1>1, <1>4, <2>1 DEF Emitted
  <2> QED
    BY <1>2, <2>1, <2>2, <2>3, AlternatesKept
<1>6. CASE CompareStart("osc")
  <2>1. /\ pc["osc"] = "compareStart" /\ pc' = [pc EXCEPT !["osc"] = "setStart"]
        /\ edges' = [edges EXCEPT !["osc"] =
                        IF StartActive(seen["osc"]) /\ ~wasStart THEN <<"STARTED">> ELSE <<>>]
        /\ UNCHANGED <<seen, after, signals, wasStart, wasStop, queue>>
    BY <1>6 DEF CompareStart, sharedVars, attributes
  <2>2. Calm' /\ CalmBoot' /\ Detected'
    BY <1>1, <1>2, <1>3, <1>4, <2>1
  <2>3. Emitted' = Emitted
    BY <1>1, <1>4, <2>1 DEF Emitted
  <2> QED
    BY <1>2, <2>1, <2>2, <2>3, AlternatesKept
<1>7. CASE SetStart("osc")
  <2>1. /\ pc["osc"] = "setStart" /\ pc' = [pc EXCEPT !["osc"] = "compareStop"]
        /\ wasStart' = StartActive(seen["osc"])
        /\ UNCHANGED <<edges, seen, after, signals, wasStop, queue>>
    BY <1>7 DEF SetStart, sharedVars, attributes
  <2>2. Calm' /\ CalmBoot' /\ Detected'
    BY <1>1, <1>2, <1>3, <1>4, <2>1
  <2>3. Emitted' = Emitted
    BY <1>1, <1>4, <2>1 DEF Emitted
  <2> QED
    BY <1>2, <2>1, <2>2, <2>3, AlternatesKept
<1>8. CASE CompareStop("osc")
  <2>1. /\ pc["osc"] = "compareStop" /\ pc' = [pc EXCEPT !["osc"] = "setStop"]
        /\ UNCHANGED <<seen, after, signals, wasStart, wasStop, queue>>
        /\ edges' = [edges EXCEPT !["osc"] =
                        IF ~StopActive(seen["osc"]) /\ wasStop THEN Append(@, "STOPPED") ELSE @]
    BY <1>8 DEF CompareStop, sharedVars, attributes
  <2>2. edges'["osc"] = IF On <=> wasStop THEN <<>>
                        ELSE IF On THEN <<"STARTED">> ELSE <<"STOPPED">>
    <3>1. Append(<<>>, "STOPPED") = <<"STOPPED">>
      OBVIOUS
    <3>2. edges'["osc"] = IF ~On /\ wasStop THEN Append(edges["osc"], "STOPPED") ELSE edges["osc"]
      BY <1>1, <1>3, <1>4, <2>1
    <3>3. edges["osc"] = IF On /\ ~wasStop THEN <<"STARTED">> ELSE <<>>
      BY <2>1
    <3> HIDE DEF EdgesFound, On
    <3> QED
      BY <3>1, <3>2, <3>3
  <2>3. Calm' /\ CalmBoot' /\ Detected'
    BY <1>1, <1>2, <1>4, <2>1, <2>2
  <2>4. Emitted' = Emitted
    BY <1>1, <1>4, <2>1 DEF Emitted
  <2> QED
    BY <1>2, <2>1, <2>3, <2>4, AlternatesKept
<1>9. CASE SetStop("osc")
  <2>1. /\ pc["osc"] = "setStop"
        /\ pc' = [pc EXCEPT !["osc"] = IF edges["osc"] = <<>> THEN "rest" ELSE "emit"]
        /\ wasStop' = StopActive(seen["osc"])
        /\ seen' = [seen EXCEPT !["osc"] = NoSignals]
        /\ UNCHANGED <<edges, after, signals, wasStart, queue>>
    BY <1>9 DEF SetStop, sharedVars, attributes
  <2>2. (wasStop' <=> On) /\ (edges["osc"] = <<>> <=> (On <=> wasStop))
    BY <1>3, <2>1
  <2>3. Calm' /\ CalmBoot' /\ Detected'
    BY <1>1, <1>2, <1>4, <2>1, <2>2 DEF NoSignals
  <2>4. pc'["osc"] = IF On <=> wasStop THEN "rest" ELSE "emit"
    BY <1>1, <1>4, <2>1, <2>2
  <2>5. Emitted' = Emitted
    BY <2>1, <2>2, <2>4 DEF Emitted, Bit
  <2> QED
    BY <1>2, <2>1, <2>3, <2>5, AlternatesKept
<1>10. CASE EmitEdge("osc")
  <2>1. /\ pc["osc"] = "emit"
        /\ queue' = Append(queue, EdgeCallback(Head(edges["osc"]), signals))
        /\ edges' = [edges EXCEPT !["osc"] = Tail(@)]
        /\ pc' = [pc EXCEPT !["osc"] = IF Tail(edges["osc"]) = <<>> THEN "rest" ELSE "emit"]
        /\ UNCHANGED <<seen, after, signals, wasStart, wasStop>>
    BY <1>10 DEF EmitEdge, Put
  <2>2. /\ Head(edges["osc"]) = IF On THEN "STARTED" ELSE "STOPPED"
        /\ Tail(edges["osc"]) = <<>>
    <3>1. edges["osc"] = IF On THEN <<"STARTED">> ELSE <<"STOPPED">>
      BY <2>1
    <3>2. \A e : Head(<<e>>) = e /\ Tail(<<e>>) = <<>>
      OBVIOUS
    <3> HIDE DEF EdgesFound, On
    <3> QED
      BY <3>1, <3>2
  <2>3. pc'["osc"] = "rest" /\ pc'["main"] = pc["main"] /\ pc'["poll"] = pc["poll"]
    BY <1>1, <1>4, <2>1, <2>2
  <2>4. edges'["osc"] = <<>> /\ edges'["main"] = edges["main"]
    BY <1>1, <1>4, <2>1, <2>2
  <2>5. Calm' /\ CalmBoot' /\ Detected'
    BY <1>2, <2>1, <2>3, <2>4
  <2> DEFINE c == EdgeCallback(Head(edges["osc"]), signals)
  <2>6. c \in Callback
    BY <1>1, <2>2, CallbackType DEF Edge
  <2>7. Emitted = Bit(~wasStop) /\ Emitted' = Bit(wasStop) /\ (wasStop <=> On)
    BY <2>1, <2>3 DEF Emitted
  <2>8. c = [kind |-> IF On THEN "STARTED" ELSE "STOPPED", on |-> On]
    BY <2>2 DEF EdgeCallback
  <2>9. Turn(Emitted, c, Emitted') /\ Emitted' \in {0, 1}
    <3> HIDE DEF c, EdgesFound, FlagsFollow, On
    <3>1. CASE On
      BY <2>7, <2>8, <3>1 DEF Turn, Bit
    <3>2. CASE ~On
      BY <2>7, <2>8, <3>2 DEF Turn, Bit
    <3> QED
      BY <3>1, <3>2
  <2> HIDE DEF c
  <2>10. Alternates'
    BY <1>2, <2>1, <2>6, <2>9, AlternatesOn DEF c, IInv
  <2> QED
    BY <2>5, <2>10
<1> QED
  BY <1>5, <1>6, <1>7, <1>8, <1>9, <1>10 DEF DispatchStep

\* The boot sync: apply_boot_sync finds the flags up to date (osc_client.py:196).
LEMMA BootFollows ==
    ASSUME ArrangementOnly, SInv, BootStep, UNCHANGED recorderVars, IInv'
    PROVE  SInv'
<1> USE DEF SInv, Calm, CalmBoot, Detected, FlagsFollow, ModeStamped, EdgesFound, On, Goto,
            stateMachine
<1>1. /\ pc \in [Thread -> Place] /\ seen \in [Thread -> Signals]
      /\ edges \in [Thread -> Seq(Edge)] /\ signals \in Signals
      /\ wasStart \in BOOLEAN /\ wasStop \in BOOLEAN
  BY DEF IInv, TypeOK, ListenerTypeOK
<1>2. UNCHANGED <<wpc, job, hasStart, obs, pendingObsStart, isRecording, recordModeOn>>
  BY DEF recorderVars, workerVars, takeVars, BootStep, BootScan, BootSnapshot, BootCompare,
         BootSetStart, BootSetStop, sharedVars, attributes
<1>3. /\ StartActive(seen["main"]) <=> seen["main"].arrangement = 1
      /\ StopActive(seen["main"]) <=> seen["main"].arrangement = 1
  BY <1>1, OneSwitch DEF Thread
<1>4. "osc" \in Thread /\ "main" \in Thread /\ "poll" \in Thread
  BY DEF Thread
<1>5. ASSUME NEW clip \in ClipScans, BootScan(clip) PROVE SInv'
  <2>1. /\ pc["main"] = "scan" /\ pc' = [pc EXCEPT !["main"] = "bootSnapshot"]
        /\ signals' = [signals EXCEPT !.clip = clip] /\ ~clip
        /\ UNCHANGED <<seen, edges, after, wasStart, wasStop, queue>>
    BY <1>5 DEF BootScan, ArrangementOnly, sharedVars, attributes
  <2>2. signals'.session = 0 /\ ~signals'.clip /\ signals'.arrangement = signals.arrangement
    BY <1>1, <2>1 DEF Signals, SignalsOf
  <2>3. /\ pc'["main"] = "bootSnapshot" /\ pc'["osc"] = pc["osc"] /\ pc'["poll"] = pc["poll"]
    BY <1>1, <1>4, <2>1
  <2>4. Calm' /\ CalmBoot' /\ Detected'
    BY <1>2, <2>1, <2>2, <2>3
  <2>5. Emitted' = Emitted
    BY <2>1, <2>3 DEF Emitted
  <2> QED
    BY <1>2, <2>1, <2>4, <2>5, AlternatesKept
<1>6. CASE BootSnapshot
  <2>1. /\ pc["osc"] = "rest" /\ pc["main"] = "bootSnapshot"
        /\ pc' = [pc EXCEPT !["main"] = "bootCompare"]
        /\ seen' = [seen EXCEPT !["main"] = signals]
        /\ after' = [after EXCEPT !["main"] = "up"]
        /\ UNCHANGED <<edges, signals, wasStart, wasStop, queue>>
    BY <1>6 DEF BootSnapshot, ArrangementOnly, sharedVars, attributes
  <2>2. /\ pc'["main"] = "bootCompare" /\ pc'["osc"] = pc["osc"] /\ pc'["poll"] = pc["poll"]
        /\ seen'["main"] = signals /\ seen'["osc"] = seen["osc"] /\ seen'["poll"] = seen["poll"]
        /\ after'["osc"] = after["osc"] /\ \A t \in Thread : seen'[t] \in {seen[t], signals}
    BY <1>1, <1>4, <2>1 DEF IInv, TypeOK, ListenerTypeOK
  <2>3. Calm'
    BY <1>2, <2>1, <2>2
  <2>4. CalmBoot' /\ Detected'
    BY <1>2, <2>1, <2>2
  <2>5. Emitted' = Emitted
    BY <2>1, <2>2 DEF Emitted
  <2> QED
    BY <1>2, <2>1, <2>3, <2>4, <2>5, AlternatesKept
<1>7. CASE BootCompare
  <2>1. pc["main"] = "bootCompare" /\ ~(StartActive(seen["main"]) /\ ~wasStart)
    BY <1>3, <1>7 DEF BootCompare
  <2>2. /\ pc' = [pc EXCEPT !["main"] = "bootStop"]
        /\ edges' = [edges EXCEPT !["main"] = <<>>]
        /\ UNCHANGED <<seen, after, signals, wasStart, wasStop, queue>>
    BY <1>7, <2>1 DEF BootCompare, sharedVars, attributes
  <2>3. /\ pc'["main"] = "bootStop" /\ pc'["osc"] = pc["osc"] /\ pc'["poll"] = pc["poll"]
        /\ edges'["main"] = <<>> /\ edges'["osc"] = edges["osc"]
    BY <1>1, <1>4, <2>2
  <2>4. Calm' /\ CalmBoot' /\ Detected'
    BY <1>2, <2>1, <2>2, <2>3
  <2>5. Emitted' = Emitted
    BY <2>2, <2>3 DEF Emitted
  <2> QED
    BY <1>2, <2>2, <2>4, <2>5, AlternatesKept
<1>8. CASE BootSetStart
  BY <1>8 DEF BootSetStart
<1>9. CASE BootSetStop
  <2>1. /\ pc["main"] = "bootStop" /\ pc' = [pc EXCEPT !["main"] = "up"]
        /\ wasStop' = StopActive(seen["main"])
        /\ seen' = [seen EXCEPT !["main"] = NoSignals]
        /\ UNCHANGED <<edges, after, signals, wasStart, queue>>
    BY <1>9 DEF BootSetStop, sharedVars, attributes
  <2>2. /\ pc'["main"] = "up" /\ pc'["osc"] = pc["osc"] /\ pc'["poll"] = pc["poll"]
        /\ seen'["osc"] = seen["osc"]
        /\ \A t \in Thread : seen'[t] = seen[t] \/ seen'[t] = NoSignals
    BY <1>1, <1>4, <2>1
  <2>3. wasStop' <=> wasStop
    BY <1>3, <2>1
  <2>4. Calm' /\ CalmBoot' /\ Detected'
    BY <1>2, <2>1, <2>2, <2>3 DEF NoSignals
  <2>5. Emitted' = Emitted
    BY <2>2, <2>3 DEF Emitted, Bit
  <2> QED
    BY <1>2, <2>1, <2>4, <2>5, AlternatesKept
<1> QED
  BY <1>5, <1>6, <1>7, <1>8, <1>9 DEF BootStep

\* All steps of the listener: but for those above the end of the count-in is reported
\* (osc_client.py:299), and the time record mode went on is kept or forgotten (251-256).
LEMMA ListenerFollows == ASSUME ArrangementOnly, SInv, ListenerNext PROVE SInv'
<1>1. IInv'
  BY ListenerIInv DEF SInv
<1>2. UNCHANGED recorderVars
  BY DEF ListenerNext
<1>3. CASE EmitCountInFinished
  <2> USE DEF SInv, Calm, CalmBoot, Detected, FlagsFollow, ModeStamped, EdgesFound, On, Goto
  <2>1. /\ pc["osc"] = "countInDone" /\ pc' = [pc EXCEPT !["osc"] = "rest"]
        /\ queue' = Append(queue, CountInFinishedCallback(signals))
        /\ UNCHANGED <<seen, edges, after, signals, wasStart, wasStop, isRecording, recordModeOn>>
    BY <1>3 DEF EmitCountInFinished, Put, stateMachine, attributes
  <2>2. /\ pc'["osc"] = "rest" /\ pc'["main"] = pc["main"] /\ pc'["poll"] = pc["poll"]
        /\ signals \in Signals /\ wasStop \in BOOLEAN
    BY <2>1 DEF IInv, TypeOK, ListenerTypeOK, Thread
  <2>3. UNCHANGED <<wpc, job, hasStart, obs, pendingObsStart>>
    BY <1>2 DEF recorderVars, workerVars, takeVars
  <2>4. Calm' /\ CalmBoot' /\ Detected'
    BY <2>1, <2>2, <2>3
  <2>5. Emitted' = Emitted /\ Emitted \in {0, 1}
    BY <2>1, <2>2 DEF Emitted, Bit
  <2>6. CountInFinishedCallback(signals) \in Callback
    BY <2>2, CallbackType
  <2>7. Turn(Emitted, CountInFinishedCallback(signals), Emitted')
    BY <2>5 DEF Turn, CountInFinishedCallback
  <2>8. Alternates'
    BY <2>1, <2>3, <2>5, <2>6, <2>7, AlternatesOn DEF IInv
  <2> QED
    BY <1>1, <2>4, <2>8
<1>4. CASE \E t \in {"osc", "poll"} :
          CheckLiveIdle(t) \/ CheckStillRolling(t) \/ Disarm(t) \/ ForceStop(t)
  BY <1>4 DEF SInv, Calm, CheckLiveIdle, CheckStillRolling, Disarm, ForceStop, Goto
<1>5. CASE CheckSessionOn \/ CheckNotRolling \/ StartTake
  BY <1>5 DEF SInv, Calm, CheckSessionOn, CheckNotRolling, StartTake, Goto
<1>6. CASE BootStep
  BY <1>1, <1>2, <1>6, BootFollows
<1>7. CASE DispatchStep("osc")
  BY <1>1, <1>2, <1>7, DispatchFollows
<1>8. CASE DispatchStep("poll") \/ DispatchStep("main")
  BY <1>8 DEF SInv, Calm, CalmBoot, DispatchStep, Snapshot, CompareStart, SetStart,
              CompareStop, SetStop, EmitEdge, Goto
<1>9. CASE StampRecordMode
  <2> USE DEF SInv, Calm, CalmBoot, Detected, FlagsFollow, ModeStamped, EdgesFound, On, Goto
  <2>1. /\ pc["osc"] \in {"modeOn", "modeOff"} /\ pc' = [pc EXCEPT !["osc"] = "snapshot"]
        /\ recordModeOn' = (pc["osc"] = "modeOn")
        /\ UNCHANGED <<seen, edges, after, signals, wasStart, wasStop, queue, isRecording>>
    BY <1>9 DEF StampRecordMode, stateMachine
  <2>2. pc'["osc"] = "snapshot" /\ pc'["main"] = pc["main"] /\ pc'["poll"] = pc["poll"]
    BY <2>1 DEF IInv, TypeOK, ListenerTypeOK, Thread
  <2>3. UNCHANGED <<wpc, job, hasStart, obs, pendingObsStart>>
    BY <1>2 DEF recorderVars, workerVars, takeVars
  <2>4. Calm' /\ CalmBoot' /\ Detected'
    BY <2>1, <2>2, <2>3
  <2>5. Emitted' = Emitted /\ (Emitted = 1 => pc["osc"] = "modeOff")
    BY <2>1, <2>2 DEF Emitted, Bit
  <2>6. Alternates'
    BY <2>1, <2>3, <2>5, AlternatesKept
  <2> QED
    BY <1>1, <2>4, <2>6
<1> QED
  BY <1>3, <1>4, <1>5, <1>6, <1>7, <1>8, <1>9
  DEF ListenerNext, ListenerStep, OscStep, PollStep, Thread

-----------------------------------------------------------------------------
(* The worker, boot, crash.                                                 *)

\* The next callback continues what OBS does.
LEMMA GetFollows == ASSUME SInv, GetCallback, UNCHANGED listenerVars, IInv' PROVE SInv'
<1> USE DEF SInv
<1>1. queue \in Seq(Callback) /\ queue # <<>>
  BY DEF GetCallback, IInv, TypeOK, SharedTypeOK
<1>2. /\ wpc = "get" /\ wpc' = "run" /\ job' = Head(queue) /\ queue' = Tail(queue)
      /\ UNCHANGED <<obs, pendingObsStart, hasStart, isRecording, recordModeOn>>
  BY DEF GetCallback, takeVars, attributes
<1>3. Calm' /\ CalmBoot' /\ Detected'
  BY <1>2 DEF Calm, CalmBoot, Detected, FlagsFollow, ModeStamped, EdgesFound, On, listenerVars,
              localVars,
              stateMachine
<1>4. Emitted' = Emitted /\ AfterJob = Bit(hasStart)
  BY <1>2 DEF Emitted, AfterJob, listenerVars, localVars, stateMachine
<1>5. Leads(queue, Bit(hasStart), Emitted)
  BY <1>4 DEF Alternates, EdgesAlternate
<1>6. PICK d \in {0, 1} : Turn(Bit(hasStart), Head(queue), d) /\ Leads(Tail(queue), d, Emitted)
  BY <1>1, <1>5, LeadsPast
<1>7. job'.kind \in {"STARTED", "STOPPED", "COUNT_IN_FINISHED"}
  <2>1. Head(queue) \in Callback
    BY <1>1
  <2> QED
    BY <1>2, <2>1 DEF Callback, CallbackKind, Edge
<1>8. AfterJob' = d
  BY <1>2, <1>4, <1>6, <1>7 DEF AfterJob, Turn
<1>9. StaleEnds'
  <2> SUFFICES ASSUME StaleStartTime'
               PROVE  Running("STOPPED")' \/ EdgesAmong(queue') # <<>> \/ (~recordModeOn /\ Emitted = 1)
    BY <1>2, <1>4 DEF StaleEnds
  <2>1. hasStart /\ job'.kind # "STARTED"
    BY <1>2, <1>6 DEF StaleStartTime, Turn, Bit
  <2>2. EdgesAmong(queue) # <<>> \/ (~recordModeOn /\ Emitted = 1)
    BY <1>2 DEF StaleStartTime, Alternates, StaleEnds, Running
  <2>3. job'.kind = "COUNT_IN_FINISHED" => EdgesAmong(queue) = EdgesAmong(queue')
    <3>1. EdgesAmong(queue) = WithEdge(<<>>, Head(queue)) \o EdgesAmong(Tail(queue))
      BY <1>1, EdgesAmongTail
    <3>2. EdgesAmong(Tail(queue)) \in Seq(Edge)
      <4>1. Tail(queue) \in Seq(Callback)
        BY <1>1
      <4> QED
        BY <4>1, EdgesAmongType
    <3>3. \A e \in Seq(Edge) : <<>> \o e = e
      OBVIOUS
    <3> QED
      BY <1>2, <3>1, <3>2, <3>3 DEF WithEdge, Edge
  <2> QED
    BY <1>2, <1>7, <2>1, <2>2, <2>3 DEF Running
<1>10. Alternates'
  BY <1>2, <1>4, <1>6, <1>8, <1>9 DEF Alternates, JobAlternates, EdgesAlternate
<1> QED
  BY <1>3, <1>10

\* What the worker is about decides what it may do next: a STARTED finds no take begun, a
\* STOPPED ends the one that has, and no request fails; a start is dropped only when the
\* switch is off already (recorder.py:96-109, 149, 167-176).
LEMMA WorkerFollows == ASSUME ArrangementOnly, SInv, RecorderNext PROVE SInv'
<1>1. IInv'
  BY RecorderIInv DEF SInv
<1>2. UNCHANGED listenerVars
  BY DEF RecorderNext
<1>3. CASE GetCallback
  BY <1>1, <1>2, <1>3, GetFollows
<1>4. ASSUME queue' = queue, AfterJob' = AfterJob, JobAlternates', StaleEnds', ~pendingObsStart',
             wpc' \notin {"fetch", "decide"}, obs' = "orphan" => obs = "orphan",
             recordModeOn' = recordModeOn
      PROVE  SInv'
  <2>1. Calm' /\ CalmBoot' /\ Detected'
    BY <1>2, <1>4 DEF SInv, Calm, CalmBoot, Detected, FlagsFollow, ModeStamped, EdgesFound, On,
                      listenerVars, localVars, stateMachine
  <2>2. Emitted' = Emitted
    BY <1>2 DEF Emitted, listenerVars, localVars, stateMachine
  <2>3. EdgesAlternate'
    BY <1>4, <2>2 DEF SInv, Alternates, EdgesAlternate
  <2> QED
    BY <1>1, <1>4, <2>1, <2>3 DEF SInv, Alternates
<1>5. /\ obs = "take" => isRecording \/ wpc = "started"
      /\ isRecording => obs = "take" \/ wpc = "stopped"
      /\ obs \in {"idle", "take", "orphan"} /\ (obs = "orphan" => wpc = "get")
  BY DEF SInv, Calm, IInv, RecorderMatchesObs, DriftNeedsFault, ArrangementOnly, TypeOK,
         RecorderTypeOK, ObsState, OrphanCheckFirst
<1>6. EdgesAmong(queue)' = EdgesAmong(queue') /\ Emitted' = Emitted
  BY <1>2 DEF EdgesAmong, Emitted, listenerVars, localVars, stateMachine
<1> USE DEF SInv, Calm, Alternates, JobAlternates, AfterJob, Turn, Bit, Running,
            StaleEnds, StaleStartTime, Step, Done, sharedVars, attributes, takeVars
<1>7. CASE IgnoreStart \/ ProbeCountIn \/ FetchCountIn \/ DeferStart \/ StartSession
  <2>1. ~IgnoreStart
    BY <1>5 DEF IgnoreStart
  <2>2. ~ProbeCountIn
    BY DEF ProbeCountIn
  <2>3. ~FetchCountIn /\ ~DeferStart /\ ~StartSession
    BY DEF FetchCountIn, DeferStart, StartSession, BeginStart
  <2> QED
    BY <1>7, <2>1, <2>2, <2>3
<1>8. CASE StartArrangement
  BY <1>4, <1>5, <1>8 DEF StartArrangement, BeginStart
<1>9. CASE IgnoreCountInFinished
  BY <1>4, <1>6, <1>9 DEF IgnoreCountInFinished, NoJob
<1>10. CASE CancelPendingStart \/ StartAfterCountIn
  BY <1>10 DEF CancelPendingStart, StartAfterCountIn
<1>11. CASE MeasureLag
  BY <1>4, <1>11 DEF MeasureLag
<1>12. CASE LagRaises
  <2>1. AfterJob = 1 /\ hasStart
    BY <1>12 DEF LagRaises
  <2>2. Emitted # 1 => EdgesAmong(queue) # <<>>
    BY <2>1, NoEdgesLeadNowhere DEF EdgesAlternate, IInv, TypeOK, SharedTypeOK
  <2> QED
    BY <1>4, <1>6, <1>12, <2>1, <2>2 DEF LagRaises, NoJob
<1>13. CASE ObsStarts
  BY <1>4, <1>13 DEF ObsStarts
<1>14. CASE ObsStartFails
  <2>1. obs = "idle"
    BY <1>5, <1>14 DEF ObsStartFails, IInv, WorkerPlaces
  <2> QED
    BY <1>14, <2>1 DEF ObsStartFails, ArrangementOnly
<1>15. CASE StartReturns
  BY <1>4, <1>15 DEF StartReturns, NoJob
<1>16. CASE IgnoreStop
  BY <1>4, <1>5, <1>16 DEF IgnoreStop, NoJob, ClearTakeContext
<1>17. CASE BeginStop
  BY <1>4, <1>17 DEF BeginStop, IInv, WorkerPlaces
<1>18. CASE ObsStops
  BY <1>4, <1>18 DEF ObsStops, IInv, WorkerPlaces
<1>19. CASE ObsStopFails
  BY <1>19 DEF ObsStopFails, ArrangementOnly
<1>20. CASE StopReturns
  BY <1>4, <1>20 DEF StopReturns
<1>21. CASE Finalized
  <2>1. obs # "take"
    BY <1>5, <1>21 DEF Finalized, IInv, WorkerPlaces
  <2> QED
    BY <1>4, <1>21, <2>1 DEF Finalized, NoJob, ClearTakeContext
<1> QED
  BY <1>3, <1>7, <1>8, <1>9, <1>10, <1>11, <1>12, <1>13, <1>14, <1>15, <1>16, <1>17, <1>18,
     <1>19, <1>20, <1>21
  DEF RecorderNext, RecorderStep

\* The check for an orphaned recording leaves OBS idle.
LEMMA OrphanFollows == ASSUME ArrangementOnly, SInv, StopOrphan PROVE SInv'
<1>1. IInv'
  BY OrphanIInv DEF SInv
<1>2. /\ pc["main"] = "orphan" /\ pc' = [pc EXCEPT !["main"] = "scan"] /\ obs' = "idle"
      /\ UNCHANGED <<queue, isRecording, recordModeOn, wpc, job, pendingObsStart, hasStart, seen,
                     edges, after, signals, wasStart, wasStop>>
  BY DEF StopOrphan, Goto, ArrangementOnly, workerVars, takeVars, sharedVars, attributes,
         stateMachine
<1>3. pc'["main"] = "scan" /\ pc'["osc"] = pc["osc"] /\ pc'["poll"] = pc["poll"]
  BY <1>2 DEF SInv, IInv, TypeOK, ListenerTypeOK, Thread
<1>4. Calm' /\ CalmBoot' /\ Detected'
  BY <1>2, <1>3 DEF SInv, Calm, CalmBoot, Detected, FlagsFollow, ModeStamped, EdgesFound, On
<1>5. wpc = "get" /\ queue = <<>> /\ obs # "take"
  BY <1>2 DEF SInv, IInv, OrphanCheckFirst, RecorderMatchesObs
<1>6. Emitted' = Emitted /\ AfterJob' = AfterJob
  BY <1>2, <1>3, <1>5 DEF Emitted, AfterJob
<1>7. Alternates'
  BY <1>2, <1>5, <1>6
  DEF SInv, Alternates, JobAlternates, EdgesAlternate, StaleEnds, StaleStartTime, Running
<1> QED
  BY <1>1, <1>4, <1>7 DEF SInv

\* The next bridge knows nothing of Live and has nothing on its way.
LEMMA CrashFollows == ASSUME SInv, CrashAndRestart PROVE SInv'
<1>1. IInv'
  BY CrashIInv, TypeKept DEF SInv, IInv, Next
<1>2. /\ pc'["main"] = "orphan" /\ pc'["osc"] = "rest" /\ pc'["poll"] = "rest"
      /\ edges'["main"] = <<>> /\ edges'["osc"] = <<>> /\ after'["osc"] = "rest"
      /\ \A t \in Thread : seen'[t] = NoSignals
  BY DEF CrashAndRestart, Thread
<1>3. Calm' /\ CalmBoot' /\ Detected'
  BY <1>2 DEF CrashAndRestart, NoSignals, Calm, CalmBoot, Detected, FlagsFollow, ModeStamped,
              EdgesFound, On
<1>4. AfterJob' = 0 /\ Emitted' = 0
  BY <1>2 DEF CrashAndRestart, AfterJob, Emitted, Bit, NoJob
<1>5. Alternates'
  BY <1>4, LeadsNowhere
  DEF CrashAndRestart, Alternates, JobAlternates, EdgesAlternate, StaleEnds, StaleStartTime
<1> QED
  BY <1>1, <1>3, <1>5 DEF SInv

-----------------------------------------------------------------------------
\* No step breaks the invariant.
LEMMA SwitchInductive == ASSUME ArrangementOnly PROVE SInv /\ [Next]_vars => SInv'
<1> SUFFICES ASSUME SInv, [Next]_vars PROVE SInv'
  OBVIOUS
<1>1. CASE LiveNext
  BY <1>1, LiveSwitches
<1>2. CASE ListenerNext
  BY <1>2, ListenerFollows
<1>3. CASE RecorderNext
  BY <1>3, WorkerFollows
<1>4. CASE StopOrphan
  BY <1>4, OrphanFollows
<1>5. CASE CrashAndRestart
  BY <1>5, CrashFollows
<1>6. CASE UNCHANGED vars
  <2>1. IInv'
    BY Inductive DEF SInv
  <2>2. UNCHANGED <<signals, wasStart, wasStop, pc, seen, edges, after, queue, isRecording,
                    recordModeOn, wpc, job, pendingObsStart, hasStart, obs>>
    BY <1>6 DEF vars, sharedVars, attributes, listenerVars, localVars, stateMachine, recorderVars,
       workerVars, takeVars
  <2>3. Calm' /\ CalmBoot' /\ Detected' /\ Alternates'
    BY <2>2 DEF SInv, Calm, CalmBoot, Detected, FlagsFollow, ModeStamped, EdgesFound, On,
                Alternates,
       JobAlternates, EdgesAlternate, AfterJob, Emitted, StaleEnds, StaleStartTime, Running
  <2> QED
    BY <2>1, <2>3 DEF SInv
<1> QED
  BY <1>1, <1>2, <1>3, <1>4, <1>5, <1>6 DEF Next

\* README.md:3: with arrangement record alone, OBS records exactly while the button
\* is on, whenever the bridge has caught up.
THEOREM SwitchFollowed == ASSUME ArrangementOnly PROVE Spec => []SettledMatchesLive
<1>1. SInv => SettledMatchesLive
  <2> SUFFICES ASSUME SInv, Settled PROVE Rolling <=> signals.arrangement = 1
    BY DEF SettledMatchesLive
  <2>1. pc["osc"] = "rest" /\ pc["main"] = "up" /\ queue = <<>> /\ wpc = "get"
    BY DEF Settled, ListenerAtRest, Thread
  <2>2. /\ AfterJob = Bit(hasStart) /\ Emitted = Bit(wasStop) /\ (wasStop <=> On)
        /\ (recordModeOn <=> On)
    BY <2>1 DEF SInv, Detected, FlagsFollow, ModeStamped, AfterJob, Emitted
  <2>3. hasStart <=> On
    BY <2>1, <2>2, LeadsNowhere DEF SInv, Alternates, EdgesAlternate, Bit, IInv, TypeOK,
       RecorderTypeOK
  <2>4. ~StaleStartTime
    BY <2>1, <2>2, <2>3, EdgesAmongNone DEF SInv, Alternates, StaleEnds, StaleStartTime, Running,
       Bit
  <2>5. hasStart <=> isRecording
    BY <2>1, <2>4
    DEF StaleStartTime, SInv, Alternates, JobAlternates, IInv, RecorderMatchesObs,
        DriftNeedsFault, ArrangementOnly
  <2>6. Rolling <=> isRecording
    BY <2>1 DEF Rolling, SInv, IInv, RecorderMatchesObs, DriftNeedsFault, ArrangementOnly
  <2> QED
    BY <2>3, <2>5, <2>6 DEF On
<1>2. SInv /\ [Next]_vars => SInv'
  BY SwitchInductive
<1> QED
  BY <1>1, <1>2, InitSInv, PTL DEF Spec

\* With arrangement record alone a start never finds the start time of an older take,
\* though one that was dropped leaves its own behind: the stop that is on its way clears
\* it before the next start (recorder.py:147-149, 168-171).
THEOREM StartTimeOfItsTake == ASSUME ArrangementOnly PROVE Spec => FreshStartTime
<1>1. SInv /\ [Next]_vars => [StartBegins => ~hasStart]_vars
  <2> SUFFICES ASSUME SInv, [Next]_vars, StartBegins PROVE ~hasStart
    OBVIOUS
  <2> USE DEF StartBegins
  <2>1. CASE LiveNext \/ ListenerNext
    <3>1. wpc' = wpc
      BY <2>1 DEF LiveNext, ListenerNext, recorderVars, workerVars
    <3> QED
      BY <3>1
  <2>2. CASE RecorderNext
    <3>1. wpc = "run" /\ ~pendingObsStart
      BY DEF SInv, Calm
    <3>2. StartArrangement
      BY <2>2, <3>1
      DEF RecorderNext, RecorderStep, GetCallback, IgnoreStart, ProbeCountIn, FetchCountIn,
          DeferStart, StartSession, IgnoreCountInFinished, CancelPendingStart, StartAfterCountIn,
          MeasureLag, LagRaises, ObsStarts, ObsStartFails, StartReturns, IgnoreStop, BeginStop,
          ObsStops, ObsStopFails, StopReturns, Finalized, BeginStart, Step, Done
    <3> QED
      BY <3>1, <3>2
      DEF StartArrangement, Running, SInv, Alternates, JobAlternates, Turn, Bit
  <2>3. CASE StopOrphan \/ CrashAndRestart \/ UNCHANGED vars
    BY <2>3 DEF StopOrphan, CrashAndRestart, vars, recorderVars, workerVars
  <2> QED
    BY <2>1, <2>2, <2>3 DEF Next
<1>2. SInv /\ [Next]_vars => SInv'
  BY SwitchInductive
<1> QED
  BY <1>1, <1>2, InitSInv, PTL DEF Spec, FreshStartTime

-----------------------------------------------------------------------------
(* OBS is a delayed copy of the record switch.                              *)

\* What OBS has not followed yet.
Behind == SwitchedTo(OnTheirWay) \o Unseen

\* The parts of OnTheirWay are sequences of edges.
LEMMA WayType ==
    ASSUME TypeOK
    PROVE  /\ InWork \in Seq(Edge) /\ EdgesAmong(queue) \in Seq(Edge)
           /\ edges["osc"] \in Seq(Edge) /\ OnTheirWay \in Seq(Edge)
<1>1. queue \in Seq(Callback) /\ edges["osc"] \in Seq(Edge)
  BY DEF TypeOK, SharedTypeOK, ListenerTypeOK, Thread
<1>2. EdgesAmong(queue) \in Seq(Edge)
  BY <1>1, EdgesAmongType
<1>3. InWork \in Seq(Edge)
  BY ShortType DEF InWork, Edge
<1> QED
  BY <1>1, <1>2, <1>3 DEF OnTheirWay

\* An edge at either end.
LEMMA SwitchedToAppend ==
    ASSUME NEW s \in Seq(Edge), NEW e \in Edge
    PROVE  SwitchedTo(s \o <<e>>) = SwitchedTo(s) \o <<e = "STARTED">>
BY DEF SwitchedTo

LEMMA SwitchedToHead ==
    ASSUME NEW s \in Seq(Edge), NEW e \in Edge
    PROVE  SwitchedTo(<<e>> \o s) = <<e = "STARTED">> \o SwitchedTo(s)
BY DEF SwitchedTo

LEMMA SwitchedToType ==
    ASSUME NEW s \in Seq(Edge)
    PROVE  SwitchedTo(s) \in Seq(BOOLEAN)
BY DEF SwitchedTo

\* What has not been seen yet is at most one change of the switch.
LEMMA UnseenType == Unseen \in Seq(BOOLEAN)
<1>1. (signals.arrangement = 1) \in BOOLEAN
  OBVIOUS
<1>2. <<signals.arrangement = 1>> \in Seq(BOOLEAN) /\ <<>> \in Seq(BOOLEAN)
  BY <1>1, ShortType, Zenon
<1> QED
  BY <1>2, Zenon DEF Unseen

\* An edge, or a change not seen yet, leaves something to follow.
LEMMA SomethingBehind ==
    ASSUME NEW s \in Seq(Edge), NEW u \in Seq(BOOLEAN), s # <<>> \/ u # <<>>
    PROVE  SwitchedTo(s) \o u # <<>>
<1>1. SwitchedTo(s) \in Seq(BOOLEAN) /\ Len(SwitchedTo(s)) = Len(s)
  BY DEF SwitchedTo
<1>2. Len(s) > 0 \/ Len(u) > 0
  OBVIOUS
<1>3. \A a, b \in Seq(BOOLEAN) : Len(a) > 0 \/ Len(b) > 0 => Len(a \o b) > 0
  OBVIOUS
<1>4. Len(SwitchedTo(s) \o u) > 0
  BY <1>1, <1>2, <1>3
<1> QED
  BY <1>4

\* A step that neither OBS nor the switch notices.
LEMMA Unnoticed ==
    ASSUME On' <=> On, (obs' = "take") <=> (obs = "take"), Behind' = Behind
    PROVE  UNCHANGED Switch!vars
BY DEF Switch!vars, On, Behind

\* A step that leaves every edge where it is.
LEMMA WayKept ==
    ASSUME UNCHANGED <<queue, wpc, job>>, edges'["osc"] = edges["osc"]
    PROVE  OnTheirWay' = OnTheirWay
BY DEF OnTheirWay, InWork

\* Live turns the switch, or does something else.
LEMMA LiveCopied == ASSUME ArrangementOnly, SInv, LiveNext PROVE [Switch!Next]_Switch!vars
<1>1. UNCHANGED <<queue, wpc, job, obs, edges, stateMachine>>
  BY DEF LiveNext, LiveInput, OscRecordMode, OscSessionStatus, OscCountingIn, PollScan,
         CallDispatch, recorderVars, workerVars, takeVars, sharedVars, attributes
<1>2. /\ pc \in [Thread -> Place] /\ signals \in Signals /\ "osc" \in Thread
      /\ signals.arrangement \in {0, 1} /\ OnTheirWay \in Seq(Edge)
  BY WayType, ConstantsAssumption
  DEF SInv, IInv, TypeOK, ListenerTypeOK, Signals, SignalsOf, Thread
<1>3. OnTheirWay' = OnTheirWay
  BY <1>1, WayKept
<1>4. pc["osc"] = "rest" => Unseen = <<>> /\ (wasStop <=> On)
  BY DEF SInv, Detected, FlagsFollow, Unseen, On
<1>5. ASSUME NEW value \in Arrangements, OscRecordMode(value)
      PROVE  [Switch!Next]_Switch!vars
  <2>2. /\ pc["osc"] = "rest" /\ signals'.arrangement = value /\ value \in {0, 1}
        /\ pc'["osc"] = IF value = 0 THEN "modeOff"
                       ELSE IF signals.arrangement = 0 THEN "modeOn" ELSE "snapshot"
    BY <1>2, <1>5, ConstantsAssumption DEF OscRecordMode, Goto, Signals, SignalsOf
  <2>3. CASE value = signals.arrangement
    <3>1. On' <=> On
      BY <2>2, <2>3 DEF On
    <3>2. Unseen' = <<>>
      BY <1>1, <1>4, <2>2, <2>3 DEF Unseen, On, stateMachine
    <3>3. Behind' = Behind
      BY <1>3, <1>4, <2>2, <3>2 DEF Behind
    <3> QED
      BY <1>1, <3>1, <3>3, Unnoticed
  <2>4. CASE value # signals.arrangement
    <3>1. (signals.arrangement = 1)' = ~(signals.arrangement = 1)
      BY <1>2, <2>2, <2>4
    <3>2. Unseen' = <<~(signals.arrangement = 1)>>
      BY <1>1, <1>2, <1>4, <2>2, <2>4 DEF Unseen, On, stateMachine
    <3>3. Behind' = Append(Behind, ~(signals.arrangement = 1))
      <4>1. SwitchedTo(OnTheirWay) \in Seq(BOOLEAN)
        BY <1>2, SwitchedToType
      <4>2. \A q \in Seq(BOOLEAN), b \in BOOLEAN : q \o <<b>> = Append(q \o <<>>, b)
        OBVIOUS
      <4>3. Behind' = SwitchedTo(OnTheirWay) \o <<~(signals.arrangement = 1)>>
        BY <1>3, <3>2 DEF Behind
      <4>4. Behind = SwitchedTo(OnTheirWay) \o <<>>
        BY <1>4, <2>2 DEF Behind
      <4> QED
        BY <4>1, <4>2, <4>3, <4>4
    <3>4. Switch!Flip
      BY <1>1, <3>1, <3>3 DEF Switch!Flip, Behind
    <3> QED
      BY <3>4 DEF Switch!Next
  <2> QED
    BY <2>3, <2>4
<1>6. CASE \E value \in Sessions : OscSessionStatus(value)
  <2>1. pc["osc"] = "rest" /\ pc'["osc"] = "snapshot" /\ signals'.arrangement = signals.arrangement
    BY <1>2, <1>6 DEF OscSessionStatus, CallDispatch, Goto, Signals, SignalsOf
  <2>2. On' <=> On
    BY <2>1 DEF On
  <2>3. Unseen' = <<>>
    BY <1>1, <1>4, <2>1 DEF Unseen, On, stateMachine
  <2>4. Behind' = Behind
    BY <1>3, <1>4, <2>1, <2>3 DEF Behind
  <2> QED
    BY <1>1, <2>2, <2>4, Unnoticed
<1>7. CASE \E value \in CountIns : OscCountingIn(value)
  <2>1. /\ pc["osc"] = "rest" /\ pc'["osc"] \in {"rest", "countInDone"} /\ signals' = signals
    BY <1>2, <1>7 DEF OscCountingIn, Goto
  <2>2. On' <=> On
    BY <2>1 DEF On
  <2>3. Unseen' = <<>>
    BY <2>1 DEF Unseen
  <2>4. Behind' = Behind
    BY <1>3, <1>4, <2>1, <2>3 DEF Behind
  <2> QED
    BY <1>1, <2>2, <2>4, Unnoticed
<1>8. CASE \E clip \in ClipScans : PollScan(clip)
  BY <1>2, <1>8 DEF PollScan, ArrangementOnly, SInv, Calm, Signals, SignalsOf
<1> QED
  BY <1>5, <1>6, <1>7, <1>8 DEF LiveNext, LiveInput

\* What is found of a switch that was not seen yet, or handed on by the listener, is
\* on its way as before (osc_client.py:199-209).
LEMMA DispatchCopied ==
    ASSUME SInv, DispatchStep("osc"), UNCHANGED recorderVars
    PROVE  UNCHANGED Switch!vars
<1> USE DEF SInv, Detected, FlagsFollow, EdgesFound, Goto
<1>1. /\ pc \in [Thread -> Place] /\ edges \in [Thread -> Seq(Edge)] /\ signals \in Signals
      /\ wasStart \in BOOLEAN /\ wasStop \in BOOLEAN /\ "osc" \in Thread
      /\ queue \in Seq(Callback) /\ seen \in [Thread -> Signals]
  BY DEF IInv, TypeOK, SharedTypeOK, ListenerTypeOK, Thread
<1>2. UNCHANGED <<wpc, job, obs>> /\ InWork' = InWork
  BY DEF recorderVars, workerVars, InWork
<1>3. /\ StartActive(seen["osc"]) <=> seen["osc"].arrangement = 1
      /\ StopActive(seen["osc"]) <=> seen["osc"].arrangement = 1
  BY <1>1, OneSwitch DEF Calm
<1>4. /\ InWork \in Seq(Edge) /\ EdgesAmong(queue) \in Seq(Edge) /\ edges["osc"] \in Seq(Edge)
      /\ OnTheirWay \in Seq(Edge)
  BY WayType DEF IInv
<1>5. ASSUME UNCHANGED <<signals, queue>>, edges'["osc"] = edges["osc"], Unseen' = Unseen
      PROVE  UNCHANGED Switch!vars
  <2>1. On' <=> On
    BY <1>5 DEF On
  <2>2. Behind' = Behind
    BY <1>2, <1>5, WayKept DEF Behind
  <2> QED
    BY <1>2, <2>1, <2>2, Unnoticed
\* The switch is compared with the flags, and the edge is found.
<1>6. ASSUME NEW e \in Edge, UNCHANGED <<signals, queue>>, edges["osc"] = <<>>,
             edges'["osc"] = <<e>>, Unseen = <<e = "STARTED">>, Unseen' = <<>>
      PROVE  UNCHANGED Switch!vars
  <2>1. On' <=> On
    BY <1>6 DEF On
  <2>2. OnTheirWay' = OnTheirWay \o <<e>>
    BY <1>2, <1>4, <1>6 DEF OnTheirWay
  <2>3. SwitchedTo(OnTheirWay') = SwitchedTo(OnTheirWay) \o <<e = "STARTED">>
    BY <1>4, <2>2, SwitchedToAppend
  <2>4. SwitchedTo(OnTheirWay)' = SwitchedTo(OnTheirWay')
    BY DEF SwitchedTo
  <2>5. \A q \in Seq(BOOLEAN), b \in BOOLEAN : (q \o <<b>>) \o <<>> = q \o <<b>>
    OBVIOUS
  <2>6. Behind' = Behind
    BY <1>4, <1>6, <2>3, <2>4, <2>5, SwitchedToType DEF Behind
  <2> QED
    BY <1>2, <2>1, <2>6, Unnoticed
<1>7. CASE Snapshot("osc")
  <2>1. /\ pc["osc"] = "snapshot" /\ pc'["osc"] = "compareStart"
        /\ UNCHANGED <<edges, signals, wasStop, queue>>
    BY <1>1, <1>7 DEF Snapshot, sharedVars, attributes, stateMachine
  <2>2. Unseen' = Unseen
    BY <2>1 DEF Unseen
  <2> QED
    BY <1>5, <2>1, <2>2
<1>8. CASE CompareStart("osc")
  <2>1. /\ pc["osc"] = "compareStart" /\ pc'["osc"] = "setStart" /\ edges["osc"] = <<>>
        /\ edges'["osc"] = IF On /\ ~wasStop THEN <<"STARTED">> ELSE <<>>
        /\ UNCHANGED <<signals, wasStop, queue>>
    BY <1>1, <1>3, <1>8 DEF CompareStart, sharedVars, attributes, stateMachine, On
  <2>2. CASE On /\ ~wasStop
    <3>1. Unseen = <<"STARTED" = "STARTED">> /\ Unseen' = <<>>
      BY <2>1, <2>2 DEF Unseen, On
    <3> QED
      BY <1>6, <2>1, <2>2, <3>1 DEF Edge
  <2>3. CASE ~(On /\ ~wasStop)
    <3>1. Unseen' = Unseen
      BY <2>1, <2>3 DEF Unseen, On
    <3> QED
      BY <1>5, <2>1, <2>3, <3>1
  <2> QED
    BY <2>2, <2>3
<1>9. CASE SetStart("osc")
  <2>1. /\ pc["osc"] = "setStart" /\ pc'["osc"] = "compareStop"
        /\ UNCHANGED <<edges, signals, wasStop, queue>>
    BY <1>1, <1>9 DEF SetStart, sharedVars, attributes
  <2>2. Unseen' = Unseen
    BY <2>1 DEF Unseen
  <2> QED
    BY <1>5, <2>1, <2>2
<1>10. CASE CompareStop("osc")
  <2>1. /\ pc["osc"] = "compareStop" /\ pc'["osc"] = "setStop"
        /\ edges'["osc"] = IF ~On /\ wasStop THEN Append(edges["osc"], "STOPPED") ELSE edges["osc"]
        /\ UNCHANGED <<signals, wasStop, queue>>
    BY <1>1, <1>3, <1>10 DEF CompareStop, sharedVars, attributes, stateMachine, On
  <2>2. CASE ~On /\ wasStop
    <3>1. Unseen = <<"STOPPED" = "STARTED">> /\ Unseen' = <<>>
      BY <1>1, <2>1, <2>2, ConstantsAssumption DEF Unseen, On, Signals, SignalsOf
    <3>2. edges["osc"] = <<>>
      BY <2>1, <2>2
    <3>3. edges'["osc"] = <<"STOPPED">>
      BY <2>1, <2>2, <3>2
    <3> QED
      BY <1>6, <2>1, <3>1, <3>2, <3>3 DEF Edge
  <2>3. CASE ~(~On /\ wasStop)
    <3>1. Unseen' = Unseen
      BY <2>1, <2>3 DEF Unseen, On
    <3> QED
      BY <1>5, <2>1, <2>3, <3>1
  <2> QED
    BY <2>2, <2>3
<1>11. CASE SetStop("osc")
  <2>1. /\ pc["osc"] = "setStop" /\ pc'["osc"] \in {"rest", "emit"}
        /\ UNCHANGED <<edges, signals, queue>>
    BY <1>1, <1>11 DEF SetStop, sharedVars, attributes, Calm
  <2>2. Unseen' = Unseen
    BY <2>1 DEF Unseen
  <2> QED
    BY <1>5, <2>1, <2>2
<1>12. CASE EmitEdge("osc")
  <2>1. /\ pc["osc"] = "emit" /\ pc'["osc"] \in {"rest", "emit"} /\ signals' = signals
        /\ edges'["osc"] = Tail(edges["osc"])
        /\ queue' = Append(queue, EdgeCallback(Head(edges["osc"]), signals))
    BY <1>1, <1>12 DEF EmitEdge, Put, Calm
  <2>2. PICK e \in Edge : edges["osc"] = <<e>>
    BY <2>1 DEF Edge
  <2>3. edges'["osc"] = <<>> /\ Head(edges["osc"]) = e
    BY <2>1, <2>2
  <2>4. EdgesAmong(queue') = Append(EdgesAmong(queue), e)
    <3>1. EdgeCallback(e, signals) \in Callback /\ EdgeCallback(e, signals).kind = e
      BY <1>1, CallbackType DEF EdgeCallback
    <3> QED
      BY <1>1, <2>1, <2>3, <3>1, EdgesAmongAppend DEF WithEdge
  <2>5. OnTheirWay' = OnTheirWay
    <3>1. \A a, b \in Seq(Edge) : (a \o Append(b, e)) \o <<>> = (a \o b) \o <<e>>
      OBVIOUS
    <3>2. OnTheirWay' = (InWork' \o EdgesAmong(queue')) \o edges'["osc"]
      BY DEF OnTheirWay
    <3>3. OnTheirWay = (InWork \o EdgesAmong(queue)) \o edges["osc"]
      BY DEF OnTheirWay
    <3> QED
      BY <1>2, <1>4, <2>2, <2>3, <2>4, <3>1, <3>2, <3>3
  <2>6. Unseen' = Unseen
    BY <2>1 DEF Unseen
  <2>7. Behind' = Behind
    BY <2>5, <2>6 DEF Behind
  <2>8. On' <=> On
    BY <2>1 DEF On
  <2> QED
    BY <1>2, <2>7, <2>8, Unnoticed
<1> QED
  BY <1>7, <1>8, <1>9, <1>10, <1>11, <1>12 DEF DispatchStep

\* The boot sync and the end of a count-in add no edge.
LEMMA ListenerCopied ==
    ASSUME ArrangementOnly, SInv, ListenerNext
    PROVE  UNCHANGED Switch!vars
<1>1. UNCHANGED <<wpc, job, obs>> /\ UNCHANGED recorderVars
  BY DEF ListenerNext, recorderVars, workerVars
<1>2. /\ pc \in [Thread -> Place] /\ edges \in [Thread -> Seq(Edge)] /\ signals \in Signals
      /\ wasStop \in BOOLEAN /\ queue \in Seq(Callback) /\ seen \in [Thread -> Signals]
  BY DEF SInv, IInv, TypeOK, SharedTypeOK, ListenerTypeOK
<1>3. CASE EmitCountInFinished
  <2>1. /\ pc["osc"] = "countInDone" /\ pc'["osc"] = "rest"
        /\ UNCHANGED <<edges, signals>>
        /\ queue' = Append(queue, CountInFinishedCallback(signals))
    BY <1>2, <1>3 DEF EmitCountInFinished, Put, Goto, Thread
  <2>2. EdgesAmong(queue') = EdgesAmong(queue)
    <3>1. /\ CountInFinishedCallback(signals) \in Callback
          /\ CountInFinishedCallback(signals).kind \notin Edge
      BY <1>2, CallbackType DEF CountInFinishedCallback, Edge
    <3> QED
      BY <1>2, <2>1, <3>1, EdgesAmongAppend DEF WithEdge
  <2>3. OnTheirWay' = OnTheirWay
    <3>1. EdgesAmong(queue)' = EdgesAmong(queue')
      BY DEF EdgesAmong, WithEdge
    <3> QED
      BY <1>1, <2>1, <2>2, <3>1 DEF OnTheirWay, InWork
  <2>4. Unseen' = Unseen
    BY <2>1 DEF Unseen
  <2>5. Behind' = Behind /\ (On' <=> On)
    BY <2>1, <2>3, <2>4 DEF Behind, On
  <2> QED
    BY <1>1, <2>5, Unnoticed
<1>4. CASE BootStep
  <2>1. /\ pc'["osc"] = pc["osc"] /\ signals'.arrangement = signals.arrangement
        /\ queue' = queue /\ edges'["osc"] = edges["osc"]
    BY <1>2, <1>4
    DEF BootStep, BootScan, BootSnapshot, BootCompare, BootSetStart, BootSetStop, Goto,
        sharedVars, attributes, Thread, Signals, SignalsOf
  <2>2. pc["osc"] = "rest" \/ (wasStop' <=> wasStop)
    BY <1>4 DEF BootStep, BootScan, BootSnapshot, BootCompare, BootSetStart, BootSetStop, Goto,
                stateMachine, SInv, CalmBoot
  <2>3. Unseen' = Unseen
    BY <2>1, <2>2 DEF Unseen
  <2>4. OnTheirWay' = OnTheirWay
    BY <1>1, <2>1, WayKept
  <2>5. Behind' = Behind /\ (On' <=> On)
    BY <2>1, <2>3, <2>4 DEF Behind, On
  <2> QED
    BY <1>1, <2>5, Unnoticed
<1>5. CASE DispatchStep("osc")
  BY <1>1, <1>5, DispatchCopied
<1>6. CASE \E t \in {"osc", "poll"} :
          CheckLiveIdle(t) \/ CheckStillRolling(t) \/ Disarm(t) \/ ForceStop(t)
  BY <1>6 DEF SInv, Calm, CheckLiveIdle, CheckStillRolling, Disarm, ForceStop, Goto
<1>7. CASE CheckSessionOn \/ CheckNotRolling \/ StartTake
  BY <1>7 DEF SInv, Calm, CheckSessionOn, CheckNotRolling, StartTake, Goto
<1>8. CASE DispatchStep("poll") \/ DispatchStep("main")
  BY <1>8 DEF SInv, Calm, CalmBoot, DispatchStep, Snapshot, CompareStart, SetStart,
              CompareStop, SetStop, EmitEdge, Goto
<1>9. CASE StampRecordMode
  <2>1. /\ pc["osc"] \in {"modeOn", "modeOff"} /\ pc'["osc"] = "snapshot"
        /\ UNCHANGED <<queue, edges, signals, wasStop>>
    BY <1>2, <1>9 DEF StampRecordMode, Goto, stateMachine, Thread
  <2>2. Unseen' = Unseen
    BY <2>1 DEF Unseen, SInv, Detected, ModeStamped, On
  <2>3. Behind' = Behind /\ (On' <=> On)
    BY <1>1, <2>1, <2>2, WayKept DEF Behind, On
  <2> QED
    BY <1>1, <2>3, Unnoticed
<1> QED
  BY <1>3, <1>4, <1>5, <1>6, <1>7, <1>8, <1>9
  DEF ListenerNext, ListenerStep, OscStep, PollStep, Thread

\* OBS does what the oldest edge says, and only then is the edge gone: a STARTED finds
\* OBS idle, a STOPPED finds it recording (recorder.py:96-109, 167-176).
LEMMA WorkerCopied ==
    ASSUME ArrangementOnly, SInv, RecorderNext
    PROVE  [Switch!Next]_Switch!vars
<1>1. UNCHANGED <<signals, wasStop, pc, edges>>
  BY DEF RecorderNext, listenerVars, localVars, stateMachine
<1>2. Unseen' = Unseen /\ (On' <=> On)
  BY <1>1 DEF Unseen, On
<1>3. ASSUME OnTheirWay' = OnTheirWay, obs' = obs PROVE UNCHANGED Switch!vars
  <2>1. Behind' = Behind
    BY <1>2, <1>3 DEF Behind
  <2> QED
    BY <1>2, <1>3, <2>1, Unnoticed
<1>4. /\ InWork \in Seq(Edge) /\ EdgesAmong(queue) \in Seq(Edge) /\ edges["osc"] \in Seq(Edge)
      /\ OnTheirWay \in Seq(Edge) /\ queue \in Seq(Callback)
  BY WayType DEF SInv, IInv, TypeOK, SharedTypeOK
<1>5. ASSUME queue' = queue, InWork' = InWork, obs' = obs PROVE UNCHANGED Switch!vars
  BY <1>1, <1>3, <1>5 DEF OnTheirWay
<1>6. CASE GetCallback
  <2>1. /\ wpc = "get" /\ wpc' = "run" /\ job' = Head(queue) /\ queue' = Tail(queue)
        /\ queue # <<>> /\ obs' = obs
    BY <1>6 DEF GetCallback
  <2>2. InWork = <<>>
    BY <2>1 DEF InWork
  <2>3. InWork' = WithEdge(<<>>, Head(queue))
    <3>1. Head(queue).kind \in {"STARTED", "STOPPED", "COUNT_IN_FINISHED"}
      <4>1. Head(queue) \in Callback
        BY <1>4, <2>1
      <4> QED
        BY <4>1 DEF Callback, CallbackKind, Edge
    <3>2. \A e : Append(<<>>, e) = <<e>>
      OBVIOUS
    <3> QED
      BY <2>1, <3>1, <3>2 DEF InWork, WithEdge, Edge
  <2>4. EdgesAmong(queue) = InWork' \o EdgesAmong(queue')
    BY <1>4, <2>1, <2>3, EdgesAmongTail
  <2>5. OnTheirWay' = OnTheirWay
    <3>1. \A s \in Seq(Edge) : <<>> \o s = s
      OBVIOUS
    <3> QED
      BY <1>1, <1>4, <2>2, <2>4, <3>1 DEF OnTheirWay
  <2> QED
    BY <1>3, <2>1, <2>5
\* OBS does the first of what it was behind, or leaves it out.
<1>7. ASSUME NEW e \in Edge, InWork = <<e>>, InWork' = <<>>, queue' = queue
      PROVE  /\ Behind # <<>> /\ Head(Behind) = (e = "STARTED") /\ Behind' = Tail(Behind)
             /\ (obs' = "take") = (e = "STARTED") => Switch!Next
             /\ e = "STARTED" /\ obs' = obs /\ Behind' # <<>> => Switch!Next
  <2>1. EdgesAmong(queue)' = EdgesAmong(queue)
    BY <1>7 DEF EdgesAmong
  <2>2. OnTheirWay = <<e>> \o OnTheirWay' /\ OnTheirWay' \in Seq(Edge)
    <3> DEFINE s == EdgesAmong(queue) \o edges["osc"]
    <3>1. \A a, b \in Seq(Edge) : (<<>> \o a) \o b = a \o b /\ (<<e>> \o a) \o b = <<e>> \o (a \o b)
      OBVIOUS
    <3>2. OnTheirWay' = s
      BY <1>1, <1>4, <1>7, <2>1, <3>1 DEF OnTheirWay
    <3>3. OnTheirWay = <<e>> \o s
      BY <1>4, <1>7, <3>1 DEF OnTheirWay
    <3>4. s \in Seq(Edge)
      BY <1>4
    <3> HIDE DEF s
    <3> QED
      BY <3>2, <3>3, <3>4
  <2>3. SwitchedTo(OnTheirWay) = <<e = "STARTED">> \o SwitchedTo(OnTheirWay')
    BY <2>2, SwitchedToHead
  <2>4. SwitchedTo(OnTheirWay') \in Seq(BOOLEAN) /\ Unseen \in Seq(BOOLEAN)
    <3>1. \A s \in Seq(Edge) : SwitchedTo(s) \in Seq(BOOLEAN)
      BY SwitchedToType
    <3> QED
      BY <2>2, <3>1, UnseenType
  <2>5. \A a, b \in Seq(BOOLEAN), x \in BOOLEAN :
            /\ (<<x>> \o a) \o b # <<>> /\ Head((<<x>> \o a) \o b) = x
            /\ Tail((<<x>> \o a) \o b) = a \o b /\ Len((<<x>> \o a) \o b) = Len(a \o b) + 1
            /\ Len(a \o b) \in Nat /\ (a \o b # <<>> => Len(a \o b) > 0)
    OBVIOUS
  <2>6. /\ Behind # <<>> /\ Head(Behind) = (e = "STARTED") /\ Tail(Behind) = Behind'
        /\ Behind' # <<>> => Len(Behind) > 1
    <3>1. SwitchedTo(OnTheirWay)' = SwitchedTo(OnTheirWay')
      BY DEF SwitchedTo
    <3> QED
      BY <1>2, <2>3, <2>4, <2>5, <3>1 DEF Behind
  <2>7. ASSUME (obs' = "take") = (e = "STARTED") PROVE Switch!Follow
    BY <1>1, <2>6, <2>7 DEF Switch!Follow, Behind
  <2>8. ASSUME e = "STARTED", obs' = obs, Behind' # <<>> PROVE Switch!Skip
    BY <1>1, <2>6, <2>8 DEF Switch!Skip, Behind
  <2> QED
    BY <2>6, <2>7, <2>8 DEF Switch!Next
<1> USE DEF SInv, Calm, Alternates, JobAlternates, AfterJob, Turn, Bit, Running,
            Step, Done, sharedVars, attributes, takeVars
<1>8. /\ obs = "take" => isRecording \/ wpc = "started"
      /\ isRecording => obs = "take" \/ wpc = "stopped"
      /\ obs \in {"idle", "take", "orphan"} /\ (obs = "orphan" => wpc = "get")
  BY DEF IInv, RecorderMatchesObs, DriftNeedsFault, ArrangementOnly, TypeOK, RecorderTypeOK,
         ObsState, OrphanCheckFirst
<1>9. CASE IgnoreStart
  BY <1>8, <1>9 DEF IgnoreStart
<1>10. CASE ProbeCountIn \/ FetchCountIn \/ DeferStart \/ StartSession
  BY <1>10 DEF ProbeCountIn, FetchCountIn, DeferStart, StartSession, BeginStart
<1>11. CASE CancelPendingStart \/ StartAfterCountIn
  BY <1>11 DEF CancelPendingStart, StartAfterCountIn
<1>12. CASE StartArrangement \/ MeasureLag \/ BeginStop
  BY <1>5, <1>12 DEF StartArrangement, MeasureLag, BeginStart, BeginStop, InWork
<1>13. CASE IgnoreCountInFinished \/ StartReturns \/ StopReturns \/ Finalized
  BY <1>5, <1>13 DEF IgnoreCountInFinished, StartReturns, StopReturns, Finalized, InWork
<1>14. CASE ObsStarts
  <2>1. InWork = <<"STARTED">> /\ InWork' = <<>> /\ queue' = queue /\ obs' = "take"
    BY <1>14 DEF ObsStarts, InWork
  <2> QED
    BY <1>7, <2>1 DEF Edge
<1>15. CASE ObsStops
  <2>1. InWork = <<"STOPPED">> /\ InWork' = <<>> /\ queue' = queue /\ obs' = "idle"
    BY <1>15 DEF ObsStops, InWork
  <2> QED
    BY <1>7, <2>1 DEF Edge
<1>16. CASE ObsStartFails
  BY <1>8, <1>16 DEF ObsStartFails, ArrangementOnly, IInv, WorkerPlaces
<1>17. CASE ObsStopFails
  BY <1>17 DEF ObsStopFails, ArrangementOnly
<1>18. CASE IgnoreStop
  <2>1. InWork = <<"STOPPED">> /\ InWork' = <<>> /\ queue' = queue /\ obs' # "take"
    BY <1>8, <1>18 DEF IgnoreStop, InWork
  <2> QED
    BY <1>7, <2>1 DEF Edge
<1>19. CASE LagRaises
  <2>1. /\ InWork = <<"STARTED">> /\ InWork' = <<>> /\ queue' = queue /\ obs' = obs
        /\ ~recordModeOn
    BY <1>19 DEF LagRaises, InWork
  <2>2. ASSUME EdgesAmong(queue) = <<>> PROVE edges["osc"] # <<>> \/ Unseen # <<>>
    <3>1. AfterJob = 1
      BY <1>19 DEF LagRaises
    <3>2. Emitted = 1
      BY <1>4, <2>2, <3>1, NoEdgesLeadNowhere DEF EdgesAlternate
    <3>3. signals.arrangement = 0 \/ On
      BY ConstantsAssumption DEF IInv, TypeOK, ListenerTypeOK, Signals, SignalsOf, On
    <3>4. ~On /\ (wasStop \/ pc["osc"] = "emit") /\ pc["osc"] \notin {"rest", "countInDone", "modeOn"}
      BY <2>1, <3>2 DEF Emitted, Detected, FlagsFollow, ModeStamped
    <3>5. \A x : <<x>> # <<>>
      OBVIOUS
    <3>6. CASE pc["osc"] \in {"setStop", "emit"}
      BY <3>4, <3>5, <3>6 DEF Detected, EdgesFound
    <3>7. CASE pc["osc"] \in {"modeOff", "snapshot", "compareStart", "setStart", "compareStop"}
      <4>1. Unseen = <<signals.arrangement = 1>>
        BY <3>3, <3>4, <3>7 DEF Unseen
      <4> QED
        BY <3>5, <4>1, Zenon
    <3> QED
      BY <3>4, <3>6, <3>7
  <2>3. Behind' # <<>>
    <3>1. OnTheirWay' = (<<>> \o EdgesAmong(queue)) \o edges["osc"]
      BY <1>1, <2>1 DEF OnTheirWay, EdgesAmong
    <3>2. \A a, b \in Seq(Edge) : /\ (<<>> \o a) \o b \in Seq(Edge)
                                 /\ (a # <<>> \/ b # <<>>) => (<<>> \o a) \o b # <<>>
      OBVIOUS
    <3>3. OnTheirWay' \in Seq(Edge) /\ (OnTheirWay' # <<>> \/ Unseen # <<>>)
      BY <1>4, <2>2, <3>1, <3>2
    <3>4. SwitchedTo(OnTheirWay') \o Unseen # <<>>
      BY <3>3, SomethingBehind, UnseenType
    <3> QED
      BY <1>2, <3>4 DEF Behind, SwitchedTo
  <2> QED
    BY <1>7, <2>1, <2>3 DEF Edge
<1> QED
  BY <1>6, <1>9, <1>10, <1>11, <1>12, <1>13, <1>14, <1>15, <1>16, <1>17, <1>18, <1>19
  DEF RecorderNext, RecorderStep

\* The first bridge, or the next one, has nothing to follow and OBS records no take
\* of it.
LEMMA FreshCopied ==
    ASSUME Init
    PROVE  Switch!Init
<1>1. /\ pc["osc"] = "rest" /\ edges["osc"] = <<>> /\ queue = <<>> /\ wpc = "get"
      /\ signals.arrangement = 0 /\ obs # "take"
  BY DEF Init, SharedInit, ListenerInit, RecorderInit, NoSignals, Thread
<1>2. InWork = <<>> /\ Unseen = <<>>
  BY <1>1 DEF InWork, Unseen
<1>3. OnTheirWay = <<>>
  BY <1>1, <1>2, EdgesAmongNone DEF OnTheirWay
<1> QED
  BY <1>1, <1>2, <1>3 DEF Switch!Init, SwitchedTo

\* A crash is a restart of the copy.
LEMMA CrashCopied ==
    ASSUME CrashAndRestart
    PROVE  Switch!Restart
<1>1. /\ pc'["osc"] = "rest" /\ edges'["osc"] = <<>> /\ queue' = <<>> /\ wpc' = "get"
      /\ signals'.arrangement = 0 /\ obs' # "take"
  BY DEF CrashAndRestart, NoSignals, Thread
<1>2. InWork' = <<>> /\ Unseen' = <<>>
  BY <1>1 DEF InWork, Unseen
<1>3. OnTheirWay' = <<>>
  BY <1>1, <1>2, EdgesAmongNone DEF OnTheirWay, EdgesAmong
<1> QED
  BY <1>1, <1>2, <1>3 DEF Switch!Restart, SwitchedTo

\* Every step is one of the copy's, or none.
LEMMA StepCopied ==
    ASSUME ArrangementOnly
    PROVE  SInv /\ [Next]_vars => [Switch!Next]_Switch!vars
<1> SUFFICES ASSUME SInv, [Next]_vars PROVE [Switch!Next]_Switch!vars
  OBVIOUS
<1>1. CASE LiveNext
  BY <1>1, LiveCopied
<1>2. CASE ListenerNext
  BY <1>2, ListenerCopied
<1>3. CASE RecorderNext
  BY <1>3, WorkerCopied
<1>4. CASE StopOrphan
  <2>1. /\ pc["main"] = "orphan" /\ pc' = [pc EXCEPT !["main"] = "scan"]
        /\ UNCHANGED <<queue, wpc, job, edges, signals, wasStop>>
    BY <1>4 DEF StopOrphan, Goto, workerVars, sharedVars, attributes, stateMachine
  <2>2. pc'["osc"] = pc["osc"]
    BY <2>1 DEF SInv, IInv, TypeOK, ListenerTypeOK, Thread
  <2>3. obs # "take" /\ obs' # "take"
    BY <1>4, <2>1 DEF StopOrphan, SInv, IInv, OrphanCheckFirst, RecorderMatchesObs
  <2>4. Behind' = Behind /\ (On' <=> On)
    BY <2>1, <2>2, WayKept DEF Behind, Unseen, On
  <2> QED
    BY <2>3, <2>4, Unnoticed
<1>5. CASE CrashAndRestart
  BY <1>5, CrashCopied DEF Switch!Next
<1>6. CASE UNCHANGED vars
  <2>1. UNCHANGED <<queue, wpc, job, edges, signals, wasStop, pc, obs>>
    BY <1>6 DEF vars, sharedVars, attributes, listenerVars, localVars, stateMachine,
                recorderVars, workerVars
  <2>2. Behind' = Behind /\ (On' <=> On)
    BY <2>1, WayKept DEF Behind, Unseen, On
  <2> QED
    BY <2>1, <2>2, Unnoticed
<1> QED
  BY <1>1, <1>2, <1>3, <1>4, <1>5, <1>6 DEF Next

\* README.md:3: with arrangement record alone OBS is a delayed copy of the record
\* switch, whatever the backlog: no two takes are joined and none is made of nothing,
\* and a switch-on is left out only if it has been switched off again.
THEOREM SwitchCopied == ASSUME ArrangementOnly PROVE Spec => CopiesSwitch
<1>1. Init => Switch!Init
  BY FreshCopied
<1>2. SInv /\ [Next]_vars => [Switch!Next]_Switch!vars
  BY StepCopied
<1>3. SInv /\ [Next]_vars => SInv'
  BY SwitchInductive
<1> QED
  BY <1>1, <1>2, <1>3, InitSInv, PTL DEF Spec, CopiesSwitch, Switch!Safety
=============================================================================
