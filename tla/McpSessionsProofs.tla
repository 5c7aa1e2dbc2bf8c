--------------------------- MODULE McpSessionsProofs ---------------------------
(* Proofs about the MCP server's sessions, for all clients, ids, worlds and    *)
(* requests, however many calls there are.                                     *)
EXTENDS McpSessions, FiniteSetTheorems, TLAPS

-----------------------------------------------------------------------------
(* One mind. *)

\* t is s, or s goes on in t.
Extends(s, t) == Len(s) <= Len(t) /\ \A k \in 1..Len(s) : s[k] = t[k]

\* The first n of s are the last n of the first m of t; and the first n of t.
EndOf(s, n, t, m) == \A k \in 1..n : s[k] = t[m - n + k]
Agree(s, t, n) == \A k \in 1..n : s[k] = t[k]

\* The ledger is the end of the chain, as long as it may be.
TailOfChain(m) ==
    /\ Len(m.log) = IF Len(m.head) < LogCap THEN Len(m.head) ELSE LogCap
    /\ EndOf(m.log, Len(m.log), m.head, Len(m.head))

Sound(m) ==
    /\ m \in Mind
    /\ m.cursor <= PlanLength(m)
    /\ ~m.spliced => TailOfChain(m)

LEMMA PrefixIsExtends ==
    ASSUME NEW s \in Seq(Events), NEW t \in Seq(Events)
    PROVE  IsPrefix(s, t) <=> Extends(s, t)
<1>1. CASE Len(s) <= Len(t)
  <2>1. SubSeq(s, 1, Len(s)) = [k \in 1..Len(s) |-> s[k]]
        /\ SubSeq(t, 1, Len(s)) = [k \in 1..Len(s) |-> t[k]]
    BY <1>1
  <2> QED
    BY <1>1, <2>1 DEF IsPrefix, Extends
<1>2. CASE ~(Len(s) <= Len(t))
  BY <1>2 DEF IsPrefix, Extends
<1> QED
  BY <1>1, <1>2

LEMMA ReverseIs ==
    ASSUME NEW s \in Seq(Events)
    PROVE  /\ Reverse(s) \in Seq(Events) /\ Len(Reverse(s)) = Len(s)
           /\ \A k \in 1..Len(s) : Reverse(s)[k] = s[Len(s) - k + 1]
<1>1. \A k \in 1..Len(s) : s[Len(s) - k + 1] \in Events
  OBVIOUS
<1>2. Reverse(s) \in [1..Len(s) -> Events] /\ Len(s) \in Nat
  BY <1>1 DEF Reverse
<1>3. Reverse(s) \in Seq(Events) /\ Len(Reverse(s)) = Len(s)
  BY <1>2
<1> QED
  BY <1>3 DEF Reverse

LEMMA EndsReversed ==
    ASSUME NEW s \in Seq(Events), NEW t \in Seq(Events), Len(s) <= Len(t),
           EndOf(s, Len(s), t, Len(t))
    PROVE  IsSuffix(s, t)
<1>1. Len(s) \in Nat /\ Len(t) \in Nat
  OBVIOUS
<1>2. ASSUME NEW k \in 1..Len(s) PROVE s[Len(s) - k + 1] = t[Len(t) - k + 1]
  <2>1. Len(s) - k + 1 \in 1..Len(s)
    BY <1>1
  <2>2. s[Len(s) - k + 1] = t[Len(t) - Len(s) + (Len(s) - k + 1)]
    BY <2>1 DEF EndOf
  <2>3. Len(t) - Len(s) + (Len(s) - k + 1) = Len(t) - k + 1
    BY <1>1
  <2> QED
    BY <2>2, <2>3
<1>3. /\ Reverse(s) \in Seq(Events) /\ Reverse(t) \in Seq(Events)
      /\ Len(Reverse(s)) = Len(s) /\ Len(Reverse(t)) = Len(t)
      /\ \A k \in 1..Len(s) : Reverse(s)[k] = s[Len(s) - k + 1]
      /\ \A k \in 1..Len(t) : Reverse(t)[k] = t[Len(t) - k + 1]
  BY ReverseIs
<1>4. \A k \in 1..Len(s) : k \in 1..Len(t)
  BY <1>1
<1>5. Extends(Reverse(s), Reverse(t))
  BY <1>1, <1>2, <1>3, <1>4 DEF Extends
<1> QED
  BY <1>3, <1>5, PrefixIsExtends DEF IsSuffix

\* What the run checks of a ledger follows.
LEMMA TailIsSuffix ==
    ASSUME NEW m \in Mind, TailOfChain(m)
    PROVE  IsSuffix(m.log, m.head)
<1>1. m.log \in Seq(Events) /\ m.head \in Seq(Events)
  BY DEF Mind
<1>2. Len(m.log) <= Len(m.head)
  BY <1>1, SessionsAssumption DEF TailOfChain
<1> QED
  BY <1>1, <1>2, EndsReversed DEF TailOfChain

LEMMA ChainedIs ==
    ASSUME NEW m \in Mind, NEW e \in Events
    PROVE  /\ Chained(m, e) \in Mind
           /\ Chained(m, e).head = Append(m.head, e)
           /\ Chained(m, e).log = Bounded(Append(m.log, e))
           /\ Chained(m, e).world = m.world /\ Chained(m, e).plan = m.plan
           /\ Chained(m, e).cursor = m.cursor /\ Chained(m, e).epoch = m.epoch
           /\ Chained(m, e).spliced = m.spliced
           /\ Extends(m.head, Chained(m, e).head)
<1>1. Append(m.head, e) \in Seq(Events) /\ Append(m.log, e) \in Seq(Events)
  BY DEF Mind
<1>2. Bounded(Append(m.log, e)) \in Seq(Events)
  BY <1>1, SessionsAssumption DEF Bounded
<1>3. Extends(m.head, Append(m.head, e))
  BY DEF Mind, Extends
<1> QED
  BY <1>1, <1>2, <1>3 DEF Mind, Chained

LEMMA BoundedIs ==
    ASSUME NEW s \in Seq(Events)
    PROVE  /\ Bounded(s) \in Seq(Events)
           /\ Len(Bounded(s)) = IF Len(s) > LogCap THEN LogCap ELSE Len(s)
           /\ EndOf(Bounded(s), Len(Bounded(s)), s, Len(s))
<1>1. CASE Len(s) > LogCap
  BY <1>1, SessionsAssumption DEF Bounded, EndOf
<1>2. CASE ~(Len(s) > LogCap)
  BY <1>2, SessionsAssumption DEF Bounded, EndOf
<1> QED
  BY <1>1, <1>2

\* l is the end of h, a is l and b is h with one more at the end, c is the end of a.
LEMMA EndOfEnd ==
    ASSUME NEW lh \in Nat, NEW ll \in Nat, NEW lc \in Nat, NEW h, NEW l, NEW a, NEW b, NEW c,
           ll <= lh, lc <= ll + 1, EndOf(l, ll, h, lh),
           Agree(a, l, ll), Agree(b, h, lh), a[ll + 1] = b[lh + 1],
           EndOf(c, lc, a, ll + 1)
    PROVE  EndOf(c, lc, b, lh + 1)
<1> SUFFICES ASSUME NEW k \in 1..lc PROVE c[k] = b[lh + 1 - lc + k]
  BY DEF EndOf
<1>0. c[k] = a[ll + 1 - lc + k]
  BY DEF EndOf
<1>1. CASE k = lc
  <2>1. ll + 1 - lc + k = ll + 1 /\ lh + 1 - lc + k = lh + 1
    BY <1>1
  <2> QED
    BY <1>0, <2>1
<1>2. CASE k < lc
  <2>1. /\ ll + 1 - lc + k \in 1..ll /\ lh - ll + (ll + 1 - lc + k) \in 1..lh
        /\ lh - ll + (ll + 1 - lc + k) = lh + 1 - lc + k
    BY <1>2
  <2> QED
    BY <1>0, <2>1 DEF EndOf, Agree
<1> QED
  BY <1>1, <1>2

LEMMA AppendAgrees ==
    ASSUME NEW s \in Seq(Events), NEW e \in Events
    PROVE  /\ Append(s, e) \in Seq(Events) /\ Len(Append(s, e)) = Len(s) + 1
           /\ Agree(Append(s, e), s, Len(s)) /\ Append(s, e)[Len(s) + 1] = e
  BY DEF Agree

\* A receipt joins the chain and its ledger alike.
LEMMA ChainedSound == ASSUME NEW m, Sound(m), NEW e \in Events PROVE Sound(Chained(m, e))
<1>1. /\ m \in Mind /\ Chained(m, e) \in Mind
      /\ Chained(m, e).head = Append(m.head, e) /\ Chained(m, e).log = Bounded(Append(m.log, e))
      /\ Chained(m, e).spliced = m.spliced
      /\ Chained(m, e).cursor = m.cursor /\ Chained(m, e).plan = m.plan
  BY ChainedIs DEF Sound
<1>2. Chained(m, e).cursor <= PlanLength(Chained(m, e))
  BY <1>1 DEF Sound, PlanLength
<1>3. ASSUME ~m.spliced PROVE TailOfChain(Chained(m, e))
  <2> DEFINE h == m.head
             l == m.log
             a == Append(l, e)
             b == Append(h, e)
             c == Bounded(a)
  <2>1. /\ h \in Seq(Events) /\ l \in Seq(Events)
        /\ Len(l) = IF Len(h) < LogCap THEN Len(h) ELSE LogCap
        /\ EndOf(l, Len(l), h, Len(h))
    BY <1>1, <1>3 DEF Sound, TailOfChain, Mind
  <2>2. /\ a \in Seq(Events) /\ Len(a) = Len(l) + 1 /\ Agree(a, l, Len(l)) /\ a[Len(l) + 1] = e
        /\ b \in Seq(Events) /\ Len(b) = Len(h) + 1 /\ Agree(b, h, Len(h)) /\ b[Len(h) + 1] = e
    BY <2>1, AppendAgrees
  <2>3. /\ c \in Seq(Events) /\ Len(c) = IF Len(a) > LogCap THEN LogCap ELSE Len(a)
        /\ EndOf(c, Len(c), a, Len(a))
    BY <2>2, BoundedIs
  <2>4. Chained(m, e).head = b /\ Chained(m, e).log = c
    BY <1>1
  <2> HIDE DEF a, b, c, h, l
  <2>5. /\ Len(l) \in Nat /\ Len(h) \in Nat /\ Len(c) \in Nat
        /\ Len(l) <= Len(h) /\ Len(c) <= Len(l) + 1
        /\ Len(c) = IF Len(b) < LogCap THEN Len(b) ELSE LogCap
    BY <2>1, <2>2, <2>3, SessionsAssumption
  <2>6. EndOf(c, Len(c), b, Len(b))
    <3>1. EndOf(c, Len(c), a, Len(l) + 1)
      BY <2>2, <2>3
    <3>2. a[Len(l) + 1] = b[Len(h) + 1]
      BY <2>2
    <3>3. EndOf(c, Len(c), b, Len(h) + 1)
      BY <2>1, <2>2, <2>5, <3>1, <3>2, EndOfEnd
    <3> QED
      BY <2>2, <3>3
  <2> QED
    BY <2>4, <2>5, <2>6 DEF TailOfChain
<1> QED
  BY <1>1, <1>2, <1>3 DEF Sound

LEMMA BlankSound == Blank \in Mind /\ Sound(Blank)
<1>1. (CHOOSE w \in Worlds : TRUE) \in Worlds
  BY SessionsAssumption
<1>2. Blank \in Mind
  BY <1>1, SessionsAssumption DEF Blank, Mind
<1>3. TailOfChain(Blank)
  BY SessionsAssumption DEF Blank, TailOfChain, EndOf
<1> QED
  BY <1>2, <1>3 DEF Blank, Sound, PlanLength

\* What the edits, the searches and the restores make of a mind.
LEMMA EditsSound ==
    ASSUME NEW m, Sound(m), NEW w \in Worlds, NEW p \in {NoPlan} \cup 0..MaxPlan, NEW k \in Nat
    PROVE  /\ Sound([m EXCEPT !.world = w])
           /\ Sound([m EXCEPT !.world = w, !.epoch = @ + 1])
           /\ Sound([m EXCEPT !.world = w, !.cursor = 0, !.epoch = @ + 1])
           /\ Sound([m EXCEPT !.plan = p, !.cursor = 0])
           /\ Sound([m EXCEPT !.epoch = @ + 1])
           /\ m.cursor + k <= PlanLength(m) => Sound([m EXCEPT !.cursor = @ + k])
<1>1. /\ m \in Mind /\ m.epoch + 1 \in Nat /\ m.cursor + k \in Nat /\ m.cursor <= PlanLength(m)
      /\ MaxPlan \in Nat /\ ~m.spliced => TailOfChain(m)
  BY SessionsAssumption DEF Sound, Mind
<1>2. ASSUME NEW n \in Mind, n.head = m.head, n.log = m.log, n.spliced = m.spliced,
             n.cursor <= PlanLength(n)
      PROVE  Sound(n)
  BY <1>1, <1>2 DEF Sound, TailOfChain
<1>3. Sound([m EXCEPT !.world = w])
  <2> DEFINE n == [m EXCEPT !.world = w]
  <2>1. /\ n \in Mind /\ n.head = m.head /\ n.log = m.log /\ n.spliced = m.spliced
        /\ n.cursor = m.cursor /\ n.plan = m.plan
    BY <1>1 DEF Mind
  <2>2. n.cursor <= PlanLength(n)
    BY <1>1, <2>1 DEF PlanLength
  <2> HIDE DEF n
  <2>3. Sound(n)
    BY <1>2, <2>1, <2>2
  <2> QED
    BY <2>3 DEF n
<1>4. Sound([m EXCEPT !.world = w, !.epoch = @ + 1])
  <2> DEFINE n == [m EXCEPT !.world = w, !.epoch = @ + 1]
  <2>1. /\ n \in Mind /\ n.head = m.head /\ n.log = m.log /\ n.spliced = m.spliced
        /\ n.cursor = m.cursor /\ n.plan = m.plan
    BY <1>1 DEF Mind
  <2>2. n.cursor <= PlanLength(n)
    BY <1>1, <2>1 DEF PlanLength
  <2> HIDE DEF n
  <2>3. Sound(n)
    BY <1>2, <2>1, <2>2
  <2> QED
    BY <2>3 DEF n
<1>5. Sound([m EXCEPT !.world = w, !.cursor = 0, !.epoch = @ + 1])
  <2> DEFINE n == [m EXCEPT !.world = w, !.cursor = 0, !.epoch = @ + 1]
  <2>1. /\ n \in Mind /\ n.head = m.head /\ n.log = m.log /\ n.spliced = m.spliced /\ n.cursor = 0
    BY <1>1 DEF Mind
  <2>2. n.cursor <= PlanLength(n)
    BY <1>1, <2>1 DEF PlanLength, Mind
  <2> HIDE DEF n
  <2>3. Sound(n)
    BY <1>2, <2>1, <2>2
  <2> QED
    BY <2>3 DEF n
<1>6. Sound([m EXCEPT !.plan = p, !.cursor = 0])
  <2> DEFINE n == [m EXCEPT !.plan = p, !.cursor = 0]
  <2>1. /\ n \in Mind /\ n.head = m.head /\ n.log = m.log /\ n.spliced = m.spliced /\ n.cursor = 0
    BY <1>1 DEF Mind
  <2>2. n.cursor <= PlanLength(n)
    BY <1>1, <2>1 DEF PlanLength, Mind
  <2> HIDE DEF n
  <2>3. Sound(n)
    BY <1>2, <2>1, <2>2
  <2> QED
    BY <2>3 DEF n
<1>7. Sound([m EXCEPT !.epoch = @ + 1])
  <2> DEFINE n == [m EXCEPT !.epoch = @ + 1]
  <2>1. /\ n \in Mind /\ n.head = m.head /\ n.log = m.log /\ n.spliced = m.spliced
        /\ n.cursor = m.cursor /\ n.plan = m.plan
    BY <1>1 DEF Mind
  <2>2. n.cursor <= PlanLength(n)
    BY <1>1, <2>1 DEF PlanLength
  <2> HIDE DEF n
  <2>3. Sound(n)
    BY <1>2, <2>1, <2>2
  <2> QED
    BY <2>3 DEF n
<1>8. ASSUME m.cursor + k <= PlanLength(m) PROVE Sound([m EXCEPT !.cursor = @ + k])
  <2> DEFINE n == [m EXCEPT !.cursor = @ + k]
  <2>1. /\ n \in Mind /\ n.head = m.head /\ n.log = m.log /\ n.spliced = m.spliced
        /\ n.cursor = m.cursor + k /\ n.plan = m.plan
    BY <1>1 DEF Mind
  <2>2. n.cursor <= PlanLength(n)
    BY <1>8, <2>1 DEF PlanLength
  <2> HIDE DEF n
  <2>3. Sound(n)
    BY <1>2, <2>1, <2>2
  <2> QED
    BY <2>3 DEF n
<1> QED
  BY <1>3, <1>4, <1>5, <1>6, <1>7, <1>8

\* A mind put over another one is spliced: its ledger promises nothing more.
LEMMA OverlaidSound ==
    ASSUME NEW m, Sound(m), NEW old, Sound(old)
    PROVE  Sound(Overlaid(m, old)) /\ Overlaid(m, old).head = old.head
<1>1. m \in Mind /\ old.head \in Seq(Events) /\ m.cursor <= PlanLength(m)
  BY DEF Sound, Mind
<1> DEFINE n == [m EXCEPT !.head = old.head, !.spliced = TRUE]
<1>2. /\ n \in Mind /\ n.head = old.head /\ n.spliced = TRUE /\ n.cursor = m.cursor /\ n.plan = m.plan
  BY <1>1 DEF Mind
<1>3. n.cursor <= PlanLength(n)
  BY <1>1, <1>2 DEF PlanLength
<1> HIDE DEF n
<1>4. Sound(n)
  BY <1>2, <1>3 DEF Sound
<1> QED
  BY <1>2, <1>4 DEF n, Overlaid

LEMMA BootstrappedSound ==
    ASSUME NEW w \in Worlds, NEW p \in {NoPlan} \cup 0..MaxPlan
    PROVE  Sound(Bootstrapped(w, p))
<1> DEFINE n == [Blank EXCEPT !.world = w, !.plan = p]
<1>1. /\ n \in Mind /\ n.head = Blank.head /\ n.log = Blank.log /\ n.cursor = 0
  BY BlankSound DEF Mind, Blank
<1>2. n.cursor <= PlanLength(n)
  BY <1>1, SessionsAssumption DEF PlanLength, Mind
<1> HIDE DEF n
<1>3. TailOfChain(n)
  BY <1>1, BlankSound DEF Sound, TailOfChain, Blank
<1>4. Sound(n)
  BY <1>1, <1>2, <1>3 DEF Sound
<1> QED
  BY <1>4 DEF n, Bootstrapped

LEMMA FreshSound ==
    ASSUME NEW w \in Worlds
    PROVE  Sound(Fresh(w)) /\ Fresh(w).head \in Seq(Events)
<1>1. Sound([Blank EXCEPT !.world = w])
  BY BlankSound, EditsSound, SessionsAssumption
<1>2. "open" \in Events
  BY DEF Events, Ops
<1>3. Sound(Fresh(w))
  BY <1>1, <1>2, ChainedSound DEF Fresh
<1> QED
  BY <1>3 DEF Sound, Mind

-----------------------------------------------------------------------------
(* The invariant. *)

Pcs == {"idle", "copy", "lookup", "right", "lock", "second", "search", "held", "insert"}
Call == [pc : Pcs, req : Requests, epoch : Nat \cup {NoEpoch}, arc : Nat, right : Nat, mind : Mind]
Saw == [id : Nat, arc : Nat, epoch : Nat \cup {NoEpoch}, world : Worlds]

Shape ==
    /\ minds \in Seq(Mind)
    /\ table \in [Ids -> Nat] /\ \A i \in Ids : table[i] \in {NoArc} \cup Arcs
    /\ holder \in Seq(Clients \cup {Nobody}) /\ Len(holder) = Len(minds)
    /\ shelf \in [Shelves -> Mind]
    /\ call \in [Clients -> Call]
    /\ saw \in [Clients -> Saw]
    /\ due \in [Ids -> SUBSET Seq(Events)]

AllSound == /\ \A a \in Arcs : Sound(minds[a])
            /\ \A k \in Shelves : Sound(shelf[k])
            /\ \A c \in Clients : Sound(call[c].mind)

\* What a call holds and where it points while it is under way.  A successor on its
\* way goes on from every receipt it owes.
Steady(c) ==
    /\ call[c].pc \in {"right", "lock", "second", "search", "held", "insert"} => call[c].arc \in Arcs
    /\ call[c].pc = "lock" /\ Op(c) = "compare" => call[c].right \in Arcs
    /\ call[c].pc = "second" => InOrder(c)[1] \in Arcs /\ holder[InOrder(c)[1]] = c
    /\ call[c].pc = "search" => holder[call[c].arc] = c
    /\ call[c].pc \in {"held", "insert"} => mapHolder = c /\ call[c].arc = table[Id(c)]
    /\ call[c].pc = "insert" => \A r \in due[Id(c)] : Extends(r, call[c].mind.head)

\* What a client was told of the Arc it last saw, and what its call makes of it.
Told(c) ==
    /\ call[c].epoch /= NoEpoch => Op(c) \in Checked /\ call[c].epoch = saw[c].epoch
    /\ call[c].pc = "search" /\ call[c].epoch /= NoEpoch =>
          call[c].epoch = minds[call[c].arc].epoch
    /\ saw[c].arc /= NoArc =>
          LET m == minds[saw[c].arc] IN
          /\ saw[c].arc \in Arcs /\ saw[c].epoch <= m.epoch
          /\ saw[c].arc \notin torn /\ saw[c].epoch = m.epoch => saw[c].world = m.world

Lineage == \A i \in Ids : table[i] /= NoArc =>
              \A r \in due[i] : Extends(r, minds[table[i]].head)

IInv == Shape /\ AllSound /\ (\A c \in Clients : Steady(c) /\ Told(c)) /\ Lineage

\* A step of client c leaves the others what they hold and were told.
Gentle(c) ==
    /\ \A d \in Clients \ {c} :
        /\ call'[d] = call[d] /\ saw'[d] = saw[d]
        /\ call[d].pc \in {"held", "insert"} => mapHolder' = d /\ table'[Id(d)] = table[Id(d)]
        /\ call[d].pc = "insert" => due'[Id(d)] = due[Id(d)]
        /\ \A a \in Arcs : holder[a] = d => holder'[a] = d /\ minds'[a].epoch = minds[a].epoch
    /\ Len(minds) <= Len(minds')
    /\ torn \subseteq torn'
    /\ \A a \in Arcs :
        /\ minds[a].epoch <= minds'[a].epoch
        /\ minds'[a].epoch = minds[a].epoch /\ a \notin torn' => minds'[a].world = minds[a].world

\* A call that is accepted with an epoch, to write or to prepare an insert, carries
\* the one its session has.
Accepts(c) ==
    call[c].epoch /= NoEpoch /\ call[c].pc /= "insert"
            /\ (minds' /= minds \/ call'[c].pc = "insert") =>
        call[c].arc \in Arcs /\ call[c].epoch = minds[call[c].arc].epoch

LEMMA RequestIs ==
    ASSUME Shape, NEW c \in Clients
    PROVE  /\ call[c] \in Call /\ call[c].req \in Requests /\ call[c].req \in Request
           /\ Op(c) \in Ops /\ Id(c) \in Ids /\ call[c].req.other \in Ids
           /\ call[c].req.shelf \in Shelves
<1>1. call[c] \in Call
  BY DEF Shape
<1>2. call[c].req \in Requests /\ call[c].req \in Request
  BY <1>1, RequestsAssumption DEF Call
<1> QED
  BY <1>1, <1>2 DEF Request, Op, Id

LEMMA EpochsAreNumbers ==
    ASSUME Shape
    PROVE  /\ \A a \in Arcs : minds[a] \in Mind /\ minds[a].epoch \in Nat
           /\ \A c \in Clients : saw[c].epoch \in Nat \cup {NoEpoch} /\ saw[c].arc \in Nat
<1>1. \A a \in Arcs : minds[a] \in Mind
  BY DEF Shape, Arcs
<1>2. \A a \in Arcs : minds[a].epoch \in Nat
  BY <1>1 DEF Mind
<1>3. \A c \in Clients : saw[c].epoch \in Nat \cup {NoEpoch} /\ saw[c].arc \in Nat
  BY DEF Shape, Saw
<1> QED
  BY <1>1, <1>2, <1>3

LEMMA OtherClient ==
    ASSUME IInv, Shape', NEW c \in Clients, Gentle(c), NEW d \in Clients, d /= c
    PROVE  Steady(d)' /\ Told(d)'
<1>1. call'[d] = call[d] /\ saw'[d] = saw[d] /\ Steady(d) /\ Told(d)
  BY DEF Gentle, IInv
<1>2. /\ \A a \in Arcs : a \in Arcs'
      /\ \A a \in Arcs : /\ holder[a] = d => holder'[a] = d /\ minds'[a].epoch = minds[a].epoch
                         /\ minds[a].epoch <= minds'[a].epoch
                         /\ minds'[a].epoch = minds[a].epoch /\ a \notin torn' =>
                                minds'[a].world = minds[a].world
      /\ call[d].pc \in {"held", "insert"} => mapHolder' = d /\ table'[Id(d)] = table[Id(d)]
      /\ call[d].pc = "insert" => due'[Id(d)] = due[Id(d)]
      /\ torn \subseteq torn'
  <2>1. Len(minds) \in Nat /\ Len(minds') \in Nat
    BY DEF IInv, Shape
  <2> QED
    BY <2>1 DEF Gentle, Arcs
<1>3. Id(d)' = Id(d) /\ Op(d)' = Op(d) /\ InOrder(d)' = InOrder(d)
  BY <1>1 DEF Id, Op, InOrder
<1>4. Steady(d)'
  BY <1>1, <1>2, <1>3 DEF Steady
<1>5. \A a \in Arcs : minds[a].epoch \in Nat /\ minds'[a].epoch \in Nat
  <2>1. \A a \in Arcs' : minds'[a] \in Mind
    BY DEF Shape, Arcs
  <2>2. \A a \in Arcs' : minds'[a].epoch \in Nat
    BY <2>1 DEF Mind
  <2> QED
    BY <1>2, <2>2, EpochsAreNumbers DEF IInv
<1>6. saw[d].epoch \in Nat \cup {NoEpoch} /\ NoEpoch \in Int
  BY EpochsAreNumbers DEF IInv, NoEpoch
<1>7. ASSUME saw[d].arc /= NoArc
      PROVE  /\ saw[d].arc \in Arcs' /\ saw[d].epoch <= minds'[saw[d].arc].epoch
             /\ saw[d].arc \notin torn' /\ saw[d].epoch = minds'[saw[d].arc].epoch =>
                    saw[d].world = minds'[saw[d].arc].world
  <2>1. saw[d].arc \in Arcs /\ saw[d].epoch <= minds[saw[d].arc].epoch
    BY <1>1, <1>7 DEF Told
  <2>2. saw[d].epoch <= minds'[saw[d].arc].epoch
    BY <1>2, <1>5, <1>6, <2>1
  <2>3. ASSUME saw[d].arc \notin torn', saw[d].epoch = minds'[saw[d].arc].epoch
        PROVE  saw[d].world = minds'[saw[d].arc].world
    <3>1. saw[d].epoch = minds[saw[d].arc].epoch /\ saw[d].arc \notin torn
      BY <1>2, <1>5, <1>6, <2>1, <2>3
    <3> QED
      BY <1>1, <1>2, <1>7, <2>1, <2>3, <3>1 DEF Told
  <2> QED
    BY <1>2, <2>1, <2>2, <2>3
<1>8. Told(d)'
  <2>1. ASSUME call[d].pc = "search", call[d].epoch /= NoEpoch
        PROVE  call[d].epoch = minds'[call[d].arc].epoch
    BY <1>1, <1>2, <2>1 DEF Steady, Told
  <2> QED
    BY <1>1, <1>3, <1>7, <2>1 DEF Told
<1> QED
  BY <1>4, <1>8

LEMMA StepOfOne ==
    ASSUME IInv, NEW c \in Clients, Shape', AllSound', Lineage', Gentle(c), Steady(c)', Told(c)'
    PROVE  IInv'
<1>1. \A d \in Clients : d /= c => Steady(d)' /\ Told(d)'
  BY OtherClient
<1> QED
  BY <1>1 DEF IInv

-----------------------------------------------------------------------------
(* The three kinds of step. *)

LEMMA ExtendsTransitive ==
    ASSUME NEW r \in Seq(Events), NEW s \in Seq(Events), NEW t \in Seq(Events),
           Extends(r, s), Extends(s, t)
    PROVE  Extends(r, t)
<1>1. Len(r) \in Nat /\ Len(s) \in Nat /\ Len(t) \in Nat
  OBVIOUS
<1> QED
  BY <1>1 DEF Extends

LEMMA RestIs == Rest \in Call /\ Rest.pc = "idle" /\ Rest.epoch = NoEpoch /\ Rest.mind = Blank
<1>1. (CHOOSE r \in Requests : TRUE) \in Requests
  BY RequestsAssumption
<1> QED
  BY <1>1, BlankSound DEF Rest, Call, Pcs, NoArc, NoEpoch

\* c comes to rest; what it was told stays, or is the epoch of an Arc as it is now.
LEMMA RestIsSteady ==
    ASSUME IInv, Shape', NEW c \in Clients, call'[c] = Rest, Gentle(c),
           \/ saw'[c] = saw[c]
           \/ LET m == minds'[saw'[c].arc] IN
              saw'[c].arc \in Arcs' /\ saw'[c].epoch = m.epoch /\ saw'[c].world = m.world
    PROVE  Steady(c)' /\ Told(c)'
<1>1. Steady(c)'
  BY RestIs DEF Steady
<1>2. Len(minds) \in Nat /\ Len(minds') \in Nat /\ \A a \in Arcs : a \in Arcs'
  <2>1. Len(minds) \in Nat /\ Len(minds') \in Nat
    BY DEF IInv, Shape
  <2> QED
    BY <2>1 DEF Gentle, Arcs
<1>3. /\ \A a \in Arcs : minds[a].epoch \in Nat
      /\ \A a \in Arcs' : minds'[a].epoch \in Nat
      /\ saw[c].epoch \in Nat \cup {NoEpoch} /\ NoEpoch \in Int
  <2>1. \A a \in Arcs' : minds'[a] \in Mind
    BY DEF Shape, Arcs
  <2> QED
    BY <2>1, EpochsAreNumbers DEF IInv, Mind, NoEpoch
<1>4. CASE saw'[c] = saw[c]
  <2>1. ASSUME saw[c].arc /= NoArc
        PROVE  /\ saw[c].arc \in Arcs' /\ saw[c].epoch <= minds'[saw[c].arc].epoch
               /\ saw[c].arc \notin torn' /\ saw[c].epoch = minds'[saw[c].arc].epoch =>
                      saw[c].world = minds'[saw[c].arc].world
    <3> DEFINE a == saw[c].arc
    <3>1. /\ a \in Arcs /\ saw[c].epoch <= minds[a].epoch
          /\ a \notin torn /\ saw[c].epoch = minds[a].epoch => saw[c].world = minds[a].world
      BY <2>1 DEF IInv, Told
    <3>2. /\ minds[a].epoch <= minds'[a].epoch
          /\ minds'[a].epoch = minds[a].epoch /\ a \notin torn' => minds'[a].world = minds[a].world
          /\ a \notin torn' => a \notin torn
      BY <3>1 DEF Gentle
    <3>3. a \in Arcs' /\ minds[a].epoch \in Nat /\ minds'[a].epoch \in Nat
      BY <1>2, <1>3, <3>1
    <3> HIDE DEF a
    <3>4. saw[c].epoch <= minds'[a].epoch
      BY <1>3, <3>1, <3>2, <3>3
    <3>5. saw[c].epoch = minds'[a].epoch => minds'[a].epoch = minds[a].epoch
      BY <1>3, <3>1, <3>2, <3>3
    <3> QED
      BY <3>1, <3>2, <3>3, <3>4, <3>5 DEF a
  <2> QED
    BY <1>1, <1>4, <2>1, RestIs DEF Told
<1>5. CASE saw'[c].arc \in Arcs' /\ saw'[c].epoch = minds'[saw'[c].arc].epoch
           /\ saw'[c].world = minds'[saw'[c].arc].world
  <2>1. saw'[c].epoch <= minds'[saw'[c].arc].epoch
    BY <1>3, <1>5
  <2> QED
    BY <1>1, <1>5, <2>1, RestIs DEF Told
<1> QED
  BY <1>1, <1>4, <1>5

\* Nothing is written: the call goes on, and a lock or the map may change hands.
LEMMA CallStep ==
    ASSUME IInv, NEW c \in Clients, UNCHANGED <<minds, shelf, torn>>,
           call' \in [Clients -> Call], saw' \in [Clients -> Saw],
           \A d \in Clients : d /= c => call'[d] = call[d] /\ saw'[d] = saw[d],
           Sound(call'[c].mind),
           table' \in [Ids -> Nat], due' \in [Ids -> SUBSET Seq(Events)],
           table' = table \/ mapHolder = Nobody,
           \A i \in Ids : table'[i] = NoArc \/ (table'[i] = table[i] /\ due'[i] = due[i]),
           holder' \in Seq(Clients \cup {Nobody}), Len(holder') = Len(holder),
           \A a \in Arcs : holder'[a] = holder[a] \/ holder[a] \in {Nobody, c},
           mapHolder' = mapHolder \/ mapHolder \in {Nobody, c}
    PROVE  /\ Shape' /\ AllSound' /\ Lineage' /\ Gentle(c)
           /\ Steady(c)' /\ Told(c)' => IInv'
<1>1. Arcs' = Arcs
  BY DEF Arcs
<1>2. Shape'
  BY <1>1 DEF IInv, Shape
<1>3. AllSound'
  BY <1>1 DEF IInv, AllSound
<1>4. Lineage'
  BY DEF IInv, Lineage
<1>5. Gentle(c)
  <2>1. \A d \in Clients : d /= c /\ call[d].pc \in {"held", "insert"} =>
            /\ mapHolder = d /\ d /= Nobody
            /\ table[Id(d)] /= NoArc /\ Id(d) \in Ids
    BY SessionsAssumption, RequestIs DEF IInv, Steady, Arcs, NoArc
  <2>2. \A d \in Clients : d /= c /\ call[d].pc \in {"held", "insert"} =>
            /\ mapHolder' = d /\ table'[Id(d)] = table[Id(d)]
            /\ due'[Id(d)] = due[Id(d)]
    BY <2>1
  <2>3. \A d \in Clients, a \in Arcs : d /= c /\ holder[a] = d => holder'[a] = d
    BY SessionsAssumption
  <2>4. \A a \in Arcs : minds[a].epoch <= minds'[a].epoch
    BY EpochsAreNumbers DEF IInv
  <2>5. Len(minds) <= Len(minds')
    BY DEF IInv, Shape
  <2> QED
    BY <2>2, <2>3, <2>4, <2>5 DEF Gentle
<1> QED
  BY <1>2, <1>3, <1>4, <1>5, StepOfOne

\* The mind m takes the place of the one the call looked up.
LEMMA WriteStep ==
    ASSUME IInv, NEW c \in Clients, NEW m, Sound(m),
           call[c].arc \in Arcs, holder[call[c].arc] \in {Nobody, c},
           Extends(MindOf(c).head, m.head), MindOf(c).epoch <= m.epoch,
           m.epoch = MindOf(c).epoch /\ call[c].arc \notin torn' => m.world = MindOf(c).world,
           minds' = [minds EXCEPT ![call[c].arc] = m], Answer(c),
           due' = due \/ due' = Credit(Id(c), call[c].arc, m),
           table' = table, mapHolder' = mapHolder,
           holder' = holder \/ Release(c),
           shelf' \in [Shelves -> Mind], \A k \in Shelves : Sound(shelf'[k]),
           saw' = saw \/ Tell(c, m), torn \subseteq torn'
    PROVE  IInv'
<1> DEFINE a == call[c].arc
<1>1. /\ minds \in Seq(Mind) /\ m \in Mind /\ a \in 1..Len(minds) /\ Len(minds) \in Nat
      /\ holder \in Seq(Clients \cup {Nobody}) /\ Len(holder) = Len(minds)
      /\ call \in [Clients -> Call] /\ saw \in [Clients -> Saw]
      /\ c /= Nobody
  BY SessionsAssumption DEF IInv, Shape, Sound, Arcs
<1>2. /\ minds' \in Seq(Mind) /\ Len(minds') = Len(minds) /\ minds'[a] = m
      /\ \A b \in Arcs : b /= a => minds'[b] = minds[b]
      /\ Arcs' = Arcs
  BY <1>1 DEF Arcs
<1>3. call' \in [Clients -> Call] /\ call'[c] = Rest
      /\ \A d \in Clients : d /= c => call'[d] = call[d]
  BY <1>1, RestIs DEF Answer
<1>4. /\ saw' \in [Clients -> Saw] /\ \A d \in Clients : d /= c => saw'[d] = saw[d]
      /\ \/ saw'[c] = saw[c]
         \/ saw'[c].arc = a /\ saw'[c].epoch = m.epoch /\ saw'[c].world = m.world
  <2>1. CASE saw' = saw
    BY <1>1, <2>1
  <2>2. CASE Tell(c, m)
    <3>1. /\ Id(c) \in Nat /\ a \in Nat /\ m.epoch \in Nat /\ m.world \in Worlds
      <4>1. Id(c) \in Nat
        BY RequestIs, SessionsAssumption DEF IInv
      <4>2. m.epoch \in Nat /\ m.world \in Worlds
        BY <1>1 DEF Mind
      <4> QED
        BY <1>1, <4>1, <4>2
    <3>2. [id |-> Id(c), arc |-> a, epoch |-> m.epoch, world |-> m.world] \in Saw
      BY <3>1 DEF Saw
    <3> QED
      BY <1>1, <2>2, <3>2 DEF Tell
  <2> QED
    BY <2>1, <2>2
<1>5. /\ holder' \in Seq(Clients \cup {Nobody}) /\ Len(holder') = Len(holder)
      /\ \A b \in Arcs : b /= a => holder'[b] = holder[b]
  <2>1. CASE holder' = holder
    BY <1>1, <2>1
  <2>2. CASE holder' = [holder EXCEPT ![a] = Nobody]
    <3>1. a \in 1..Len(holder) /\ Nobody \in Clients \cup {Nobody}
      BY <1>1
    <3> QED
      BY <1>1, <2>2, <3>1 DEF Arcs
  <2> QED
    BY <2>1, <2>2 DEF Release
<1>6. m.head \in Seq(Events) /\ \A b \in Arcs : minds[b].head \in Seq(Events)
  <2>1. \A b \in Arcs : minds[b] \in Mind
    BY <1>1 DEF Arcs
  <2> QED
    BY <1>1, <2>1 DEF Mind
<1>7. /\ due' \in [Ids -> SUBSET Seq(Events)]
      /\ \A i \in Ids : \A r \in due'[i] : r \in due[i] \/ (table[i] = a /\ r = m.head)
      /\ \A d \in Clients : call[d].pc = "insert" => due'[Id(d)] = due[Id(d)]
  <2>1. due \in [Ids -> SUBSET Seq(Events)]
    BY DEF IInv, Shape
  <2>2. CASE due' = due
    BY <2>1, <2>2
  <2>3. CASE /\ due' = [due EXCEPT ![Id(c)] = @ \cup {m.head}] /\ table[Id(c)] = a
             /\ ~Overtaken(Id(c))
    <3>1. Id(c) \in Ids
      BY RequestIs DEF IInv
    <3>2. due[Id(c)] \cup {m.head} \subseteq Seq(Events)
      BY <1>6, <2>1, <3>1
    <3>3. \A d \in Clients : call[d].pc = "insert" => Id(d) \in Ids /\ Id(d) /= Id(c)
      BY <2>3, RequestIs DEF Overtaken, Id, IInv
    <3> QED
      BY <2>1, <2>3, <3>1, <3>2, <3>3
  <2> QED
    BY <2>2, <2>3 DEF Credit
<1>8. Shape'
  BY <1>2, <1>3, <1>4, <1>5, <1>7 DEF IInv, Shape
<1>9. AllSound'
  <2>1. \A b \in Arcs : Sound(minds'[b])
    BY <1>2 DEF IInv, AllSound
  <2>2. \A d \in Clients : Sound(call'[d].mind)
    BY <1>3, RestIs, BlankSound DEF IInv, AllSound
  <2> QED
    BY <1>2, <2>1, <2>2 DEF AllSound
<1>10. Lineage'
  <2>1. ASSUME NEW i \in Ids, table[i] /= NoArc, NEW r \in due'[i]
        PROVE  Extends(r, minds'[table[i]].head)
    <3>1. table[i] \in Arcs
      BY <2>1 DEF IInv, Shape
    <3>2. CASE r = m.head /\ table[i] = a
      BY <1>2, <1>6, <3>2 DEF Extends
    <3>3. CASE r \in due[i]
      <4>1. Extends(r, minds[table[i]].head) /\ r \in Seq(Events)
        BY <2>1, <3>3 DEF IInv, Lineage, Shape
      <4>2. CASE table[i] = a
        BY <1>2, <1>6, <3>1, <4>1, <4>2, ExtendsTransitive DEF MindOf
      <4>3. CASE table[i] /= a
        BY <1>2, <3>1, <4>1, <4>3
      <4> QED
        BY <4>2, <4>3
    <3> QED
      BY <1>7, <2>1, <3>2, <3>3
  <2> QED
    BY <2>1 DEF Lineage
<1>11. Gentle(c)
  <2>1. \A d \in Clients \ {c} :
            /\ call[d].pc \in {"held", "insert"} => mapHolder' = d /\ table'[Id(d)] = table[Id(d)]
            /\ call[d].pc = "insert" => due'[Id(d)] = due[Id(d)]
    BY <1>7 DEF IInv, Steady
  <2>2. \A d \in Clients \ {c}, b \in Arcs : holder[b] = d =>
            holder'[b] = d /\ minds'[b].epoch = minds[b].epoch
    BY <1>2, <1>5, SessionsAssumption
  <2>3. \A b \in Arcs : /\ minds[b].epoch <= minds'[b].epoch
                        /\ minds'[b].epoch = minds[b].epoch /\ b \notin torn' =>
                              minds'[b].world = minds[b].world
    BY <1>2, EpochsAreNumbers DEF IInv, MindOf
  <2> QED
    BY <1>1, <1>2, <1>3, <1>4, <2>1, <2>2, <2>3 DEF Gentle
<1>12. Steady(c)' /\ Told(c)'
  BY <1>1, <1>2, <1>3, <1>4, <1>8, <1>11, RestIsSteady DEF Arcs
<1> QED
  BY <1>8, <1>9, <1>10, <1>11, <1>12, StepOfOne

\* A new Arc under id i, when no other call has the map.
LEMMA InsertStep ==
    ASSUME IInv, NEW c \in Clients, NEW i \in Ids, NEW m, Sound(m), mapHolder \in {Nobody, c},
           NEW rest \in Seq(Mind), Len(rest) = Len(minds),
           \A b \in Arcs : /\ Sound(rest[b]) /\ Extends(minds[b].head, rest[b].head)
                           /\ rest[b].epoch = minds[b].epoch /\ rest[b].world = minds[b].world,
           Insert(i, m, rest), Answer(c),
           due' \in [Ids -> SUBSET Seq(Events)],
           \A r \in due'[i] : Extends(r, m.head),
           \A j \in Ids \ {i} : table[j] /= NoArc =>
               \A r \in due'[j] : r \in due[j] \/ Extends(r, rest[table[j]].head),
           shelf' = shelf, saw' = saw, torn' = torn
    PROVE  IInv'
<1> DEFINE n == Len(minds) + 1
<1>1. /\ minds \in Seq(Mind) /\ m \in Mind /\ Len(minds) \in Nat
      /\ holder \in Seq(Clients \cup {Nobody}) /\ Len(holder) = Len(minds)
      /\ call \in [Clients -> Call] /\ saw \in [Clients -> Saw]
      /\ c /= Nobody
  BY SessionsAssumption DEF IInv, Shape, Sound
<1>2. /\ minds' \in Seq(Mind) /\ Len(minds') = n /\ minds'[n] = m
      /\ \A b \in Arcs : minds'[b] = rest[b]
      /\ Arcs' = Arcs \cup {n} /\ n \notin Arcs
  BY <1>1 DEF Insert, Arcs
<1>3. call' \in [Clients -> Call] /\ call'[c] = Rest
      /\ \A d \in Clients : d /= c => call'[d] = call[d]
  BY <1>1, RestIs DEF Answer
<1>4. /\ holder' \in Seq(Clients \cup {Nobody}) /\ Len(holder') = n
      /\ \A b \in Arcs : holder'[b] = holder[b]
  BY <1>1 DEF Insert, Arcs
<1>5. /\ table' \in [Ids -> Nat] /\ table'[i] = n
      /\ \A j \in Ids : j /= i => table'[j] = table[j]
      /\ \A j \in Ids : table'[j] \in {NoArc} \cup Arcs'
  BY <1>1, <1>2 DEF IInv, Shape, Insert
<1>6. Shape'
  BY <1>1, <1>2, <1>3, <1>4, <1>5 DEF IInv, Shape
<1>7. AllSound'
  <2>1. \A b \in Arcs' : Sound(minds'[b])
    BY <1>2
  <2>2. \A d \in Clients : Sound(call'[d].mind)
    BY <1>3, RestIs, BlankSound DEF IInv, AllSound
  <2> QED
    BY <2>1, <2>2 DEF IInv, AllSound
<1>8. Lineage'
  <2>1. ASSUME NEW j \in Ids, table'[j] /= NoArc, NEW r \in due'[j]
        PROVE  Extends(r, minds'[table'[j]].head)
    <3>1. CASE j = i
      BY <1>2, <1>5, <2>1, <3>1
    <3>2. CASE j /= i
      <4>1. table'[j] = table[j] /\ table[j] \in Arcs /\ minds'[table[j]] = rest[table[j]]
        BY <1>2, <1>5, <2>1, <3>2 DEF IInv, Shape
      <4>2. CASE Extends(r, rest[table[j]].head)
        BY <4>1, <4>2
      <4>3. CASE r \in due[j]
        <5>1. Extends(r, minds[table[j]].head) /\ r \in Seq(Events)
          BY <2>1, <4>1, <4>3 DEF IInv, Lineage, Shape
        <5>2. minds[table[j]] \in Mind /\ rest[table[j]] \in Mind
          BY <1>1, <4>1 DEF Arcs
        <5>3. minds[table[j]].head \in Seq(Events) /\ rest[table[j]].head \in Seq(Events)
          BY <5>2 DEF Mind
        <5> QED
          BY <4>1, <5>1, <5>3, ExtendsTransitive
      <4> QED
        BY <2>1, <3>2, <4>1, <4>2, <4>3
    <3> QED
      BY <3>1, <3>2
  <2> QED
    BY <2>1 DEF Lineage
<1>9. Gentle(c)
  <2>1. \A d \in Clients \ {c} : call[d].pc \notin {"held", "insert"}
    BY SessionsAssumption DEF IInv, Steady
  <2>2. \A b \in Arcs : minds[b].epoch <= minds'[b].epoch
                        /\ minds'[b].epoch = minds[b].epoch /\ minds'[b].world = minds[b].world
    BY <1>2, EpochsAreNumbers DEF IInv
  <2>3. Len(minds) <= Len(minds')
    BY <1>1, <1>2
  <2> QED
    BY <1>3, <1>4, <2>1, <2>2, <2>3 DEF Gentle
<1>10. Steady(c)' /\ Told(c)'
  BY <1>3, <1>6, <1>9, RestIsSteady
<1> QED
  BY <1>6, <1>7, <1>8, <1>9, <1>10, StepOfOne

\* A receipt over a mind that keeps the chain it had.
LEMMA ReceiptStep ==
    ASSUME IInv, NEW c \in Clients, NEW n, Sound(n), NEW e \in Events,
           call[c].arc \in Arcs, holder[call[c].arc] \in {Nobody, c},
           n.head = MindOf(c).head, MindOf(c).epoch <= n.epoch,
           n.epoch = MindOf(c).epoch => n.world = MindOf(c).world,
           Write(c, Chained(n, e)), UNCHANGED <<table, mapHolder, torn>>,
           holder' = holder \/ Release(c),
           saw' = saw \/ Tell(c, Chained(n, e)),
           shelf' \in [Shelves -> Mind], \A k \in Shelves : Sound(shelf'[k])
    PROVE  IInv'
<1>1. /\ Sound(Chained(n, e)) /\ Extends(n.head, Chained(n, e).head)
      /\ Chained(n, e).epoch = n.epoch /\ Chained(n, e).world = n.world
  BY ChainedSound, ChainedIs DEF Sound
<1>2. /\ minds' = [minds EXCEPT ![call[c].arc] = Chained(n, e)] /\ Answer(c)
      /\ due' = Credit(Id(c), call[c].arc, Chained(n, e))
  BY DEF Write
<1> QED
  BY <1>1, <1>2, WriteStep

LEMMA ReadyIs ==
    ASSUME IInv, NEW c \in Clients, NEW op, Ready(c, op)
    PROVE  /\ call[c].arc \in Arcs /\ holder[call[c].arc] = Nobody /\ Op(c) = op
           /\ Sound(MindOf(c)) /\ MindOf(c) \in Mind
<1>1. call[c].pc = "lock" /\ holder[call[c].arc] = Nobody /\ Op(c) = op
  BY DEF Ready, Free
<1>2. call[c].arc \in Arcs
  BY <1>1 DEF IInv, Steady
<1> QED
  BY <1>1, <1>2 DEF IInv, AllSound, MindOf, Sound

LEMMA SearchedIs ==
    ASSUME IInv, NEW c \in Clients, NEW op, Searched(c, op)
    PROVE  /\ call[c].arc \in Arcs /\ holder[call[c].arc] = c /\ Op(c) = op
           /\ Sound(MindOf(c)) /\ MindOf(c) \in Mind
           /\ call[c].epoch /= NoEpoch => call[c].epoch = MindOf(c).epoch
<1>1. call[c].pc = "search" /\ Op(c) = op
  BY DEF Searched
<1>2. call[c].arc \in Arcs /\ holder[call[c].arc] = c
      /\ (call[c].epoch /= NoEpoch => call[c].epoch = MindOf(c).epoch)
  BY <1>1 DEF IInv, Steady, Told, MindOf
<1> QED
  BY <1>1, <1>2 DEF IInv, AllSound, MindOf, Sound

\* A reply under the session's lock.
LEMMA ReplyStep ==
    ASSUME IInv, NEW c \in Clients, NEW op, Ready(c, op), NEW n, Sound(n), NEW e \in Events,
           n.head = MindOf(c).head, MindOf(c).epoch <= n.epoch,
           n.epoch = MindOf(c).epoch => n.world = MindOf(c).world,
           Reply(c, Chained(n, e)) \/ ReplyBriefly(c, Chained(n, e))
    PROVE  IInv'
<1>1. /\ Write(c, Chained(n, e)) /\ UNCHANGED <<table, mapHolder, torn, holder, shelf>>
      /\ saw' = saw \/ Tell(c, Chained(n, e))
  BY DEF Reply, ReplyBriefly, locks
<1>2. shelf' \in [Shelves -> Mind] /\ \A k \in Shelves : Sound(shelf'[k])
  BY <1>1 DEF IInv, Shape, AllSound
<1> QED
  BY <1>1, <1>2, ReadyIs, ReceiptStep

-----------------------------------------------------------------------------
(* One lemma per action: the invariant, and what an accepted call carried. *)

\* A call that may not carry an epoch carries none.
LEMMA Unchecked ==
    ASSUME IInv, NEW c \in Clients, Op(c) \notin Checked
    PROVE  Accepts(c)
BY DEF IInv, Told, Accepts

LEMMA RefuseOK == ASSUME IInv, NEW c \in Clients, Refuse(c) PROVE IInv' /\ Accepts(c)
<1>1. /\ UNCHANGED <<table, minds, mapHolder, holder, shelf, saw, torn, due>>
      /\ call' = [call EXCEPT ![c] = Rest]
  BY DEF Refuse, Answer, locks, history
<1>2. /\ call' \in [Clients -> Call] /\ call'[c] = Rest
      /\ \A d \in Clients : d /= c => call'[d] = call[d]
  BY <1>1, RestIs DEF IInv, Shape
<1>3. /\ Shape' /\ Gentle(c) /\ (Steady(c)' /\ Told(c)' => IInv')
  <2>1. /\ Sound(call'[c].mind) /\ saw' \in [Clients -> Saw] /\ table' \in [Ids -> Nat]
        /\ due' \in [Ids -> SUBSET Seq(Events)] /\ holder' \in Seq(Clients \cup {Nobody})
        /\ Len(holder') = Len(holder)
    BY <1>1, <1>2, RestIs, BlankSound DEF IInv, Shape
  <2> QED
    BY <1>1, <1>2, <2>1, CallStep
<1> QED
  BY <1>1, <1>2, <1>3, RestIs, RestIsSteady DEF Accepts

\* The call of c alone changes, to x.
LEMMA CallBecomes ==
    ASSUME IInv, NEW c \in Clients, NEW x \in Call, Sound(x.mind),
           call' = [call EXCEPT ![c] = x],
           UNCHANGED <<table, minds, shelf, saw, torn, due>>,
           holder' \in Seq(Clients \cup {Nobody}), Len(holder') = Len(holder),
           \A a \in Arcs : holder'[a] = holder[a] \/ holder[a] \in {Nobody, c},
           mapHolder' = mapHolder \/ mapHolder \in {Nobody, c}
    PROVE  /\ call'[c] = x /\ (x.pc /= "insert" => Accepts(c))
           /\ Steady(c)' /\ Told(c)' => IInv'
<1>1. /\ call' \in [Clients -> Call] /\ call'[c] = x
      /\ \A d \in Clients : d /= c => call'[d] = call[d]
  BY DEF IInv, Shape
<1>2. /\ saw' \in [Clients -> Saw] /\ table' \in [Ids -> Nat]
      /\ due' \in [Ids -> SUBSET Seq(Events)]
  BY DEF IInv, Shape
<1>3. Steady(c)' /\ Told(c)' => IInv'
  BY <1>1, <1>2, CallStep
<1> QED
  BY <1>1, <1>3 DEF Accepts

\* The same call, somewhere else and with other Arcs; what it was told is as before.
Moves(c, p, a, b) ==
    call' = [call EXCEPT ![c] = [call[c] EXCEPT !.pc = p, !.arc = a, !.right = b]]

LEMMA CallMoves ==
    ASSUME IInv, NEW c \in Clients, NEW p \in Pcs \ {"insert"}, NEW a \in Nat, NEW b \in Nat,
           Moves(c, p, a, b),
           UNCHANGED <<table, minds, shelf, saw, torn, due>>,
           holder' \in Seq(Clients \cup {Nobody}), Len(holder') = Len(holder),
           \A d \in Arcs : holder'[d] = holder[d] \/ holder[d] \in {Nobody, c},
           mapHolder' = mapHolder \/ mapHolder \in {Nobody, c}
    PROVE  /\ Accepts(c)
           /\ call'[c].pc = p /\ call'[c].arc = a /\ call'[c].right = b
           /\ call'[c].req = call[c].req /\ call'[c].epoch = call[c].epoch
           /\ Steady(c)' /\ (p = "search" /\ call[c].epoch /= NoEpoch =>
                                call[c].epoch = minds[a].epoch) => IInv'
<1> DEFINE x == [call[c] EXCEPT !.pc = p, !.arc = a, !.right = b]
<1>1. /\ x \in Call /\ x.mind = call[c].mind /\ x.pc = p /\ x.arc = a /\ x.right = b
      /\ x.req = call[c].req /\ x.epoch = call[c].epoch
  BY DEF IInv, Shape, Call
<1>2. Sound(x.mind)
  BY <1>1 DEF IInv, AllSound
<1> HIDE DEF x
<1>3. call'[c] = x /\ Accepts(c) /\ (Steady(c)' /\ Told(c)' => IInv')
  BY <1>1, <1>2, CallBecomes DEF x, Moves
<1>4. Told(c)
  BY DEF IInv
<1>5. Op(c)' = Op(c)
  BY <1>1, <1>3 DEF Op
<1>6. ASSUME p = "search" /\ call[c].epoch /= NoEpoch => call[c].epoch = minds[a].epoch
      PROVE  Told(c)'
  <2>1. Arcs' = Arcs
    BY DEF Arcs
  <2> QED
    BY <1>1, <1>3, <1>4, <1>5, <1>6, <2>1 DEF Told
<1> QED
  BY <1>1, <1>3, <1>6

LEMMA SendOK ==
    ASSUME IInv, NEW c \in Clients, NEW r \in Requests, Send(c, r)
    PROVE  IInv' /\ Accepts(c)
<1> DEFINE x == [Rest EXCEPT !.req = r, !.pc = IF r.op = "restore" THEN "copy" ELSE "lookup",
                             !.epoch = IF r.checked THEN saw[c].epoch ELSE NoEpoch]
<1>1. /\ call' = [call EXCEPT ![c] = x]
      /\ UNCHANGED <<table, minds, holder, mapHolder, shelf, saw, torn, due>>
  BY DEF Send, locks, history
<1>2. saw[c].epoch \in Nat \cup {NoEpoch} /\ NoEpoch \in Nat \cup {NoEpoch}
  BY EpochsAreNumbers DEF IInv
<1>3. /\ x \in Call /\ x.mind = Blank /\ x.req = r /\ x.pc \in {"copy", "lookup"}
      /\ x.epoch = IF r.checked THEN saw[c].epoch ELSE NoEpoch
  BY <1>2, RestIs DEF Call, Pcs
<1>4. Sound(x.mind)
  BY <1>3, BlankSound
<1> HIDE DEF x
<1>5. call'[c] = x /\ Accepts(c) /\ (Steady(c)' /\ Told(c)' => IInv')
  BY <1>1, <1>3, <1>4, CallBecomes DEF IInv, Shape
<1>6. Steady(c)'
  BY <1>3, <1>5 DEF Steady
<1>7. Told(c)'
  <2>1. Told(c) /\ Arcs' = Arcs
    BY <1>1 DEF IInv, Arcs
  <2>2. x.epoch /= NoEpoch => Op(c)' \in Checked /\ x.epoch = saw[c].epoch
    BY <1>3, <1>5, RequestsAssumption DEF Op
  <2> QED
    BY <1>1, <1>3, <1>5, <2>1, <2>2 DEF Told
<1> QED
  BY <1>5, <1>6, <1>7

LEMMA SameCalls ==
    ASSUME IInv, NEW c \in Clients
    PROVE  /\ call[c].arc \in Nat /\ call[c].right \in Nat
           /\ holder \in Seq(Clients \cup {Nobody}) /\ table[Id(c)] \in Nat
           /\ table[call[c].req.other] \in Nat
           /\ \A i \in Ids : table[i] /= NoArc => table[i] \in Arcs
  BY RequestIs DEF IInv, Shape, Call

LEMMA LookupOK == ASSUME IInv, NEW c \in Clients, Lookup(c) PROVE IInv' /\ Accepts(c)
<1>1. CASE Refuse(c)
  BY <1>1, RefuseOK
<1>2. CASE /\ table[Id(c)] /= NoArc
           /\ call' = [call EXCEPT ![c].arc = table[Id(c)],
                                   ![c].pc = IF Op(c) = "compare" THEN "right" ELSE "lock"]
           /\ UNCHANGED <<table, minds, locks, shelf, history, sent>>
  <2> DEFINE p == IF Op(c) = "compare" THEN "right" ELSE "lock"
  <2>1. p \in Pcs \ {"insert"} /\ p /= "search" /\ p /= "held" /\ p /= "second"
        /\ (p = "lock" => Op(c) /= "compare")
    BY DEF Pcs
  <2>2. Moves(c, p, table[Id(c)], call[c].right)
    BY <1>2 DEF IInv, Shape, Call, Moves
  <2>3. UNCHANGED <<table, minds, holder, mapHolder, shelf, saw, torn, due>>
    BY <1>2 DEF locks, history
  <2> HIDE DEF p
  <2>4. /\ Accepts(c) /\ call'[c].pc = p /\ call'[c].arc = table[Id(c)]
        /\ call'[c].req = call[c].req
        /\ Steady(c)' => IInv'
    BY <2>1, <2>2, <2>3, SameCalls, CallMoves
  <2>5. table[Id(c)] \in Arcs /\ Arcs' = Arcs /\ Op(c)' = Op(c)
    BY <1>2, <2>3, <2>4, SameCalls, RequestIs DEF IInv, Arcs, Op
  <2>6. Steady(c)'
    BY <2>1, <2>4, <2>5 DEF Steady
  <2> QED
    BY <2>4, <2>6
<1> QED
  BY <1>1, <1>2 DEF Lookup

LEMMA LookupRightOK == ASSUME IInv, NEW c \in Clients, LookupRight(c) PROVE IInv' /\ Accepts(c)
<1>1. CASE Refuse(c)
  BY <1>1, RefuseOK
<1> DEFINE right == table[call[c].req.other]
<1>2. CASE /\ right /= NoArc
           /\ call' = [call EXCEPT ![c].right = right, ![c].pc = "lock"]
           /\ UNCHANGED <<table, minds, locks, shelf, history, sent>>
  <2>1. Moves(c, "lock", call[c].arc, right)
    BY <1>2 DEF IInv, Shape, Call, Moves
  <2>2. UNCHANGED <<table, minds, holder, mapHolder, shelf, saw, torn, due>>
    BY <1>2 DEF locks, history
  <2>3. right \in Arcs /\ right \in Nat /\ "lock" \in Pcs \ {"insert"}
    BY <1>2, SameCalls, RequestIs DEF IInv, Pcs
  <2> HIDE DEF right
  <2>4. /\ Accepts(c) /\ call'[c].pc = "lock" /\ call'[c].arc = call[c].arc
        /\ call'[c].right = right
        /\ Steady(c)' => IInv'
    BY <2>1, <2>2, <2>3, SameCalls, CallMoves
  <2>5. call[c].arc \in Arcs /\ Arcs' = Arcs
    BY <2>2 DEF LookupRight, MapIsFree, IInv, Steady, Arcs
  <2>6. Steady(c)'
    BY <2>3, <2>4, <2>5 DEF Steady
  <2> QED
    BY <2>4, <2>6
<1> QED
  BY <1>1, <1>2 DEF LookupRight

LEMMA HolderTaken ==
    ASSUME IInv, NEW a \in Arcs, NEW q \in Clients \cup {Nobody},
           holder' = [holder EXCEPT ![a] = q]
    PROVE  /\ holder' \in Seq(Clients \cup {Nobody}) /\ Len(holder') = Len(holder)
           /\ holder'[a] = q /\ \A b \in Arcs : b /= a => holder'[b] = holder[b]
<1>1. a \in 1..Len(holder) /\ holder \in Seq(Clients \cup {Nobody}) /\ Len(holder) = Len(minds)
  BY DEF IInv, Shape, Arcs
<1> QED
  BY <1>1 DEF Arcs

\* The Arcs of a comparison.
LEMMA OrderIs ==
    ASSUME IInv, NEW c \in Clients, call[c].arc \in Arcs, call[c].right \in Arcs
    PROVE  InOrder(c)[1] \in Arcs
BY DEF InOrder

LEMMA LockFirstOK == ASSUME IInv, NEW c \in Clients, LockFirst(c) PROVE IInv' /\ Accepts(c)
<1> DEFINE a == InOrder(c)[1]
<1>1. /\ call[c].pc = "lock" /\ Op(c) = "compare" /\ holder[a] = Nobody
      /\ holder' = [holder EXCEPT ![a] = c]
      /\ UNCHANGED <<table, minds, mapHolder, shelf, saw, torn, due>>
  BY DEF LockFirst, history
<1>2. call[c].arc \in Arcs /\ a \in Arcs
  BY <1>1, OrderIs DEF IInv, Steady
<1>3. Moves(c, "second", call[c].arc, call[c].right)
  BY DEF LockFirst, Goto, IInv, Shape, Call, Moves
<1> HIDE DEF a
<1>4. /\ holder' \in Seq(Clients \cup {Nobody}) /\ Len(holder') = Len(holder)
      /\ holder'[a] = c /\ \A b \in Arcs : b /= a => holder'[b] = holder[b]
  BY <1>1, <1>2, HolderTaken
<1>5. /\ Accepts(c) /\ call'[c].pc = "second" /\ call'[c].arc = call[c].arc
      /\ call'[c].right = call[c].right /\ call'[c].req = call[c].req
      /\ Steady(c)' => IInv'
  <2>1. "second" \in Pcs \ {"insert"} /\ \A b \in Arcs : holder'[b] = holder[b] \/ holder[b] \in {Nobody, c}
    BY <1>1, <1>4 DEF Pcs
  <2> QED
    BY <1>1, <1>3, <1>4, <2>1, SameCalls, CallMoves
<1>6. InOrder(c)' = InOrder(c) /\ Arcs' = Arcs
  BY <1>1, <1>5 DEF InOrder, Id, Arcs
<1>7. Steady(c)'
  BY <1>2, <1>4, <1>5, <1>6 DEF Steady, a
<1> QED
  BY <1>5, <1>7

LEMMA CompareOK == ASSUME IInv, NEW c \in Clients, Compare(c) PROVE IInv' /\ Accepts(c)
<1> DEFINE a == InOrder(c)[1]
<1>1. /\ a \in Arcs /\ holder[a] = c /\ holder' = [holder EXCEPT ![a] = Nobody]
      /\ call' = [call EXCEPT ![c] = Rest]
      /\ UNCHANGED <<table, minds, mapHolder, shelf, saw, torn, due>>
  BY DEF Compare, Answer, history, IInv, Steady
<1> HIDE DEF a
<1>2. /\ holder' \in Seq(Clients \cup {Nobody}) /\ Len(holder') = Len(holder)
      /\ \A b \in Arcs : holder'[b] = holder[b] \/ holder[b] \in {Nobody, c}
  BY <1>1, HolderTaken
<1>3. call'[c] = Rest /\ Accepts(c) /\ (Steady(c)' /\ Told(c)' => IInv')
  BY <1>1, <1>2, RestIs, BlankSound, CallBecomes
<1>4. Steady(c)'
  BY <1>3, RestIs DEF Steady
<1>5. Told(c)'
  BY <1>1, <1>3, RestIs DEF IInv, Told, Arcs
<1> QED
  BY <1>3, <1>4, <1>5

LEMMA ReadOK == ASSUME IInv, NEW c \in Clients, Read(c) PROVE IInv' /\ Accepts(c)
<1> DEFINE t == [id |-> Id(c), arc |-> call[c].arc, epoch |-> MindOf(c).epoch,
                 world |-> MindOf(c).world]
<1>1. /\ Ready(c, "read") /\ saw' = [saw EXCEPT ![c] = t] /\ call' = [call EXCEPT ![c] = Rest]
      /\ UNCHANGED <<table, minds, mapHolder, holder, shelf, torn, due>>
  BY DEF Read, Tell, Answer, locks
<1>2. call[c].arc \in Arcs /\ MindOf(c) \in Mind
  BY <1>1, ReadyIs
<1>3. t \in Saw /\ t.arc = call[c].arc /\ t.epoch = MindOf(c).epoch /\ t.world = MindOf(c).world
  <2>1. Id(c) \in Nat /\ call[c].arc \in Nat
    BY RequestIs, SameCalls, SessionsAssumption DEF IInv
  <2>2. MindOf(c).epoch \in Nat /\ MindOf(c).world \in Worlds
    BY <1>2 DEF Mind
  <2> QED
    BY <2>1, <2>2 DEF Saw
<1> HIDE DEF t
<1>4. /\ call' \in [Clients -> Call] /\ call'[c] = Rest /\ saw' \in [Clients -> Saw] /\ saw'[c] = t
      /\ \A d \in Clients : d /= c => call'[d] = call[d] /\ saw'[d] = saw[d]
  BY <1>1, <1>3, RestIs DEF IInv, Shape
<1>5. /\ Sound(call'[c].mind) /\ table' \in [Ids -> Nat]
      /\ due' \in [Ids -> SUBSET Seq(Events)] /\ holder' \in Seq(Clients \cup {Nobody})
      /\ Len(holder') = Len(holder)
  BY <1>1, <1>4, RestIs, BlankSound DEF IInv, Shape
<1>6. Shape' /\ Gentle(c) /\ (Steady(c)' /\ Told(c)' => IInv')
  BY <1>1, <1>4, <1>5, CallStep
<1>7. LET m == minds'[saw'[c].arc] IN
      saw'[c].arc \in Arcs' /\ saw'[c].epoch = m.epoch /\ saw'[c].world = m.world
  BY <1>1, <1>2, <1>3, <1>4 DEF MindOf, Arcs
<1>8. Steady(c)' /\ Told(c)'
  BY <1>4, <1>6, <1>7, RestIsSteady
<1> QED
  BY <1>1, <1>4, <1>6, <1>8, RestIs DEF Accepts

LEMMA BeginSearchOK ==
    ASSUME IInv, NEW c \in Clients, NEW op, Ready(c, op), BeginSearch(c),
           call[c].epoch /= NoEpoch => call[c].epoch = MindOf(c).epoch
    PROVE  IInv' /\ Accepts(c)
<1> DEFINE a == call[c].arc
<1>1. /\ a \in Arcs /\ holder[a] = Nobody /\ holder' = [holder EXCEPT ![a] = c]
      /\ UNCHANGED <<table, minds, mapHolder, shelf, saw, torn, due>>
  BY ReadyIs DEF BeginSearch, history
<1>2. Moves(c, "search", a, call[c].right)
  BY DEF BeginSearch, Goto, IInv, Shape, Call, Moves
<1>3. a \in Nat /\ minds[a] = MindOf(c)
  BY SameCalls DEF MindOf
<1>4. call[c].epoch /= NoEpoch => call[c].epoch = minds[a].epoch
  BY <1>3
<1> HIDE DEF a
<1>5. /\ holder' \in Seq(Clients \cup {Nobody}) /\ Len(holder') = Len(holder)
      /\ holder'[a] = c /\ \A b \in Arcs : b /= a => holder'[b] = holder[b]
  BY <1>1, HolderTaken
<1>6. /\ Accepts(c) /\ call'[c].pc = "search" /\ call'[c].arc = a /\ (Steady(c)' => IInv')
  <2>1. "search" \in Pcs \ {"insert"} /\ \A b \in Arcs : holder'[b] = holder[b] \/ holder[b] \in {Nobody, c}
    BY <1>1, <1>5 DEF Pcs
  <2> QED
    BY <1>1, <1>2, <1>3, <1>4, <1>5, <2>1, SameCalls, CallMoves
<1>7. Steady(c)'
  BY <1>1, <1>5, <1>6 DEF Steady, Arcs
<1> QED
  BY <1>6, <1>7

\* The epoch was tested, under the session's lock.
LEMMA NotStale ==
    ASSUME IInv, NEW c \in Clients, call[c].arc \in Arcs, ~Stale(c, MindOf(c))
    PROVE  Accepts(c) /\ (call[c].epoch /= NoEpoch => call[c].epoch = MindOf(c).epoch)
  BY DEF Stale, Accepts, MindOf

LEMMA EventsAre ==
    /\ \A e \in {"observe", "goal", "retained", "think", "replan", "advance", "edit", "checkpoint",
                 "forked-child", "fork", "restore", "bootstrap"} : e \in Events
    /\ \A o \in {"read", "observe", "goal", "think", "advance", "open", "close", "bootstrap",
                 "compare"} : o \notin Checked
  BY DEF Events, Ops, Keyed, Held, Checked

LEMMA ObserveOK == ASSUME IInv, NEW c \in Clients, Observe(c) PROVE IInv' /\ Accepts(c)
<1> DEFINE m == MindOf(c)
<1>1. /\ Ready(c, "observe") /\ call[c].arc \in Arcs /\ holder[call[c].arc] = Nobody
      /\ Sound(m) /\ m \in Mind /\ Accepts(c)
  BY ReadyIs, Unchecked, EventsAre DEF Observe
<1>2. m.epoch \in Nat /\ 0 \in Nat /\ "observe" \in Events
  BY <1>1, EventsAre DEF Mind
<1>3. CASE Refuse(c)
  BY <1>3, RefuseOK
<1>4. CASE Reply(c, Chained(m, "observe"))
  <2> HIDE DEF m
  <2> QED
    BY <1>1, <1>2, <1>4, ReplyStep DEF m
<1>5. ASSUME NEW w \in Worlds, Reply(c, Chained([m EXCEPT !.world = w, !.epoch = @ + 1], "observe"))
      PROVE  IInv'
  <2> DEFINE n == [m EXCEPT !.world = w, !.epoch = @ + 1]
  <2>1. Sound(n)
    BY <1>1, <1>2, EditsSound, SessionsAssumption
  <2>2. n.head = m.head /\ n.epoch = m.epoch + 1
    BY <1>1 DEF Mind
  <2>3. Reply(c, Chained(n, "observe"))
    BY <1>5
  <2> HIDE DEF n
  <2>4. m.epoch <= n.epoch /\ (n.epoch = m.epoch => n.world = m.world)
    BY <1>2, <2>2
  <2> QED
    BY <1>1, <1>2, <2>1, <2>2, <2>3, <2>4, ReplyStep DEF m
<1>6. ASSUME NEW w \in Worlds, minds' = [minds EXCEPT ![call[c].arc].world = w],
             torn' = torn \cup {call[c].arc}, Answer(c),
             UNCHANGED <<table, locks, shelf, saw, due, sent>>
      PROVE  IInv'
  <2> DEFINE n == [m EXCEPT !.world = w]
  <2>1. Sound(n)
    BY <1>1, <1>2, EditsSound, SessionsAssumption
  <2>2. n.head = m.head /\ n.epoch = m.epoch
    BY <1>1 DEF Mind
  <2>3. minds' = [minds EXCEPT ![call[c].arc] = n]
    BY <1>6 DEF MindOf
  <2> HIDE DEF n
  <2>4. Extends(m.head, n.head) /\ m.epoch <= n.epoch
    BY <1>1, <1>2, <2>2 DEF Extends, Mind
  <2>5. /\ shelf' \in [Shelves -> Mind] /\ (\A k \in Shelves : Sound(shelf'[k]))
        /\ UNCHANGED <<table, mapHolder, holder, saw, due>>
    BY <1>6 DEF IInv, Shape, AllSound, locks
  <2>6. call[c].arc \in torn' /\ torn \subseteq torn'
    BY <1>6
  <2> QED
    BY <1>1, <1>6, <2>1, <2>2, <2>3, <2>4, <2>5, <2>6, WriteStep
<1> QED
  BY <1>1, <1>3, <1>4, <1>5, <1>6 DEF Observe

LEMMA SetGoalOK == ASSUME IInv, NEW c \in Clients, SetGoal(c) PROVE IInv' /\ Accepts(c)
<1> DEFINE m == MindOf(c)
<1>1. /\ Ready(c, "goal") /\ call[c].arc \in Arcs /\ Sound(m) /\ m \in Mind /\ Accepts(c)
  BY ReadyIs, Unchecked, EventsAre DEF SetGoal
<1>2. m.epoch \in Nat /\ 0 \in Nat /\ "goal" \in Events
  BY <1>1, EventsAre DEF Mind
<1>3. CASE Refuse(c)
  BY <1>3, RefuseOK
<1>4. ASSUME NEW w \in Worlds,
             Reply(c, Chained([m EXCEPT !.world = w, !.cursor = 0, !.epoch = @ + 1], "goal"))
      PROVE  IInv'
  <2> DEFINE n == [m EXCEPT !.world = w, !.cursor = 0, !.epoch = @ + 1]
  <2>1. Sound(n)
    BY <1>1, <1>2, EditsSound, SessionsAssumption
  <2>2. n.head = m.head /\ n.epoch = m.epoch + 1
    BY <1>1 DEF Mind
  <2>3. Reply(c, Chained(n, "goal"))
    BY <1>4
  <2> HIDE DEF n
  <2>4. m.epoch <= n.epoch /\ (n.epoch = m.epoch => n.world = m.world)
    BY <1>2, <2>2
  <2> QED
    BY <1>1, <1>2, <2>1, <2>2, <2>3, <2>4, ReplyStep DEF m
<1> QED
  BY <1>1, <1>3, <1>4 DEF SetGoal

\* The plan a search leaves, over a mind m.
LEMMA PlannedIs ==
    ASSUME NEW m, Sound(m), NEW p \in {NoPlan} \cup 0..MaxPlan
    PROVE  /\ Sound(Planned(m, p)) /\ Planned(m, p).head = m.head
           /\ Planned(m, p).epoch = m.epoch /\ Planned(m, p).world = m.world
<1>1. (CHOOSE w \in Worlds : TRUE) \in Worlds /\ 0 \in Nat /\ m \in Mind
  BY SessionsAssumption DEF Sound
<1>2. Sound(Planned(m, p))
  BY <1>1, EditsSound DEF Planned
<1> QED
  BY <1>1, <1>2 DEF Planned, Mind

\* The edit that is committed: a new epoch.
LEMMA EditedIs ==
    ASSUME NEW m, Sound(m), NEW w \in Worlds
    PROVE  /\ Sound(Edited(m, w)) /\ Edited(m, w).head = m.head
           /\ Edited(m, w).epoch = m.epoch + 1 /\ m.epoch \in Nat
<1>1. NoPlan \in {NoPlan} \cup 0..MaxPlan /\ 0 \in Nat /\ m \in Mind
  BY DEF Sound
<1>2. Sound(Edited(m, w))
  BY <1>1, EditsSound DEF Edited
<1> QED
  BY <1>1, <1>2 DEF Edited, Mind

LEMMA ThinkOK == ASSUME IInv, NEW c \in Clients, Think(c) PROVE IInv' /\ Accepts(c)
<1> DEFINE m == MindOf(c)
<1>1. /\ Ready(c, "think") /\ call[c].arc \in Arcs /\ Sound(m) /\ m \in Mind /\ Accepts(c)
      /\ call[c].epoch = NoEpoch /\ "retained" \in Events /\ m.epoch \in Nat
  BY ReadyIs, Unchecked, EventsAre DEF Think, IInv, Told, Mind
<1>2. CASE ReplyBriefly(c, Chained(m, "retained"))
  <2> HIDE DEF m
  <2>1. m.epoch <= m.epoch
    BY <1>1
  <2> QED
    BY <1>1, <1>2, <2>1, ReplyStep DEF m
<1>3. CASE BeginSearch(c)
  BY <1>1, <1>3, BeginSearchOK
<1> QED
  BY <1>1, <1>2, <1>3 DEF Think

LEMMA ReplanOK == ASSUME IInv, NEW c \in Clients, Replan(c) PROVE IInv' /\ Accepts(c)
<1>1. Ready(c, "replan") /\ call[c].arc \in Arcs
  BY ReadyIs DEF Replan
<1>2. CASE Refuse(c)
  BY <1>2, RefuseOK
<1>3. CASE ~Stale(c, MindOf(c)) /\ BeginSearch(c)
  BY <1>1, <1>3, NotStale, BeginSearchOK
<1> QED
  BY <1>2, <1>3 DEF Replan

LEMMA BatchOK == ASSUME IInv, NEW c \in Clients, Batch(c) PROVE IInv' /\ Accepts(c)
<1>1. Ready(c, "batch") /\ call[c].arc \in Arcs
  BY ReadyIs DEF Batch
<1>2. CASE Refuse(c)
  BY <1>2, RefuseOK
<1>3. CASE ~Stale(c, MindOf(c)) /\ BeginSearch(c)
  BY <1>1, <1>3, NotStale, BeginSearchOK
<1> QED
  BY <1>2, <1>3 DEF Batch

\* A search that ends: what was tested before it still holds, as the lock was kept.
LEMMA SearchEnds ==
    ASSUME IInv, NEW c \in Clients, NEW op, Searched(c, op), NEW n, Sound(n), NEW e \in Events,
           n.head = MindOf(c).head, MindOf(c).epoch <= n.epoch,
           n.epoch = MindOf(c).epoch => n.world = MindOf(c).world,
           Write(c, Chained(n, e)), saw' = saw \/ Tell(c, Chained(n, e)), Release(c),
           UNCHANGED <<table, mapHolder, shelf, torn, sent>>
    PROVE  IInv' /\ Accepts(c)
<1>1. call[c].arc \in Arcs /\ holder[call[c].arc] = c
      /\ (call[c].epoch /= NoEpoch => call[c].epoch = MindOf(c).epoch)
  BY SearchedIs
<1>2. shelf' \in [Shelves -> Mind] /\ \A k \in Shelves : Sound(shelf'[k])
  BY DEF IInv, Shape, AllSound
<1>3. IInv'
  BY <1>1, <1>2, ReceiptStep
<1> QED
  BY <1>1, <1>3 DEF Accepts, MindOf

LEMMA EndThinkOK == ASSUME IInv, NEW c \in Clients, EndThink(c) PROVE IInv' /\ Accepts(c)
<1>1. Searched(c, "think") /\ Sound(MindOf(c)) /\ MindOf(c) \in Mind /\ "think" \in Events
  BY SearchedIs, EventsAre DEF EndThink
<1>2. PICK p \in {NoPlan} \cup 0..MaxPlan : Write(c, Chained(Planned(MindOf(c), p), "think"))
  BY DEF EndThink
<1>3. /\ Sound(Planned(MindOf(c), p)) /\ Planned(MindOf(c), p).head = MindOf(c).head
      /\ Planned(MindOf(c), p).epoch = MindOf(c).epoch
      /\ Planned(MindOf(c), p).world = MindOf(c).world
      /\ MindOf(c).epoch <= Planned(MindOf(c), p).epoch
  BY <1>1, PlannedIs DEF Mind
<1>4. Release(c) /\ UNCHANGED <<table, mapHolder, shelf, saw, torn, sent>>
  BY DEF EndThink
<1> QED
  BY <1>1, <1>2, <1>3, <1>4, SearchEnds

LEMMA EndReplanOK == ASSUME IInv, NEW c \in Clients, EndReplan(c) PROVE IInv' /\ Accepts(c)
<1>1. Searched(c, "replan") /\ Sound(MindOf(c)) /\ MindOf(c) \in Mind /\ "replan" \in Events
  BY SearchedIs, EventsAre DEF EndReplan
<1>2. PICK p \in {NoPlan} \cup 0..MaxPlan :
          /\ Write(c, Chained(Planned(MindOf(c), p), "replan"))
          /\ Tell(c, Chained(Planned(MindOf(c), p), "replan"))
  BY DEF EndReplan
<1>3. /\ Sound(Planned(MindOf(c), p)) /\ Planned(MindOf(c), p).head = MindOf(c).head
      /\ Planned(MindOf(c), p).epoch = MindOf(c).epoch
      /\ Planned(MindOf(c), p).world = MindOf(c).world
      /\ MindOf(c).epoch <= Planned(MindOf(c), p).epoch
  BY <1>1, PlannedIs DEF Mind
<1>4. Release(c) /\ UNCHANGED <<table, mapHolder, shelf, torn, sent>>
  BY DEF EndReplan
<1> QED
  BY <1>1, <1>2, <1>3, <1>4, SearchEnds

LEMMA EndBatchOK == ASSUME IInv, NEW c \in Clients, EndBatch(c) PROVE IInv' /\ Accepts(c)
<1>1. /\ Searched(c, "batch") /\ Sound(MindOf(c)) /\ MindOf(c) \in Mind /\ "edit" \in Events
      /\ call[c].arc \in Arcs /\ holder[call[c].arc] = c
      /\ Release(c) /\ UNCHANGED <<table, mapHolder, shelf, torn, sent>>
  BY SearchedIs, EventsAre DEF EndBatch
<1>2. CASE Answer(c) /\ UNCHANGED <<minds, saw, due>>
  <2>1. /\ holder' \in Seq(Clients \cup {Nobody}) /\ Len(holder') = Len(holder)
        /\ \A b \in Arcs : holder'[b] = holder[b] \/ holder[b] \in {Nobody, c}
    BY <1>1, HolderTaken DEF Release
  <2>2. call'[c] = Rest /\ Accepts(c) /\ (Steady(c)' /\ Told(c)' => IInv')
    BY <1>1, <1>2, <2>1, RestIs, BlankSound, CallBecomes DEF Answer
  <2>3. Steady(c)'
    BY <2>2, RestIs DEF Steady
  <2>4. Told(c)'
    BY <1>1, <1>2, <2>2, RestIs DEF IInv, Told, Arcs
  <2> QED
    BY <2>2, <2>3, <2>4
<1>3. ASSUME NEW w \in Worlds, NEW m, Sound(m), m.head = MindOf(c).head, m.epoch = MindOf(c).epoch,
             Write(c, Chained(Edited(m, w), "edit")), Tell(c, Chained(Edited(m, w), "edit"))
      PROVE  IInv' /\ Accepts(c)
  <2>1. /\ Sound(Edited(m, w)) /\ Edited(m, w).head = MindOf(c).head
        /\ Edited(m, w).epoch = MindOf(c).epoch + 1 /\ MindOf(c).epoch \in Nat
    BY <1>3, EditedIs
  <2>2. MindOf(c).epoch <= Edited(m, w).epoch /\ Edited(m, w).epoch /= MindOf(c).epoch
    BY <2>1
  <2> QED
    BY <1>1, <1>3, <2>1, <2>2, SearchEnds
<1>4. \A p \in {NoPlan} \cup 0..MaxPlan :
        /\ Sound(Planned(MindOf(c), p)) /\ Planned(MindOf(c), p).head = MindOf(c).head
        /\ Planned(MindOf(c), p).epoch = MindOf(c).epoch
  BY <1>1, PlannedIs
<1> QED
  BY <1>1, <1>2, <1>3, <1>4 DEF EndBatch

LEMMA AdvanceOK == ASSUME IInv, NEW c \in Clients, Advance(c) PROVE IInv' /\ Accepts(c)
<1> DEFINE m == MindOf(c)
<1>1. /\ Ready(c, "advance") /\ call[c].arc \in Arcs /\ Sound(m) /\ m \in Mind /\ Accepts(c)
      /\ "advance" \in Events
  BY ReadyIs, Unchecked, EventsAre DEF Advance
<1>2. CASE Refuse(c)
  BY <1>2, RefuseOK
<1>3. ASSUME NEW k \in 0..MaxPlan, m.cursor + k <= PlanLength(m),
             ReplyBriefly(c, Chained([m EXCEPT !.cursor = @ + k], "advance"))
      PROVE  IInv'
  <2> DEFINE n == [m EXCEPT !.cursor = @ + k]
  <2>1. k \in Nat /\ (CHOOSE w \in Worlds : TRUE) \in Worlds /\ NoPlan \in {NoPlan} \cup 0..MaxPlan
    BY SessionsAssumption
  <2>2. Sound(n)
    BY <1>1, <1>3, <2>1, EditsSound
  <2>3. n.head = m.head /\ n.epoch = m.epoch /\ n.world = m.world /\ m.epoch \in Nat
    BY <1>1 DEF Mind
  <2>4. ReplyBriefly(c, Chained(n, "advance"))
    BY <1>3
  <2> HIDE DEF n
  <2>5. m.epoch <= n.epoch
    BY <2>3
  <2> QED
    BY <1>1, <2>2, <2>3, <2>4, <2>5, ReplyStep DEF m
<1> QED
  BY <1>1, <1>2, <1>3 DEF Advance

LEMMA StageOK ==
    ASSUME IInv, NEW c \in Clients, NEW op, Stage(c, op)
    PROVE  IInv' /\ Accepts(c)
<1>1. Ready(c, op) /\ call[c].arc \in Arcs /\ Sound(MindOf(c)) /\ "edit" \in Events
  BY ReadyIs, EventsAre DEF Stage
<1>2. CASE Refuse(c)
  BY <1>2, RefuseOK
<1>3. ASSUME ~Stale(c, MindOf(c)), NEW w \in Worlds,
             Reply(c, Chained(Planned(Edited(MindOf(c), w), NoPlan), "edit"))
      PROVE  IInv' /\ Accepts(c)
  <2>1. /\ Sound(Edited(MindOf(c), w)) /\ Edited(MindOf(c), w).head = MindOf(c).head
        /\ Edited(MindOf(c), w).epoch = MindOf(c).epoch + 1 /\ MindOf(c).epoch \in Nat
    BY <1>1, EditedIs
  <2> DEFINE n == Planned(Edited(MindOf(c), w), NoPlan)
  <2>2. Sound(n) /\ n.head = MindOf(c).head /\ n.epoch = MindOf(c).epoch + 1
    BY <2>1, PlannedIs
  <2>3. Reply(c, Chained(n, "edit"))
    BY <1>3
  <2> HIDE DEF n
  <2>4. MindOf(c).epoch <= n.epoch /\ n.epoch /= MindOf(c).epoch
    BY <2>1, <2>2
  <2> QED
    BY <1>1, <1>3, <2>2, <2>3, <2>4, NotStale, ReplyStep
<1> QED
  BY <1>2, <1>3 DEF Stage

LEMMA ScheduleFactOK == ASSUME IInv, NEW c \in Clients, ScheduleFact(c) PROVE IInv' /\ Accepts(c)
<1>1. Ready(c, "schedule") /\ call[c].arc \in Arcs /\ Sound(MindOf(c)) /\ "edit" \in Events
  BY ReadyIs, EventsAre DEF ScheduleFact
<1>2. CASE Refuse(c)
  BY <1>2, RefuseOK
<1>3. ASSUME ~Stale(c, MindOf(c)), NEW w \in Worlds,
             Reply(c, Chained(Edited(MindOf(c), w), "edit"))
      PROVE  IInv' /\ Accepts(c)
  <2>1. /\ Sound(Edited(MindOf(c), w)) /\ Edited(MindOf(c), w).head = MindOf(c).head
        /\ Edited(MindOf(c), w).epoch = MindOf(c).epoch + 1 /\ MindOf(c).epoch \in Nat
    BY <1>1, EditedIs
  <2>2. MindOf(c).epoch <= Edited(MindOf(c), w).epoch
        /\ Edited(MindOf(c), w).epoch /= MindOf(c).epoch
    BY <2>1
  <2> QED
    BY <1>1, <1>3, <2>1, <2>2, NotStale, ReplyStep
<1> QED
  BY <1>2, <1>3 DEF ScheduleFact

LEMMA CheckpointOK == ASSUME IInv, NEW c \in Clients, Checkpoint(c) PROVE IInv' /\ Accepts(c)
<1> DEFINE m == Chained(MindOf(c), "checkpoint")
<1>1. /\ Ready(c, "checkpoint") /\ call[c].arc \in Arcs /\ holder[call[c].arc] = Nobody
      /\ Sound(MindOf(c)) /\ MindOf(c) \in Mind /\ "checkpoint" \in Events
  BY ReadyIs, EventsAre DEF Checkpoint
<1>2. CASE Refuse(c)
  BY <1>2, RefuseOK
<1>3. CASE /\ ~Stale(c, MindOf(c))
           /\ shelf' = [shelf EXCEPT ![call[c].req.shelf] = m]
           /\ Write(c, m) /\ Tell(c, m)
           /\ UNCHANGED <<table, locks, torn, sent>>
  <2>1. Sound(m) /\ m \in Mind
    BY <1>1, ChainedSound DEF Sound
  <2>2. call[c].req.shelf \in Shelves /\ shelf \in [Shelves -> Mind]
    BY RequestIs DEF IInv, Shape
  <2>3. shelf' \in [Shelves -> Mind] /\ \A k \in Shelves : Sound(shelf'[k])
    <3> HIDE DEF m
    <3> QED
      BY <1>3, <2>1, <2>2 DEF IInv, AllSound
  <2>4. UNCHANGED <<table, mapHolder, torn, holder>> /\ MindOf(c).epoch <= MindOf(c).epoch
    BY <1>1, <1>3 DEF locks, Mind
  <2>5. IInv'
    BY <1>1, <1>3, <2>3, <2>4, ReceiptStep
  <2> QED
    BY <1>1, <1>3, <2>5, NotStale
<1> QED
  BY <1>2, <1>3 DEF Checkpoint

\* One id's receipts change, to a set of chains.
LEMMA DueIs ==
    ASSUME IInv, NEW i \in Ids, NEW S \in SUBSET Seq(Events), due' = [due EXCEPT ![i] = S]
    PROVE  /\ due' \in [Ids -> SUBSET Seq(Events)] /\ due'[i] = S
           /\ \A j \in Ids : j /= i => due'[j] = due[j]
  BY DEF IInv, Shape

\* A new Arc and nothing else but its receipts.
LEMMA InsertsAlone ==
    ASSUME IInv, NEW c \in Clients, NEW i \in Ids, NEW m, Sound(m), mapHolder \in {Nobody, c},
           NEW S \in SUBSET Seq(Events), due' = [due EXCEPT ![i] = S],
           \A r \in S : Extends(r, m.head),
           Insert(i, m, minds), Answer(c), UNCHANGED <<shelf, saw, torn, sent>>
    PROVE  IInv'
<1>1. minds \in Seq(Mind) /\ Len(minds) = Len(minds)
      /\ \A b \in Arcs : /\ Sound(minds[b]) /\ minds[b].head \in Seq(Events)
                         /\ Extends(minds[b].head, minds[b].head)
  <2>1. minds \in Seq(Mind) /\ \A b \in Arcs : Sound(minds[b])
    BY DEF IInv, Shape, AllSound
  <2>2. \A b \in Arcs : minds[b].head \in Seq(Events)
    BY <2>1 DEF Sound, Mind
  <2> QED
    BY <2>1, <2>2 DEF Extends
<1>2. /\ due' \in [Ids -> SUBSET Seq(Events)] /\ due'[i] = S
      /\ \A j \in Ids : j /= i => due'[j] = due[j]
  BY DueIs
<1> QED
  BY <1>1, <1>2, InsertStep

\* A chain that begins at a mind that is put under an id extends itself.
LEMMA HeadIs ==
    ASSUME NEW m, Sound(m)
    PROVE  m.head \in Seq(Events) /\ Extends(m.head, m.head)
<1>1. m.head \in Seq(Events)
  BY DEF Sound, Mind
<1> QED
  BY <1>1 DEF Extends

LEMMA OpenOK == ASSUME IInv, NEW c \in Clients, Open(c) PROVE IInv' /\ Accepts(c)
<1>1. mapHolder = Nobody /\ Accepts(c) /\ Id(c) \in Ids
  BY RequestIs, Unchecked, EventsAre DEF Open, MapIsFree, IInv
<1>2. CASE Refuse(c)
  BY <1>2, RefuseOK
<1>3. ASSUME NEW w \in Worlds, Insert(Id(c), Fresh(w), minds),
             due' = [due EXCEPT ![Id(c)] = {Fresh(w).head}],
             Answer(c), UNCHANGED <<mapHolder, shelf, saw, torn, sent>>
      PROVE  IInv'
  <2>1. Sound(Fresh(w)) /\ Fresh(w).head \in Seq(Events) /\ Extends(Fresh(w).head, Fresh(w).head)
    BY FreshSound, HeadIs
  <2>2. {Fresh(w).head} \in SUBSET Seq(Events) /\ \A r \in {Fresh(w).head} : Extends(r, Fresh(w).head)
    BY <2>1
  <2> QED
    BY <1>1, <1>3, <2>1, <2>2, InsertsAlone
<1> QED
  BY <1>1, <1>2, <1>3 DEF Open

LEMMA CloseOK == ASSUME IInv, NEW c \in Clients, Close(c) PROVE IInv' /\ Accepts(c)
<1>1. /\ mapHolder = Nobody /\ Accepts(c) /\ Id(c) \in Ids
      /\ table' = [table EXCEPT ![Id(c)] = NoArc] /\ due' = [due EXCEPT ![Id(c)] = {}]
      /\ call' = [call EXCEPT ![c] = Rest]
      /\ UNCHANGED <<minds, mapHolder, holder, shelf, saw, torn>>
  BY RequestIs, Unchecked, EventsAre DEF Close, MapIsFree, IInv, Answer, locks
<1>2. /\ table' \in [Ids -> Nat]
      /\ \A i \in Ids : table'[i] = NoArc \/ (table'[i] = table[i] /\ due'[i] = due[i])
      /\ due' \in [Ids -> SUBSET Seq(Events)]
  <2>1. NoArc \in Nat /\ {} \in SUBSET Seq(Events)
    BY DEF NoArc
  <2> QED
    BY <1>1, <2>1 DEF IInv, Shape
<1>3. /\ call' \in [Clients -> Call] /\ call'[c] = Rest /\ saw' \in [Clients -> Saw]
      /\ \A d \in Clients : d /= c => call'[d] = call[d] /\ saw'[d] = saw[d]
      /\ Sound(call'[c].mind)
      /\ holder' \in Seq(Clients \cup {Nobody}) /\ Len(holder') = Len(holder)
  BY <1>1, RestIs, BlankSound DEF IInv, Shape
<1>4. Shape' /\ Gentle(c) /\ (Steady(c)' /\ Told(c)' => IInv')
  BY <1>1, <1>2, <1>3, CallStep
<1>5. Steady(c)' /\ Told(c)'
  BY <1>1, <1>3, <1>4, RestIsSteady
<1> QED
  BY <1>1, <1>4, <1>5

LEMMA CopyOK == ASSUME IInv, NEW c \in Clients, Copy(c) PROVE IInv' /\ Accepts(c)
<1>1. CASE Refuse(c)
  BY <1>1, RefuseOK
<1> DEFINE m == shelf[call[c].req.shelf]
           x == [call[c] EXCEPT !.mind = m, !.pc = "lookup"]
<1>2. CASE /\ call' = [call EXCEPT ![c].mind = m, ![c].pc = "lookup"]
           /\ UNCHANGED <<table, minds, locks, shelf, history, sent>>
  <2>1. m \in Mind /\ Sound(m)
    BY RequestIs DEF IInv, Shape, AllSound
  <2>2. call[c] \in Call /\ call' = [call EXCEPT ![c] = x]
    BY <1>2 DEF IInv, Shape, Call
  <2>3. /\ x \in Call /\ x.mind = m /\ x.pc = "lookup" /\ x.req = call[c].req
        /\ x.epoch = call[c].epoch
    BY <2>1, <2>2 DEF Call, Pcs
  <2>4. UNCHANGED <<table, minds, mapHolder, holder, shelf, saw, torn, due>>
    BY <1>2 DEF locks, history
  <2> HIDE DEF m, x
  <2>5. call'[c] = x /\ Accepts(c) /\ (Steady(c)' /\ Told(c)' => IInv')
    BY <2>1, <2>2, <2>3, <2>4, SameCalls, CallBecomes
  <2>6. Steady(c)'
    BY <2>3, <2>5 DEF Steady
  <2>7. Told(c)'
    BY <2>3, <2>4, <2>5 DEF IInv, Told, Arcs, Op
  <2> QED
    BY <2>5, <2>6, <2>7
<1> QED
  BY <1>1, <1>2 DEF Copy

LEMMA TakeMapOK == ASSUME IInv, NEW c \in Clients, TakeMap(c) PROVE IInv' /\ Accepts(c)
<1> DEFINE a == table[Id(c)]
<1>1. /\ a /= NoArc /\ a \in Arcs /\ mapHolder = Nobody /\ mapHolder' = c
      /\ UNCHANGED <<table, minds, holder, shelf, saw, torn, due>>
  BY RequestIs, SameCalls DEF TakeMap, MapIsFree, IInv, history
<1>2. Moves(c, "held", a, call[c].right)
  BY DEF TakeMap, IInv, Shape, Call, Moves
<1>3. "held" \in Pcs \ {"insert"} /\ a \in Nat
  BY SameCalls DEF Pcs
<1> HIDE DEF a
<1>4. /\ Accepts(c) /\ call'[c].pc = "held" /\ call'[c].arc = a /\ call'[c].req = call[c].req
      /\ (Steady(c)' => IInv')
  BY <1>1, <1>2, <1>3, SameCalls, CallMoves
<1>5. Steady(c)'
  BY <1>1, <1>4 DEF Steady, Arcs, Id, a
<1> QED
  BY <1>4, <1>5

LEMMA TurnAwayOK == ASSUME IInv, NEW c \in Clients, TurnAway(c) PROVE IInv' /\ Accepts(c)
  BY RefuseOK DEF TurnAway

\* With the map in hand the Arc under the id is the one that was looked up.
LEMMA HeldIs ==
    ASSUME IInv, NEW c \in Clients, call[c].pc = "held", Free(c)
    PROVE  /\ call[c].arc \in Arcs /\ holder[call[c].arc] = Nobody /\ mapHolder = c
           /\ table[Id(c)] = call[c].arc /\ Id(c) \in Ids
           /\ Sound(MindOf(c)) /\ MindOf(c) \in Mind /\ Sound(call[c].mind)
<1>1. /\ call[c].arc \in Arcs /\ mapHolder = c /\ table[Id(c)] = call[c].arc
      /\ holder[call[c].arc] = Nobody
  BY DEF IInv, Steady, Free
<1> QED
  BY <1>1, RequestIs DEF IInv, AllSound, MindOf, Sound

LEMMA RefuseHeldOK == ASSUME IInv, NEW c \in Clients, RefuseHeld(c) PROVE IInv' /\ Accepts(c)
<1>1. /\ mapHolder = c /\ call' = [call EXCEPT ![c] = Rest]
      /\ UNCHANGED <<table, minds, holder, shelf, saw, torn, due>>
  BY HeldIs DEF RefuseHeld, Answer, history
<1>2. call'[c] = Rest /\ Accepts(c) /\ (Steady(c)' /\ Told(c)' => IInv')
  BY <1>1, RestIs, BlankSound, SameCalls, CallBecomes
<1>3. Steady(c)'
  BY <1>2, RestIs DEF Steady
<1>4. Told(c)'
  BY <1>1, <1>2, RestIs DEF IInv, Told, Arcs
<1> QED
  BY <1>2, <1>3, <1>4

LEMMA ForkOK == ASSUME IInv, NEW c \in Clients, Fork(c) PROVE IInv' /\ Accepts(c)
<1> DEFINE a == call[c].arc
           parent == Chained(MindOf(c), "forked-child")
           child == Chained(parent, "fork")
           rest == [minds EXCEPT ![a] = parent]
           i == Target(c)
<1>1. /\ a \in Arcs /\ mapHolder = c /\ table[Id(c)] = a /\ Id(c) \in Ids /\ i \in Ids
      /\ Sound(MindOf(c)) /\ MindOf(c) \in Mind /\ "fork" \in Events /\ "forked-child" \in Events
      /\ ~Stale(c, MindOf(c)) /\ i /= Id(c)
  BY HeldIs, EventsAre, RequestIs, RequestsAssumption DEF Fork, Holding, Target, Op, Id, IInv
<1>2. /\ Insert(i, child, rest) /\ Answer(c) /\ UNCHANGED <<shelf, saw, torn>>
      /\ due' = [due EXCEPT ![Id(c)] = @ \cup {parent.head}, ![i] = {child.head}]
  BY DEF Fork
<1>3. /\ Sound(parent) /\ Sound(child) /\ Extends(MindOf(c).head, parent.head)
      /\ parent.epoch = MindOf(c).epoch /\ parent.world = MindOf(c).world
  BY <1>1, ChainedSound, ChainedIs
<1>4. /\ parent \in Mind /\ parent.head \in Seq(Events) /\ child.head \in Seq(Events)
      /\ Extends(parent.head, parent.head) /\ Extends(child.head, child.head)
  BY <1>3, HeadIs DEF Sound
<1>5. minds[a] = MindOf(c)
  BY DEF MindOf
<1> HIDE DEF parent, child, i, a
<1>6. /\ rest \in Seq(Mind) /\ Len(rest) = Len(minds) /\ rest[a] = parent
      /\ \A b \in Arcs : b /= a => rest[b] = minds[b]
  BY <1>1, <1>4 DEF IInv, Shape, Arcs
<1> HIDE DEF rest
<1>7. \A b \in Arcs : /\ Sound(rest[b]) /\ Extends(minds[b].head, rest[b].head)
                      /\ rest[b].epoch = minds[b].epoch /\ rest[b].world = minds[b].world
  <2> SUFFICES ASSUME NEW b \in Arcs
               PROVE  /\ Sound(rest[b]) /\ Extends(minds[b].head, rest[b].head)
                      /\ rest[b].epoch = minds[b].epoch /\ rest[b].world = minds[b].world
    OBVIOUS
  <2>1. CASE b = a
    BY <1>3, <1>5, <1>6, <2>1
  <2>2. CASE b /= a
    <3>1. Sound(minds[b]) /\ Extends(minds[b].head, minds[b].head)
      BY HeadIs DEF IInv, AllSound
    <3> QED
      BY <1>6, <2>2, <3>1
  <2> QED
    BY <2>1, <2>2
<1>8. /\ due' \in [Ids -> SUBSET Seq(Events)] /\ due'[i] = {child.head}
      /\ due'[Id(c)] = due[Id(c)] \cup {parent.head}
      /\ \A j \in Ids : j /= i /\ j /= Id(c) => due'[j] = due[j]
  BY <1>1, <1>2, <1>4 DEF IInv, Shape
<1>9. \A j \in Ids \ {i} : table[j] /= NoArc =>
          \A r \in due'[j] : r \in due[j] \/ Extends(r, rest[table[j]].head)
  BY <1>1, <1>4, <1>6, <1>8
<1>10. \A r \in due'[i] : Extends(r, child.head)
  BY <1>4, <1>8
<1>11. IInv'
  BY <1>1, <1>2, <1>3, <1>6, <1>7, <1>8, <1>9, <1>10, InsertStep
<1>12. Accepts(c)
  BY <1>1, NotStale DEF a
<1> QED
  BY <1>11, <1>12

\* What a restore or a bootstrap prepares goes on with the chain of the session
\* it has looked at.
LEMMA SucceedOK ==
    ASSUME IInv, NEW c \in Clients, NEW op, Holding(c, op), op \in {"restore", "bootstrap"},
           NEW n, Sound(n), NEW e \in Events,
           Succeed(c, Chained(Overlaid(n, MindOf(c)), e))
    PROVE  IInv'
<1> DEFINE m == Chained(Overlaid(n, MindOf(c)), e)
           x == [call[c] EXCEPT !.mind = m, !.pc = "insert"]
<1>1. /\ mapHolder = c /\ table[Id(c)] = call[c].arc /\ Id(c) \in Ids /\ call[c].arc \in Arcs
      /\ Sound(MindOf(c)) /\ MindOf(c) = minds[call[c].arc] /\ NoArc \notin Arcs
  BY HeldIs DEF Holding, MindOf, NoArc, Arcs
<1>2. Sound(Overlaid(n, MindOf(c))) /\ Overlaid(n, MindOf(c)).head = MindOf(c).head
  BY <1>1, OverlaidSound
<1>3. Sound(m) /\ m \in Mind /\ Extends(MindOf(c).head, m.head)
  BY <1>2, ChainedSound, ChainedIs DEF Sound
<1>4. m.head \in Seq(Events) /\ MindOf(c).head \in Seq(Events)
  BY <1>1, <1>3, HeadIs
<1>5. /\ call[c] \in Call /\ call' = [call EXCEPT ![c].mind = m, ![c].pc = "insert"]
      /\ UNCHANGED <<table, minds, mapHolder, holder, shelf, saw, torn, due>>
  BY DEF Succeed, IInv, Shape, locks, history
<1> HIDE DEF m
<1>6. call' = [call EXCEPT ![c] = x]
  BY <1>5 DEF IInv, Shape, Call
<1>7. /\ x \in Call /\ x.mind = m /\ x.pc = "insert" /\ x.req = call[c].req
      /\ x.epoch = call[c].epoch /\ x.arc = call[c].arc
  BY <1>3, <1>5 DEF Call, Pcs
<1> HIDE DEF x
<1>8. call'[c] = x /\ (Steady(c)' /\ Told(c)' => IInv')
  BY <1>3, <1>5, <1>6, <1>7, SameCalls, CallBecomes
<1>9. \A r \in due[Id(c)] : Extends(r, m.head)
  <2> SUFFICES ASSUME NEW r \in due[Id(c)] PROVE Extends(r, m.head)
    OBVIOUS
  <2>1. Extends(r, MindOf(c).head) /\ r \in Seq(Events)
    BY <1>1 DEF IInv, Lineage, Shape
  <2> QED
    BY <1>3, <1>4, <2>1, ExtendsTransitive
<1>10. Id(c)' = Id(c) /\ Op(c)' = Op(c) /\ Arcs' = Arcs /\ due' = due
  BY <1>5, <1>7, <1>8 DEF Id, Op, Arcs
<1>11. Steady(c)'
  <2>1. /\ call'[c].pc = "insert" /\ call'[c].arc = call[c].arc /\ call'[c].mind = m
        /\ mapHolder' = mapHolder /\ table' = table
    BY <1>5, <1>7, <1>8
  <2>2. call'[c].arc \in Arcs' /\ mapHolder' = c /\ call'[c].arc = table'[Id(c)']
    BY <1>1, <1>10, <2>1
  <2>3. \A r \in due'[Id(c)'] : Extends(r, call'[c].mind.head)
    BY <1>9, <1>10, <2>1
  <2> QED
    BY <2>1, <2>2, <2>3 DEF Steady
<1>12. Told(c)'
  BY <1>5, <1>7, <1>8, <1>10 DEF IInv, Told
<1> QED
  BY <1>8, <1>11, <1>12

LEMMA InsertSuccessorOK ==
    ASSUME IInv, NEW c \in Clients, InsertSuccessor(c)
    PROVE  IInv' /\ Accepts(c)
<1> DEFINE m == call[c].mind
           S == due[Id(c)] \cup {m.head}
<1>1. /\ call[c].pc = "insert" /\ Insert(Id(c), m, minds) /\ Answer(c)
      /\ due' = [due EXCEPT ![Id(c)] = S] /\ UNCHANGED <<shelf, saw, torn, sent>>
  BY DEF InsertSuccessor
<1>2. /\ mapHolder = c /\ Sound(m) /\ Id(c) \in Ids
      /\ \A r \in due[Id(c)] : Extends(r, m.head)
  BY <1>1, RequestIs DEF IInv, Steady, AllSound
<1>3. m.head \in Seq(Events) /\ Extends(m.head, m.head)
  BY <1>2, HeadIs
<1>4. S \in SUBSET Seq(Events) /\ \A r \in S : Extends(r, m.head)
  BY <1>2, <1>3 DEF IInv, Shape
<1> HIDE DEF S, m
<1>5. IInv'
  BY <1>1, <1>2, <1>4, InsertsAlone
<1> QED
  BY <1>1, <1>5 DEF Accepts

LEMMA RestoredSound ==
    ASSUME IInv, NEW c \in Clients
    PROVE  Sound(Restored(c))
<1>1. Sound(call[c].mind) /\ (CHOOSE w \in Worlds : TRUE) \in Worlds /\ 0 \in Nat
      /\ NoPlan \in {NoPlan} \cup 0..MaxPlan
  BY SessionsAssumption DEF IInv, AllSound
<1> QED
  BY <1>1, EditsSound DEF Restored

LEMMA RestoreOK == ASSUME IInv, NEW c \in Clients, Restore(c) PROVE IInv' /\ Accepts(c)
<1>1. /\ Holding(c, "restore") /\ ~Stale(c, MindOf(c)) /\ Sound(Restored(c)) /\ "restore" \in Events
      /\ Succeed(c, Chained(Overlaid(Restored(c), MindOf(c)), "restore"))
  BY RestoredSound, EventsAre DEF Restore
<1>2. call[c].arc \in Arcs
  BY <1>1, HeldIs DEF Holding
<1> QED
  BY <1>1, <1>2, SucceedOK, NotStale

LEMMA RestoreAbsentOK ==
    ASSUME IInv, NEW c \in Clients, RestoreAbsent(c)
    PROVE  IInv' /\ Accepts(c)
<1> DEFINE m == Chained(Restored(c), "restore")
<1>1. /\ mapHolder = Nobody /\ call[c].epoch = NoEpoch /\ Id(c) \in Ids
      /\ Insert(Id(c), m, minds) /\ due' = [due EXCEPT ![Id(c)] = {m.head}]
      /\ Answer(c) /\ UNCHANGED <<shelf, saw, torn, sent>>
  BY RequestIs DEF RestoreAbsent, MapIsFree, IInv
<1>2. Sound(m) /\ m.head \in Seq(Events) /\ Extends(m.head, m.head)
  BY RestoredSound, EventsAre, ChainedSound, HeadIs
<1> HIDE DEF m
<1>3. {m.head} \in SUBSET Seq(Events) /\ \A r \in {m.head} : Extends(r, m.head)
  BY <1>2
<1>4. IInv'
  BY <1>1, <1>2, <1>3, InsertsAlone
<1> QED
  BY <1>1, <1>4 DEF Accepts

LEMMA BootstrapOK == ASSUME IInv, NEW c \in Clients, Bootstrap(c) PROVE IInv' /\ Accepts(c)
<1>1. Holding(c, "bootstrap") /\ "bootstrap" \in Events /\ Accepts(c)
  BY EventsAre, Unchecked DEF Bootstrap, Holding
<1>2. PICK w \in Worlds, p \in {NoPlan} \cup 0..MaxPlan :
        Succeed(c, Chained(Overlaid(Bootstrapped(w, p), MindOf(c)), "bootstrap"))
  BY DEF Bootstrap
<1> QED
  BY <1>1, <1>2, BootstrappedSound, SucceedOK

LEMMA BootstrapAbsentOK ==
    ASSUME IInv, NEW c \in Clients, BootstrapAbsent(c)
    PROVE  IInv' /\ Accepts(c)
<1>1. /\ mapHolder = Nobody /\ "bootstrap" \in Events /\ Accepts(c) /\ Id(c) \in Ids
      /\ Answer(c) /\ UNCHANGED <<shelf, saw, torn, sent>>
  BY EventsAre, Unchecked, RequestIs DEF BootstrapAbsent, MapIsFree, IInv
<1>2. ASSUME NEW w \in Worlds, NEW p \in {NoPlan} \cup 0..MaxPlan, NEW m,
             m = Chained(Bootstrapped(w, p), "bootstrap"),
             Insert(Id(c), m, minds), due' = [due EXCEPT ![Id(c)] = {m.head}]
      PROVE  IInv'
  <2>1. Sound(m) /\ m.head \in Seq(Events) /\ Extends(m.head, m.head)
    BY <1>1, <1>2, BootstrappedSound, ChainedSound, HeadIs
  <2>2. {m.head} \in SUBSET Seq(Events) /\ \A r \in {m.head} : Extends(r, m.head)
    BY <2>1
  <2> QED
    BY <1>1, <1>2, <2>1, <2>2, InsertsAlone
<1> QED
  BY <1>1, <1>2 DEF BootstrapAbsent

-----------------------------------------------------------------------------
(* The specification. *)

\* A step of c moves no other call.
Alone(c) == \A d \in Clients : d /= c => call'[d] = call[d]

LEMMA OneCallMoves ==
    ASSUME IInv, NEW c \in Clients, Serve(c) \/ \E r \in Requests : Send(c, r)
    PROVE  Alone(c)
<1>1. ASSUME NEW x, call' = [call EXCEPT ![c] = x] PROVE Alone(c)
  BY <1>1 DEF IInv, Shape, Alone
<1>2. Answer(c) => Alone(c)
  BY <1>1 DEF Answer
<1>3. ASSUME NEW p, Goto(c, p) PROVE Alone(c)
  BY <1>3 DEF Goto, IInv, Shape, Alone
<1>4. Refuse(c) => Alone(c)
  BY <1>2 DEF Refuse
<1>5. BeginSearch(c) => Alone(c)
  BY <1>3 DEF BeginSearch
<1>6. ASSUME NEW m, Reply(c, m) \/ ReplyBriefly(c, m) \/ Write(c, m) PROVE Alone(c)
  BY <1>2, <1>6 DEF Reply, ReplyBriefly, Write
<1>7. ASSUME NEW r \in Requests, Send(c, r) PROVE Alone(c)
  BY <1>7 DEF Send, IInv, Shape, Alone
<1>8. CASE Lookup(c)
  BY <1>4, <1>8 DEF Lookup, IInv, Shape, Alone
<1>9. CASE LookupRight(c)
  BY <1>4, <1>9 DEF LookupRight, IInv, Shape, Alone
<1>10. CASE LockFirst(c)
  BY <1>3, <1>10 DEF LockFirst
<1>11. CASE Read(c) \/ Compare(c) \/ Close(c) \/ RefuseHeld(c) \/ RestoreAbsent(c)
            \/ BootstrapAbsent(c) \/ Fork(c) \/ InsertSuccessor(c)
  BY <1>2, <1>11 DEF Read, Compare, Close, RefuseHeld, RestoreAbsent, BootstrapAbsent, Fork,
                     InsertSuccessor
<1>12. CASE Observe(c)
  BY <1>2, <1>4, <1>6, <1>12 DEF Observe
<1>13. CASE SetGoal(c)
  BY <1>4, <1>6, <1>13 DEF SetGoal
<1>14. CASE Think(c) \/ Replan(c) \/ Batch(c)
  BY <1>4, <1>5, <1>6, <1>14 DEF Think, Replan, Batch
<1>15. CASE EndThink(c) \/ EndReplan(c)
  BY <1>6, <1>15 DEF EndThink, EndReplan
<1>16. CASE EndBatch(c)
  BY <1>2, <1>6, <1>16 DEF EndBatch
<1>17. CASE Advance(c)
  BY <1>4, <1>6, <1>17 DEF Advance
<1>18. ASSUME NEW op, Stage(c, op) PROVE Alone(c)
  BY <1>4, <1>6, <1>18 DEF Stage
<1>19. CASE Set(c) \/ RestrictOps(c) \/ ApplyStart(c) \/ Elapse(c)
  BY <1>18, <1>19 DEF Set, RestrictOps, ApplyStart, Elapse
<1>20. CASE ScheduleFact(c)
  BY <1>4, <1>6, <1>20 DEF ScheduleFact
<1>21. CASE Checkpoint(c)
  BY <1>4, <1>6, <1>21 DEF Checkpoint
<1>22. CASE Open(c)
  BY <1>2, <1>4, <1>22 DEF Open
<1>23. CASE Copy(c)
  BY <1>4, <1>23 DEF Copy, IInv, Shape, Alone
<1>24. CASE TakeMap(c)
  BY <1>24 DEF TakeMap, IInv, Shape, Alone
<1>25. CASE TurnAway(c)
  BY <1>4, <1>25 DEF TurnAway
<1>26. ASSUME NEW m, Succeed(c, m) PROVE Alone(c)
  BY <1>26 DEF Succeed, IInv, Shape, Alone
<1>27. CASE Restore(c) \/ Bootstrap(c)
  BY <1>26, <1>27 DEF Restore, Bootstrap
<1> QED
  BY <1>7, <1>8, <1>9, <1>10, <1>11, <1>12, <1>13, <1>14, <1>15, <1>16, <1>17, <1>19, <1>20,
     <1>21, <1>22, <1>23, <1>24, <1>25, <1>27 DEF Serve

LEMMA StepOK ==
    ASSUME IInv, NEW c \in Clients, Serve(c) \/ \E r \in Requests : Send(c, r)
    PROVE  IInv' /\ Accepts(c)
<1>1. CASE \E r \in Requests : Send(c, r)
  BY <1>1, SendOK
<1>2. CASE Set(c) \/ RestrictOps(c) \/ ApplyStart(c) \/ Elapse(c)
  BY <1>2, StageOK DEF Set, RestrictOps, ApplyStart, Elapse
<1>3. CASE Lookup(c) \/ Read(c) \/ LookupRight(c) \/ LockFirst(c) \/ Compare(c)
  BY <1>3, LookupOK, ReadOK, LookupRightOK, LockFirstOK, CompareOK
<1>4. CASE Observe(c) \/ SetGoal(c) \/ Think(c) \/ EndThink(c) \/ Replan(c) \/ EndReplan(c)
  BY <1>4, ObserveOK, SetGoalOK, ThinkOK, EndThinkOK, ReplanOK, EndReplanOK
<1>5. CASE Advance(c) \/ ScheduleFact(c) \/ Batch(c) \/ EndBatch(c) \/ Checkpoint(c)
  BY <1>5, AdvanceOK, ScheduleFactOK, BatchOK, EndBatchOK, CheckpointOK
<1>6. CASE Open(c) \/ Close(c) \/ Copy(c) \/ TakeMap(c) \/ TurnAway(c) \/ RefuseHeld(c)
  BY <1>6, OpenOK, CloseOK, CopyOK, TakeMapOK, TurnAwayOK, RefuseHeldOK
<1>7. CASE Fork(c) \/ Restore(c) \/ RestoreAbsent(c) \/ Bootstrap(c) \/ BootstrapAbsent(c)
           \/ InsertSuccessor(c)
  BY <1>7, ForkOK, RestoreOK, RestoreAbsentOK, BootstrapOK, BootstrapAbsentOK, InsertSuccessorOK
<1> QED
  BY <1>1, <1>2, <1>3, <1>4, <1>5, <1>6, <1>7 DEF Serve

LEMMA InitOK == Init => IInv
<1> SUFFICES ASSUME Init PROVE IInv
  OBVIOUS
<1> DEFINE n == Cardinality(Opened)
           f == Fresh(Blank.world)
<1>1. n \in Nat /\ Blank.world \in Worlds
  BY FS_CardinalityType, SessionsAssumption, BlankSound DEF Mind
<1>2. Sound(f) /\ f \in Mind /\ f.head \in Seq(Events) /\ Extends(f.head, f.head)
  BY <1>1, FreshSound, HeadIs DEF Sound
<1>3. /\ table \in [Ids -> {NoArc} \cup 1..n]
      /\ minds = [a \in 1..n |-> f] /\ mapHolder = Nobody /\ holder = [a \in 1..n |-> Nobody]
      /\ shelf = [k \in Shelves |-> Blank] /\ call = [c \in Clients |-> Rest]
      /\ saw = [c \in Clients |-> Unseen] /\ torn = {}
      /\ due = [i \in Ids |-> IF i \in Opened THEN {f.head} ELSE {}]
  BY DEF Init
<1> HIDE DEF n, f
<1>4. Unseen \in Saw /\ Unseen.arc = NoArc
  BY <1>1 DEF Unseen, Saw, NoArc, NoEpoch
<1>5. Arcs = 1..n /\ Len(minds) = n /\ minds \in Seq(Mind) /\ holder \in Seq(Clients \cup {Nobody})
      /\ Len(holder) = n
  BY <1>1, <1>2, <1>3 DEF Arcs
<1>6. due \in [Ids -> SUBSET Seq(Events)] /\ \A i \in Ids : \A r \in due[i] : r = f.head
  BY <1>2, <1>3
<1>7. table \in [Ids -> Nat] /\ \A i \in Ids : table[i] \in {NoArc} \cup Arcs
  BY <1>1, <1>3, <1>5 DEF NoArc
<1>8. Shape
  BY <1>3, <1>4, <1>5, <1>6, <1>7, RestIs, BlankSound DEF Shape
<1>9. AllSound
  BY <1>2, <1>3, <1>5, RestIs, BlankSound DEF AllSound
<1>10. \A c \in Clients : Steady(c) /\ Told(c)
  BY <1>3, <1>4, RestIs DEF Steady, Told
<1>11. Lineage
  BY <1>2, <1>3, <1>5, <1>6, <1>7 DEF Lineage
<1> QED
  BY <1>8, <1>9, <1>10, <1>11 DEF IInv

LEMMA Inductive == IInv /\ [Next]_vars => IInv'
<1> SUFFICES ASSUME IInv, [Next]_vars PROVE IInv'
  OBVIOUS
<1>1. CASE Next
  BY <1>1, StepOK DEF Next
<1>2. CASE UNCHANGED vars
  <2>1. UNCHANGED <<table, minds, mapHolder, holder, shelf, call, saw, torn, due>>
    BY <1>2 DEF vars, locks, history
  <2> QED
    BY <2>1 DEF IInv, Shape, AllSound, Steady, Told, Lineage, Arcs, Op, Id, InOrder
<1> QED
  BY <1>1, <1>2

LEMMA Invariant == Spec => []IInv
<1> QED
  BY InitOK, Inductive, PTL DEF Spec

\* No session and no checkpoint ever has its cursor beyond its plan, whatever
\* calls meet on it: a search resets it, and a write sees the mind it changes.
THEOREM CursorInside == Spec => []CursorWithinPlan
<1>1. IInv => CursorWithinPlan
  BY DEF IInv, AllSound, Sound, CursorWithinPlan
<1> QED
  BY <1>1, Invariant, PTL

\* The ledger a session keeps is the end of the chain whose head it reports,
\* unless it was put over another session.
THEOREM LedgerKept == Spec => []LedgerIsTheChain
<1>1. IInv => LedgerIsTheChain
  <2> SUFFICES ASSUME IInv, NEW i \in Ids, table[i] /= NoArc, ~minds[table[i]].spliced
               PROVE  /\ IsSuffix(minds[table[i]].log, minds[table[i]].head)
                      /\ Len(minds[table[i]].log) = IF Len(minds[table[i]].head) < LogCap
                                                    THEN Len(minds[table[i]].head) ELSE LogCap
    BY DEF LedgerIsTheChain
  <2>1. minds[table[i]] \in Mind /\ TailOfChain(minds[table[i]])
    BY DEF IInv, Shape, AllSound, Sound
  <2> QED
    BY <2>1, TailIsSuffix DEF TailOfChain
<1> QED
  BY <1>1, Invariant, PTL

\* No receipt given for the session under an id drops off the chain of that id,
\* through forks, restores and bootstraps and however calls interleave, but for
\* one given while a restore or a bootstrap of that id is between the reading of
\* its predecessor's head and its insert.
THEOREM ReceiptsStayOnTheChain == Spec => []LineageKept
<1>1. IInv => LineageKept
  <2> SUFFICES ASSUME IInv, NEW i \in Ids, table[i] /= NoArc, NEW r \in due[i]
               PROVE  IsPrefix(r, minds[table[i]].head)
    BY DEF LineageKept
  <2>1. Extends(r, minds[table[i]].head)
    BY DEF IInv, Lineage
  <2>2. r \in Seq(Events) /\ minds[table[i]] \in Mind
    BY DEF IInv, Shape, Arcs
  <2>3. minds[table[i]].head \in Seq(Events)
    BY <2>2 DEF Mind
  <2> QED
    BY <2>1, <2>2, <2>3, PrefixIsExtends
<1> QED
  BY <1>1, Invariant, PTL

\* A write accepted with an expected epoch is of the world its caller was told of,
\* when the caller's epoch came from the same Arc and no observation failed
\* half-way on it; a restore passes its check over that world, and still finds it
\* at its insert unless the epoch has moved in between.
THEOREM EpochIsTheWorld == Spec => EpochNamesTheWorld
<1> DEFINE Names == \A c \in Clients :
        /\ AcceptedChecked(c) /\ Undisturbed(c)
        /\ saw[c].arc = call[c].arc /\ call[c].arc \notin torn
        => saw[c].world = MindOf(c).world
<1>1. IInv /\ [Next]_vars => [Names]_vars
  <2> SUFFICES ASSUME IInv, Next, NEW c \in Clients, AcceptedChecked(c), Undisturbed(c),
                      saw[c].arc = call[c].arc, call[c].arc \notin torn
               PROVE  saw[c].world = MindOf(c).world
    OBVIOUS
  <2>1. PICK d \in Clients : Serve(d) \/ \E r \in Requests : Send(d, r)
    BY DEF Next
  <2>2. d = c
    BY <2>1, OneCallMoves DEF Alone, AcceptedChecked
  <2>3. call[c].arc \in Arcs /\ call[c].epoch = minds[call[c].arc].epoch
        /\ call[c].epoch = saw[c].epoch
    <3>1. call[c].epoch /= NoEpoch /\ call[c].epoch = saw[c].epoch
      BY DEF AcceptedChecked, IInv, Told
    <3>2. CASE call[c].pc = "insert"
      BY <3>1, <3>2 DEF Undisturbed, IInv, Steady, MindOf
    <3>3. CASE call[c].pc /= "insert"
      BY <2>1, <2>2, <3>1, <3>3, StepOK DEF Accepts, AcceptedChecked
    <3> QED
      BY <3>1, <3>2, <3>3
  <2>4. saw[c].arc /= NoArc
    BY <2>3 DEF Arcs, NoArc
  <2> QED
    BY <2>3, <2>4 DEF IInv, Told, MindOf
<1> QED
  BY <1>1, Invariant, PTL DEF Spec, EpochNamesTheWorld

-----------------------------------------------------------------------------
(* The types.  What the invariant does not say of them: who may hold the map,   *)
(* where the calls point, which Arcs are torn, and how many calls were sent.    *)

Pointed ==
    /\ mapHolder \in Clients \cup {Nobody} /\ torn \subseteq Arcs /\ sent \in 0..MaxRequests
    /\ \A c \in Clients : call[c].arc \in {NoArc} \cup Arcs /\ call[c].right \in {NoArc} \cup Arcs

\* A call points nowhere, where it did, or at what is in the map.
Points(c) == \A x \in {call'[c].arc, call'[c].right} :
    x \in {NoArc, call[c].arc, call[c].right} \/ \E i \in Ids : x = table[i]

\* What no step of client c does: shorten the row of locks, give the map to
\* another, tear an Arc that is not there.
Tame(c) ==
    /\ Len(holder) <= Len(holder')
    /\ mapHolder' \in {mapHolder, c, Nobody}
    /\ torn' \subseteq torn \cup Arcs
    /\ sent' = sent \/ (sent < MaxRequests /\ sent' = sent + 1)
    /\ Points(c)

LEMMA ServeIsTame ==
    ASSUME IInv, NEW c \in Clients, Serve(c) \/ \E r \in Requests : Send(c, r)
    PROVE  Tame(c)
<1>0. /\ call \in [Clients -> Call]
      /\ holder \in Seq(Clients \cup {Nobody}) /\ Len(holder) \in Nat
  BY DEF IInv, Shape
<1>1. ASSUME NEW a, NEW x \in Clients \cup {Nobody}, holder' = [holder EXCEPT ![a] = x]
       PROVE  Len(holder') = Len(holder)
  BY <1>0, <1>1
<1>2. ASSUME holder' = Append(holder, Nobody) PROVE Len(holder') = Len(holder) + 1
  BY <1>0, <1>2
<1>3. Answer(c) => Points(c)
  BY <1>0 DEF Answer, Points, Rest
<1>4. ASSUME NEW p, Goto(c, p) PROVE Points(c)
  BY <1>0, <1>4 DEF Goto, Points, Call
<1>5. Refuse(c) => Tame(c)
  BY <1>0, <1>3 DEF Refuse, Tame, locks, history
<1>6. ASSUME BeginSearch(c) PROVE Tame(c)
  <2>1. Points(c) /\ Len(holder') = Len(holder)
    BY <1>4, <1>6, <1>1 DEF BeginSearch
  <2> QED
    BY <1>0, <1>6, <2>1 DEF BeginSearch, Tame, history
<1>7. ASSUME NEW m, Reply(c, m) \/ ReplyBriefly(c, m) PROVE Tame(c)
  BY <1>0, <1>3, <1>7 DEF Reply, ReplyBriefly, Write, Tame, locks
<1>8. ASSUME NEW r \in Requests, Send(c, r) PROVE Tame(c)
  <2> DEFINE x == [Rest EXCEPT !.req = r, !.pc = IF r.op = "restore" THEN "copy" ELSE "lookup",
                               !.epoch = IF r.checked THEN saw[c].epoch ELSE NoEpoch]
  <2>1. /\ call' = [call EXCEPT ![c] = x] /\ UNCHANGED <<holder, mapHolder, torn>>
        /\ sent < MaxRequests /\ sent' = sent + 1
    BY <1>8 DEF Send, locks, history
  <2>2. x.arc = NoArc /\ x.right = NoArc
    BY DEF Rest
  <2> HIDE DEF x
  <2>3. Points(c)
    BY <1>0, <2>1, <2>2 DEF Points
  <2> QED
    BY <1>0, <2>1, <2>3 DEF Tame
<1>9. CASE Lookup(c)
  <2>1. ASSUME NEW p, call' = [call EXCEPT ![c].arc = table[Id(c)], ![c].pc = p] PROVE Points(c)
    BY <1>0, <2>1, RequestIs DEF IInv, Points, Call
  <2> QED
    BY <1>0, <1>5, <1>9, <2>1 DEF Lookup, Tame, locks, history
<1>10. CASE LookupRight(c)
  <2>1. CASE call' = [call EXCEPT ![c].right = table[call[c].req.other], ![c].pc = "lock"]
    <3>1. Points(c)
      BY <1>0, <2>1, RequestIs DEF IInv, Points, Call
    <3> QED
      BY <1>0, <1>5, <1>10, <3>1 DEF LookupRight, Tame, locks, history
  <2> QED
    BY <1>5, <1>10, <2>1 DEF LookupRight
<1>11. CASE LockFirst(c)
  <2>1. Points(c) /\ Len(holder') = Len(holder)
    BY <1>4, <1>11, <1>1 DEF LockFirst
  <2> QED
    BY <1>0, <1>11, <2>1 DEF LockFirst, Tame, history
<1>12. CASE Read(c) \/ Close(c) \/ RefuseHeld(c)
  BY <1>0, <1>3, <1>12 DEF Read, Close, RefuseHeld, Tame, locks, history
<1>13. CASE Compare(c)
  <2>1. Points(c) /\ Len(holder') = Len(holder)
    BY <1>3, <1>13, <1>1 DEF Compare
  <2> QED
    BY <1>0, <1>13, <2>1 DEF Compare, Tame, history
<1>14. CASE Observe(c)
  <2>1. call[c].arc \in Arcs
    BY <1>14 DEF Observe, Ready, IInv, Steady
  <2>2. ASSUME torn' = torn \cup {call[c].arc}, Answer(c), UNCHANGED <<locks, sent>> PROVE Tame(c)
    BY <1>0, <1>3, <2>1, <2>2 DEF Tame, locks
  <2> QED
    BY <1>5, <1>7, <1>14, <2>2 DEF Observe
<1>15. CASE SetGoal(c)
  BY <1>5, <1>7, <1>15 DEF SetGoal
<1>16. CASE Think(c) \/ Replan(c) \/ Batch(c)
  BY <1>5, <1>6, <1>7, <1>16 DEF Think, Replan, Batch
<1>17. CASE EndThink(c) \/ EndReplan(c) \/ EndBatch(c)
  <2>1. Answer(c) /\ Release(c) /\ UNCHANGED <<mapHolder, torn, sent>>
    BY <1>17 DEF EndThink, EndReplan, EndBatch, Write
  <2>2. Points(c) /\ Len(holder') = Len(holder)
    BY <1>3, <2>1, <1>1 DEF Release
  <2> QED
    BY <1>0, <2>1, <2>2 DEF Tame
<1>18. CASE Advance(c)
  BY <1>5, <1>7, <1>18 DEF Advance
<1>19. ASSUME NEW op, Stage(c, op) PROVE Tame(c)
  BY <1>5, <1>7, <1>19 DEF Stage
<1>20. CASE Set(c) \/ RestrictOps(c) \/ ApplyStart(c) \/ Elapse(c)
  BY <1>19, <1>20 DEF Set, RestrictOps, ApplyStart, Elapse
<1>21. CASE ScheduleFact(c)
  BY <1>5, <1>7, <1>21 DEF ScheduleFact
<1>22. CASE Checkpoint(c)
  BY <1>0, <1>3, <1>5, <1>22 DEF Checkpoint, Write, Tame, locks
<1>23. ASSUME NEW i, NEW m, NEW rest, Insert(i, m, rest), Answer(c),
              mapHolder' \in {mapHolder, Nobody}, UNCHANGED <<torn, sent>>
       PROVE  Tame(c)
  BY <1>0, <1>3, <1>23, <1>2 DEF Insert, Tame
<1>24. CASE Open(c)
  BY <1>5, <1>23, <1>24 DEF Open
<1>25. CASE Fork(c) \/ RestoreAbsent(c) \/ BootstrapAbsent(c) \/ InsertSuccessor(c)
  BY <1>23, <1>25 DEF Fork, RestoreAbsent, BootstrapAbsent, InsertSuccessor
<1>29. ASSUME NEW m, Succeed(c, m) PROVE Tame(c)
  <2>1. /\ call' = [call EXCEPT ![c].mind = m, ![c].pc = "insert"]
        /\ UNCHANGED <<holder, mapHolder, torn, sent>>
    BY <1>29 DEF Succeed, locks, history
  <2>2. Points(c)
    BY <1>0, <2>1 DEF Points, Call
  <2> QED
    BY <1>0, <2>1, <2>2 DEF Tame
<1>30. CASE Restore(c) \/ Bootstrap(c)
  BY <1>29, <1>30 DEF Restore, Bootstrap
<1>26. CASE Copy(c)
  <2>1. CASE Refuse(c)
    BY <1>5, <2>1
  <2>2. CASE ~Refuse(c)
    <3>1. /\ call' = [call EXCEPT ![c].mind = shelf[call[c].req.shelf], ![c].pc = "lookup"]
          /\ UNCHANGED <<holder, mapHolder, torn, sent>>
      BY <1>26, <2>2 DEF Copy, locks, history
    <3>2. Points(c)
      BY <1>0, <3>1 DEF Points, Call
    <3> QED
      BY <1>0, <3>1, <3>2 DEF Tame
  <2> QED
    BY <2>1, <2>2
<1>27. CASE TakeMap(c)
  <2>1. Points(c)
    BY <1>0, <1>27, RequestIs DEF TakeMap, IInv, Points, Call
  <2> QED
    BY <1>0, <1>27, <2>1 DEF TakeMap, Tame, history
<1>28. CASE TurnAway(c)
  BY <1>5, <1>28 DEF TurnAway
<1> QED
  BY <1>8, <1>9, <1>10, <1>11, <1>12, <1>14, <1>15, <1>16, <1>17, <1>18, <1>20, <1>21, <1>22,
     <1>24, <1>25, <1>26, <1>27, <1>28, <1>30,
     <1>13 DEF Serve

LEMMA StaysPointed ==
    ASSUME IInv, IInv', Pointed, NEW c \in Clients, Tame(c), Alone(c)
    PROVE  Pointed'
<1>1. /\ holder \in Seq(Clients \cup {Nobody}) /\ Len(holder) = Len(minds)
      /\ Len(holder') = Len(minds') /\ Len(minds) \in Nat /\ Len(minds') \in Nat
  BY DEF IInv, Shape
<1>2. Len(minds) <= Len(minds')
  BY <1>1 DEF Tame
<1>3. Arcs \subseteq Arcs'
  BY <1>1, <1>2 DEF Arcs
<1>4. \A i \in Ids : table[i] \in {NoArc} \cup Arcs
  BY DEF IInv, Shape
<1>5. ASSUME NEW d \in Clients
      PROVE  call'[d].arc \in {NoArc} \cup Arcs' /\ call'[d].right \in {NoArc} \cup Arcs'
  <2>1. call[d].arc \in {NoArc} \cup Arcs /\ call[d].right \in {NoArc} \cup Arcs
    BY DEF Pointed
  <2>2. CASE d = c
    BY <1>3, <1>4, <2>1, <2>2 DEF Tame, Points
  <2>3. CASE d /= c
    BY <1>3, <2>1, <2>3 DEF Alone
  <2> QED
    BY <2>2, <2>3
<1>6. mapHolder' \in Clients \cup {Nobody} /\ torn' \subseteq Arcs'
  BY <1>3 DEF Tame, Pointed
<1>7. sent' \in 0..MaxRequests
  BY SessionsAssumption DEF Tame, Pointed
<1> QED
  BY <1>5, <1>6, <1>7 DEF Pointed

\* The variables of the sessions have their types: among them, that a call points
\* only at Arcs there are, whatever was closed or replaced since it looked.
THEOREM SessionTypes == Spec => []TypeOK
<1>1. Init => Pointed
  <2> SUFFICES ASSUME Init PROVE Pointed
    OBVIOUS
  <2>1. \A c \in Clients : call[c].arc = NoArc /\ call[c].right = NoArc
    BY DEF Init, Rest
  <2> QED
    BY <2>1, SessionsAssumption DEF Init, Pointed
<1>2. IInv /\ IInv' /\ Pointed /\ [Next]_vars => Pointed'
  <2> SUFFICES ASSUME IInv, IInv', Pointed, [Next]_vars PROVE Pointed'
    OBVIOUS
  <2>1. CASE Next
    <3>1. PICK c \in Clients : Serve(c) \/ \E r \in Requests : Send(c, r)
      BY <2>1 DEF Next
    <3> QED
      BY <3>1, ServeIsTame, OneCallMoves, StaysPointed
  <2>2. CASE UNCHANGED vars
    BY <2>2 DEF Pointed, Arcs, vars, locks, history
  <2> QED
    BY <2>1, <2>2
<1>3. IInv /\ Pointed => TypeOK
  <2> SUFFICES ASSUME IInv, Pointed PROVE TypeOK
    OBVIOUS
  <2>1. /\ minds \in Seq(Mind) /\ table \in [Ids -> {NoArc} \cup Arcs]
        /\ shelf \in [Shelves -> Mind] /\ due \in [Ids -> SUBSET Seq(Events)]
        /\ call \in [Clients -> Call]
    BY DEF IInv, Shape
  <2>2. DOMAIN holder = Arcs /\ \A a \in Arcs : holder[a] \in Clients \cup {Nobody}
    BY DEF IInv, Shape, Arcs
  <2>3. \A c \in Clients : call[c] \in Call
    BY <2>1
  <2>4. \A c \in Clients : /\ call[c].pc \in Pcs /\ call[c].req \in Requests
                           /\ call[c].epoch \in Nat \cup {NoEpoch} /\ call[c].mind \in Mind
    BY <2>3 DEF Call
  <2> QED
    BY <2>1, <2>2, <2>4 DEF Pointed, TypeOK, Pcs
<1> QED
  BY <1>1, <1>2, <1>3, Invariant, PTL DEF Spec
=============================================================================
