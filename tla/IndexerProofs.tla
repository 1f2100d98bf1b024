---------------------------- MODULE IndexerProofs ----------------------------
(***************************************************************************)
(* Theorems about the event indexer, for any number of entities, ledgers,    *)
(* events, reorganisations and failures, any page and any window: what it      *)
(* indexed behind its cursor is exact, and its rows follow the chain.         *)
(*                                                                         *)
(* The invariant relates the database, the batch in hand and the chain as it  *)
(* is now.  A step of the node changes only the chain, one of the loop only    *)
(* what it holds of it, so each action has a lemma of its own.                *)
(***************************************************************************)
EXTENDS Indexer, SumTheorems

-----------------------------------------------------------------------------
(* The invariant.                                                             *)

Ledgers == 1 .. MaxLedger
Event == [ledger : Ledgers, index : Nat \ {0}, hash : Nat,
          entity : Entities, status : Statuses]
Row == [status : Statuses \cup {"none"}, ledger : Nat]

Ledger == [hash : Nat, events : Seq(Change)]

Types ==
    /\ chain \in Seq(Ledger)
    /\ Len(chain) <= MaxLedger
    /\ cursor \in Nat /\ saved \in Nat /\ next \in Nat /\ from \in Nat /\ stage \in Nat
    /\ forks \in Nat /\ faults \in Nat
    /\ hashes \in [Ledgers -> Nat]
    /\ raw \subseteq Event /\ missed \subseteq Event /\ lost \subseteq Event
    /\ batch \in Seq(Event)
    /\ rows \in [Entities -> Row]
    /\ pc \in {"idle", "rollback", "handle", "hash", "cursor", "down"}
    /\ dirty \subseteq Ledgers /\ orphaned \subseteq Entities

\* The events of the chain as it is now.
At(ch, l, i) == [ledger |-> l, index |-> i, hash |-> ch[l].hash,
                 entity |-> ch[l].events[i].entity, status |-> ch[l].events[i].status]
EventsIn(ch) == UNION {{At(ch, l, i) : i \in DOMAIN ch[l].events} : l \in DOMAIN ch}
OnChain == EventsIn(chain)

\* Where the loop is, and what it then holds.
Place ==
    /\ batch # <<>> <=> pc = "handle"
    /\ IF pc \in {"handle", "hash", "cursor"} THEN next > cursor
       ELSE next = 0 /\ missed = {}
    /\ cursor = IF pc = "down" THEN 0 ELSE saved
    /\ \A e \in missed \cup Range(batch) : saved <= e.ledger /\ e.ledger < next

\* A roll-back: everything it takes back is dirty, and the raw events go first.
Undoing ==
    pc = "rollback" =>
        /\ from \in Ledgers /\ from < saved
        /\ stage \in 1 .. Len(Undone) + 1
        /\ \A k \in Ledgers : from <= k /\ k < saved => k \in dirty
        /\ stage > 1 => \A e \in raw : e.ledger < from

\* What was read in a ledger that is not dirty is on the chain.
Sound == \A e \in raw \cup Range(batch) : e.ledger \notin dirty => e \in OnChain

\* What is on the chain was stored, or is being stored, or missed.
Complete ==
    \A e \in OnChain :
        e.ledger \notin dirty =>
            /\ e.ledger < saved => e \in raw \cup lost
            /\ saved <= e.ledger /\ e.ledger < next => e \in raw \cup Range(batch) \cup missed

\* A ledger that was passed and is no longer there is dirty.
Gone == \A k \in Ledgers : k > Len(chain) /\ (k < saved \/ k < next) => k \in dirty

Creation(e) == e.status = First[KindOf[e.entity]]

\* An entity on the chain was created there, before all else that concerns it.
Created ==
    /\ \A e \in OnChain : \E c \in OnChain : c.entity = e.entity /\ Creation(c)
    /\ \A c \in OnChain, f \in OnChain :
          Creation(c) /\ f.entity = c.entity => ~Before(f, c)

\* The batch is in order, and holds what follows its first event.
Ordered ==
    /\ \A i, j \in DOMAIN batch : i < j => Before(batch[i], batch[j])
    /\ \A e \in Range(batch), z \in OnChain :
          (Before(e, z) /\ z.ledger < next /\ z.ledger \notin dirty) => z \in Range(batch) \cup missed

\* The events of an entity that lost none.
Kept ==
    /\ \A e \in Range(batch) : e.entity \notin orphaned => e \in OnChain
    /\ \A en \in Entities \ orphaned :
          rows[en] # NoRow =>
              \E c \in OnChain, e \in OnChain :
                  /\ c.entity = en /\ Creation(c) /\ rows[en].ledger = c.ledger
                  /\ e.entity = en /\ rows[en].status = e.status

Passed(e) == e.ledger < saved \/ (e.ledger < next /\ e \notin Range(batch))
Handled(e) == Passed(e) /\ e.ledger \notin dirty /\ e \notin lost \cup missed

\* The row of an entity whose creation was handled; its status once the last
\* event was handled too.
Mirrored ==
    \A c \in OnChain :
        (c.entity \notin orphaned /\ Creation(c) /\ Handled(c)) =>
            /\ rows[c.entity] # NoRow
            /\ \A z \in OnChain :
                  (z.entity = c.entity /\ Handled(z)
                     /\ \A f \in OnChain : f.entity = c.entity => ~Before(z, f)) =>
                      rows[c.entity].status = z.status

IndInv ==
    /\ Types /\ Place /\ Undoing /\ Sound /\ Complete /\ Gone
    /\ Created /\ Ordered /\ Kept /\ Mirrored

-----------------------------------------------------------------------------
(* The events of a chain.                                                     *)

\* What a ledger of the chain yields is an event.
LEMMA IsEvent ==
    ASSUME NEW ch \in Seq(Ledger), Len(ch) <= MaxLedger, NEW l \in DOMAIN ch,
           NEW i \in DOMAIN ch[l].events
    PROVE  At(ch, l, i) \in Event
<1>1. l \in Ledgers /\ ch[l] \in Ledger
  BY IndexerAssumption DEF Ledgers
<1>2. i \in Nat \ {0} /\ ch[l].events[i] \in Change
  BY <1>1 DEF Ledger
<1>3. ch[l].events[i].entity \in Entities /\ ch[l].events[i].status \in Statuses
  BY <1>2 DEF Change
<1>4. QED
  BY <1>1, <1>2, <1>3 DEF At, Event, Ledger

LEMMA AreEvents ==
    ASSUME NEW ch \in Seq(Ledger), Len(ch) <= MaxLedger
    PROVE  EventsIn(ch) \subseteq Event
BY IsEvent DEF EventsIn

\* One event to a place.
LEMMA OneEvent ==
    ASSUME NEW ch, NEW e \in EventsIn(ch), NEW f \in EventsIn(ch),
           e.ledger = f.ledger, e.index = f.index
    PROVE  e = f
<1>1. PICK l \in DOMAIN ch : \E i \in DOMAIN ch[l].events : e = At(ch, l, i)
  BY DEF EventsIn
<1>2. PICK m \in DOMAIN ch : \E j \in DOMAIN ch[m].events : f = At(ch, m, j)
  BY DEF EventsIn
<1>3. PICK i \in DOMAIN ch[l].events : e = At(ch, l, i)
  BY <1>1
<1>4. PICK j \in DOMAIN ch[m].events : f = At(ch, m, j)
  BY <1>2
<1>5. l = m /\ i = j
  BY <1>3, <1>4 DEF At
<1>6. QED
  BY <1>3, <1>4, <1>5

\* A ledger more: the events of the others stay, its own are the last.
LEMMA LedgerMore ==
    ASSUME NEW ch \in Seq(Ledger), NEW r \in Ledger
    PROVE  /\ EventsIn(ch) \subseteq EventsIn(Append(ch, r))
           /\ \A e \in EventsIn(Append(ch, r)) \ EventsIn(ch) :
                  \E i \in DOMAIN r.events :
                      /\ e = At(Append(ch, r), Len(ch) + 1, i)
                      /\ e.ledger = Len(ch) + 1 /\ e.index = i
                      /\ e.entity = r.events[i].entity /\ e.status = r.events[i].status
           /\ \A i \in DOMAIN r.events :
                  At(Append(ch, r), Len(ch) + 1, i) \in EventsIn(Append(ch, r))
<1>1. PICK more : more = Append(ch, r)
  OBVIOUS
<1>2. /\ DOMAIN more = DOMAIN ch \cup {Len(ch) + 1}
      /\ \A l \in DOMAIN ch : more[l] = ch[l]
      /\ more[Len(ch) + 1] = r
  BY <1>1
<1>3. \A l \in DOMAIN ch : \A i : At(more, l, i) = At(ch, l, i)
  BY <1>2 DEF At
<1>4. EventsIn(ch) \subseteq EventsIn(more)
  BY <1>2, <1>3 DEF EventsIn
<1>5. ASSUME NEW e \in EventsIn(more), e \notin EventsIn(ch)
      PROVE  \E i \in DOMAIN r.events : e = At(more, Len(ch) + 1, i)
  <2>1. PICK l \in DOMAIN more : \E i \in DOMAIN more[l].events : e = At(more, l, i)
    BY DEF EventsIn
  <2>2. CASE l \in DOMAIN ch
    BY <1>2, <1>3, <1>5, <2>1, <2>2 DEF EventsIn
  <2>3. CASE l = Len(ch) + 1
    BY <1>2, <2>1, <2>3
  <2>4. QED
    BY <1>2, <2>2, <2>3
<1>6. \A i \in DOMAIN r.events : At(more, Len(ch) + 1, i) \in EventsIn(more)
  BY <1>2 DEF EventsIn
<1>7. \A i : /\ At(more, Len(ch) + 1, i).ledger = Len(ch) + 1
             /\ At(more, Len(ch) + 1, i).index = i
             /\ At(more, Len(ch) + 1, i).entity = r.events[i].entity
             /\ At(more, Len(ch) + 1, i).status = r.events[i].status
  BY <1>2 DEF At
<1>8. QED
  BY <1>1, <1>4, <1>5, <1>6, <1>7

\* A chain cut off before a ledger.
LEMMA ChainCut ==
    ASSUME NEW ch \in Seq(Ledger), NEW l \in DOMAIN ch
    PROVE  EventsIn(SubSeq(ch, 1, l - 1)) = {e \in EventsIn(ch) : e.ledger < l}
<1>1. PICK less : less = SubSeq(ch, 1, l - 1)
  OBVIOUS
<1>2. l \in Nat /\ DOMAIN less = {k \in DOMAIN ch : k < l}
  BY <1>1
<1>3. \A k \in DOMAIN less : less[k] = ch[k]
  BY <1>1
<1>4. \A k \in DOMAIN less : \A i : At(less, k, i) = At(ch, k, i)
  BY <1>3 DEF At
<1>5. \A k, i : At(ch, k, i).ledger = k
  BY DEF At
<1>6. ASSUME NEW e \in EventsIn(less) PROVE e \in EventsIn(ch) /\ e.ledger < l
  BY <1>2, <1>3, <1>4, <1>5 DEF EventsIn
<1>7. ASSUME NEW e \in EventsIn(ch), e.ledger < l PROVE e \in EventsIn(less)
  <2>1. PICK k \in DOMAIN ch : \E i \in DOMAIN ch[k].events : e = At(ch, k, i)
    BY DEF EventsIn
  <2>2. k \in DOMAIN less
    BY <1>2, <1>5, <1>7, <2>1
  <2>3. QED
    BY <1>3, <1>4, <2>1, <2>2 DEF EventsIn
<1>8. QED
  BY <1>1, <1>6, <1>7

-----------------------------------------------------------------------------
(* The events of a poll.                                                      *)

Joins(l, f) == [n \in 0 .. Len(chain) |->
                  IF n = 0 THEN <<>>
                  ELSE IF n < l THEN f[n - 1] ELSE f[n - 1] \o EventsOf(n)]
Joined(l) == CHOOSE f : f = Joins(l, f)

\* EventsFrom and its recursion, unfolded.
LEMMA FromIs == \A l : EventsFrom(l) = Joined(l)[Len(chain)]
BY DEF EventsFrom, Joined, Joins

\* The recursion has a solution, by induction on the ledgers.
LEMMA JoinsMeet ==
    ASSUME chain \in Seq(Ledger), NEW l
    PROVE  \E f : f = Joins(l, f)
<1> DEFINE Join(f, n) == IF n = 0 THEN <<>>
                         ELSE IF n < l THEN f[n - 1] ELSE f[n - 1] \o EventsOf(n)
           Good == {n \in Nat : \E f : f = [k \in 0 .. n |-> Join(f, k)]}
<1>1. 0 \in Good
  <2> DEFINE f == [k \in 0 .. 0 |-> <<>>]
  <2>1. f = [k \in 0 .. 0 |-> Join(f, k)]
    OBVIOUS
  <2>2. QED
    BY <2>1
<1>2. ASSUME NEW n \in Nat, n \in Good PROVE n + 1 \in Good
  <2>1. PICK f : f = [k \in 0 .. n |-> Join(f, k)]
    BY <1>2
  <2> DEFINE g == [k \in 0 .. n + 1 |-> IF k = n + 1 THEN Join(f, k) ELSE f[k]]
  <2>2. \A k \in 0 .. n : g[k] = f[k]
    OBVIOUS
  <2>3. \A k \in 0 .. n + 1 : Join(g, k) = Join(f, k)
    BY <2>2
  <2> HIDE DEF Join
  <2>4. \A k \in 0 .. n : f[k] = Join(f, k)
    BY <2>1
  <2>5. \A k \in 0 .. n + 1 : g[k] = Join(g, k)
    BY <2>2, <2>3, <2>4
  <2>6. g = [k \in 0 .. n + 1 |-> Join(g, k)]
    BY <2>5
  <2> HIDE DEF g
  <2>7. \E h : h = [k \in 0 .. n + 1 |-> Join(h, k)]
    BY <2>6
  <2>8. QED
    BY <2>7
<1>3. Len(chain) \in Good
  <2>1. Len(chain) \in Nat
    OBVIOUS
  <2> HIDE DEF Good
  <2>2. QED
    BY <1>1, <1>2, <2>1, Induction
<1>4. QED
  BY <1>3 DEF Joins

\* The events of a ledger.
LEMMA OfLedger ==
    ASSUME chain \in Seq(Ledger), Len(chain) <= MaxLedger, NEW n \in DOMAIN chain
    PROVE  /\ EventsOf(n) \in Seq(Event)
           /\ \A i \in DOMAIN EventsOf(n) : EventsOf(n)[i].ledger = n /\ EventsOf(n)[i].index = i
           /\ Range(EventsOf(n)) = {e \in OnChain : e.ledger = n}
<1> DEFINE ev == chain[n].events
<1>1. ev \in Seq(Change) /\ DOMAIN ev = 1 .. Len(ev) /\ Len(ev) \in Nat
  <2>1. chain[n] \in Ledger
    OBVIOUS
  <2>2. QED
    BY <2>1 DEF Ledger
<1>2. /\ DOMAIN EventsOf(n) = 1 .. Len(ev)
      /\ \A i \in 1 .. Len(ev) : EventsOf(n)[i] = At(chain, n, i)
  BY <1>1 DEF EventsOf, At
<1>3. \A i \in 1 .. Len(ev) : At(chain, n, i) \in Event
  BY <1>1, IsEvent
<1>4. EventsOf(n) = [i \in 1 .. Len(ev) |-> At(chain, n, i)]
  BY <1>1 DEF EventsOf, At
<1>5. EventsOf(n) \in Seq(Event)
  BY <1>1, <1>3, <1>4
<1>6. \A l, i : At(chain, l, i).ledger = l /\ At(chain, l, i).index = i
  BY DEF At
<1>7. Range(EventsOf(n)) = {At(chain, n, i) : i \in DOMAIN ev}
  BY <1>1, <1>2 DEF Range
<1>8. ASSUME NEW e \in OnChain, e.ledger = n PROVE e \in Range(EventsOf(n))
  <2>1. PICK l \in DOMAIN chain : \E i \in DOMAIN chain[l].events : e = At(chain, l, i)
    BY DEF OnChain, EventsIn
  <2>2. l = n
    BY <1>6, <1>8, <2>1
  <2>3. QED
    BY <1>7, <2>1, <2>2
<1>9. \A e \in Range(EventsOf(n)) : e \in OnChain /\ e.ledger = n
  BY <1>6, <1>7 DEF OnChain, EventsIn
<1>10. QED
  BY <1>2, <1>5, <1>6, <1>8, <1>9

\* s holds the events of the ledgers l to n, in order.
InOrder(s, l, n) ==
    /\ s \in Seq(Event)
    /\ Range(s) = {e \in OnChain : l <= e.ledger /\ e.ledger <= n}
    /\ \A i, j \in DOMAIN s : i < j => Before(s[i], s[j])

\* One more ledger keeps the order and adds its events.
LEMMA JoinNext ==
    ASSUME chain \in Seq(Ledger), Len(chain) <= MaxLedger, NEW n \in DOMAIN chain,
           NEW l \in Nat, l <= n, NEW s, InOrder(s, l, n - 1)
    PROVE  InOrder(s \o EventsOf(n), l, n)
<1>1. PICK t : t = EventsOf(n)
  OBVIOUS
<1>2. /\ t \in Seq(Event) /\ Range(t) = {e \in OnChain : e.ledger = n}
      /\ \A i \in DOMAIN t : t[i].ledger = n /\ t[i].index = i
  BY <1>1, OfLedger
<1>3. PICK b : b = s \o t
  OBVIOUS
<1>4. s \in Seq(Event) /\ Len(s) \in Nat /\ Len(t) \in Nat /\ n \in Nat
  BY <1>2 DEF InOrder
<1>5. /\ b \in Seq(Event) /\ DOMAIN b = 1 .. Len(s) + Len(t)
      /\ DOMAIN s = 1 .. Len(s) /\ DOMAIN t = 1 .. Len(t)
      /\ \A i \in DOMAIN s : b[i] = s[i]
      /\ \A i \in DOMAIN t : b[Len(s) + i] = t[i]
  BY <1>2, <1>3, <1>4
<1>6. \A i \in DOMAIN b : i \in DOMAIN s \/ (i > Len(s) /\ i - Len(s) \in DOMAIN t /\ b[i] = t[i - Len(s)])
  BY <1>4, <1>5, SMTT(30)
<1>7. Range(b) = Range(s) \cup Range(t)
  <2>1. Range(b) \subseteq Range(s) \cup Range(t)
    BY <1>5, <1>6 DEF Range
  <2>2. Range(s) \cup Range(t) \subseteq Range(b)
    <3>1. \A i \in DOMAIN s : i \in DOMAIN b
      BY <1>4, <1>5
    <3>2. \A i \in DOMAIN t : Len(s) + i \in DOMAIN b
      BY <1>4, <1>5
    <3>3. QED
      BY <1>5, <3>1, <3>2 DEF Range
  <2>3. QED
    BY <2>1, <2>2
<1>8. \A e \in OnChain : e.ledger \in Nat
  BY AreEvents DEF OnChain, Event, Ledgers
<1>9. Range(b) = {e \in OnChain : l <= e.ledger /\ e.ledger <= n}
  BY <1>2, <1>4, <1>7, <1>8 DEF InOrder
<1>10. ASSUME NEW i \in DOMAIN b, NEW j \in DOMAIN b, i < j PROVE Before(b[i], b[j])
  <2>1. CASE i \in DOMAIN s /\ j \in DOMAIN s
    BY <1>5, <1>10, <2>1 DEF InOrder
  <2>2. CASE i \in DOMAIN s /\ j \notin DOMAIN s
    <3>1. s[i] \in Range(s)
      BY <2>2 DEF Range
    <3>2. s[i].ledger <= n - 1 /\ s[i].ledger \in Nat
      BY <1>8, <3>1 DEF InOrder
    <3>3. b[i] = s[i] /\ b[j].ledger = n
      BY <1>2, <1>5, <1>6, <2>2
    <3>4. QED
      BY <1>4, <3>2, <3>3 DEF Before
  <2>3. CASE i \notin DOMAIN s
    <3>1. j \notin DOMAIN s
      BY <1>4, <1>5, <1>10, <2>3
    <3>2. /\ b[i].ledger = n /\ b[j].ledger = n
          /\ b[i].index = i - Len(s) /\ b[j].index = j - Len(s)
      BY <1>2, <1>6, <2>3, <3>1
    <3>3. QED
      BY <1>4, <1>5, <1>10, <3>2 DEF Before
  <2>4. QED
    BY <2>1, <2>2, <2>3
<1>11. QED
  BY <1>1, <1>3, <1>5, <1>9, <1>10 DEF InOrder

\* A poll that is not cut off returns the chain from a ledger on, in order.
LEMMA FromInOrder ==
    ASSUME chain \in Seq(Ledger), Len(chain) <= MaxLedger, NEW l \in Nat
    PROVE  InOrder(EventsFrom(l), l, Len(chain))
<1>1. PICK f : f = Joined(l) /\ f = Joins(l, f)
  BY JoinsMeet, Zenon DEF Joined
<1>2. Len(chain) \in Nat /\ DOMAIN chain = 1 .. Len(chain)
  OBVIOUS
<1>3. /\ f[0] = <<>>
      /\ \A n \in 1 .. Len(chain) : f[n] = IF n < l THEN f[n - 1] ELSE f[n - 1] \o EventsOf(n)
  <2>1. f = [n \in 0 .. Len(chain) |->
                IF n = 0 THEN <<>>
                ELSE IF n < l THEN f[n - 1] ELSE f[n - 1] \o EventsOf(n)]
    BY <1>1, Zenon DEF Joins
  <2>2. 0 \in 0 .. Len(chain) /\ \A n \in 1 .. Len(chain) : n \in 0 .. Len(chain) /\ n # 0
    BY <1>2
  <2>3. QED
    BY <2>1, <2>2, Zenon
<1>4. \A e \in OnChain : e.ledger \in Nat /\ 1 <= e.ledger /\ e.ledger <= Len(chain)
  <2>1. \A m, i : At(chain, m, i).ledger = m
    BY DEF At
  <2>2. QED
    BY <1>2, <2>1 DEF OnChain, EventsIn
<1> DEFINE Good == {n \in Nat : n <= Len(chain) => InOrder(f[n], l, n)}
<1>5. 0 \in Good
  <2>1. PICK s : s = f[0]
    OBVIOUS
  <2>2. s \in Seq(Event) /\ DOMAIN s = {}
    BY <1>3, <2>1
  <2>3. Range(s) = {}
    BY <2>2 DEF Range
  <2>4. {e \in OnChain : l <= e.ledger /\ e.ledger <= 0} = {}
    BY <1>4
  <2>5. InOrder(s, l, 0)
    BY <2>2, <2>3, <2>4 DEF InOrder
  <2>6. QED
    BY <2>1, <2>5
<1>6. ASSUME NEW n \in Nat, n \in Good PROVE n + 1 \in Good
  <2> SUFFICES ASSUME n + 1 <= Len(chain) PROVE InOrder(f[n + 1], l, n + 1)
    OBVIOUS
  <2>1. InOrder(f[n], l, n) /\ n + 1 \in DOMAIN chain /\ (n + 1) - 1 = n
    BY <1>2, <1>6
  <2>2. PICK s : s = f[n]
    OBVIOUS
  <2>3. CASE n + 1 < l
    <3>1. f[n + 1] = s
      BY <1>2, <1>3, <2>1, <2>2, <2>3
    <3>2. InOrder(s, l, n)
      BY <2>1, <2>2
    <3>3. {e \in OnChain : l <= e.ledger /\ e.ledger <= n} = {e \in OnChain : l <= e.ledger /\ e.ledger <= n + 1}
      BY <1>4, <2>3
    <3>4. InOrder(s, l, n + 1)
      BY <3>2, <3>3 DEF InOrder
    <3>5. QED
      BY <3>1, <3>4
  <2>4. CASE ~(n + 1 < l)
    <3>1. f[n + 1] = s \o EventsOf(n + 1)
      BY <1>2, <1>3, <2>1, <2>2, <2>4
    <3>2. InOrder(s, l, (n + 1) - 1)
      BY <2>1, <2>2
    <3>3. InOrder(s \o EventsOf(n + 1), l, n + 1)
      BY <2>1, <2>4, <3>2, JoinNext
    <3>4. QED
      BY <3>1, <3>3
  <2>5. QED
    BY <2>3, <2>4
<1>7. Len(chain) \in Good
  <2> HIDE DEF Good
  <2>1. QED
    BY <1>2, <1>5, <1>6, Induction
<1>8. QED
  BY <1>1, <1>2, <1>7, FromIs

\* The lesser of two numbers.
LEMMA MinIs ==
    ASSUME NEW a \in Nat, NEW b \in Nat
    PROVE  Min({a, b}) \in {a, b} /\ Min({a, b}) <= a /\ Min({a, b}) <= b
<1>1. \E x \in {a, b} : \A y \in {a, b} : x <= y
  <2>1. CASE a <= b
    BY <2>1
  <2>2. CASE b <= a
    BY <2>2
  <2>3. QED
    BY <2>1, <2>2
<1>2. Min({a, b}) \in {a, b} /\ \A y \in {a, b} : Min({a, b}) <= y
  BY <1>1, Zenon DEF Min
<1>3. QED
  BY <1>2

\* What a poll leaves to do: a page of the chain in order, and the rest of its
\* last ledger, are all there is before the next cursor.
Polled(b, n, m) ==
    /\ b \in Seq(Event) /\ n \in Nat /\ n > cursor /\ n <= Len(chain) + 1
    /\ \A i, j \in DOMAIN b : i < j => Before(b[i], b[j])
    /\ Range(b) \cup m = {e \in OnChain : cursor <= e.ledger /\ e.ledger < n}

\* A poll takes a page and leaves nothing out before the next cursor.
LEMMA PolledIs ==
    ASSUME Types, Poll
    PROVE  /\ Polled(batch', next', missed')
           /\ pc' = IF batch' # <<>> THEN "handle" ELSE "hash"
<1>1. PICK all : all = EventsFrom(cursor)
  OBVIOUS
<1>2. PICK m : m = Min({Page, Len(all)})
  OBVIOUS
<1>3. PICK b : b = SubSeq(all, 1, m)
  OBVIOUS
<1>4. /\ cursor <= Len(chain)
      /\ b # <<>> \/ next' > cursor
      /\ batch' = b
      /\ next' = NextCursor(b, Len(chain))
      /\ missed' = {e \in Range(all) \ Range(b) : b # <<>> /\ e.ledger = Last(b).ledger}
      /\ pc' = IF b # <<>> THEN "handle" ELSE "hash"
  BY <1>1, <1>2, <1>3, Zenon DEF Poll
<1>5. /\ all \in Seq(Event)
      /\ Range(all) = {e \in OnChain : cursor <= e.ledger /\ e.ledger <= Len(chain)}
      /\ \A i, j \in DOMAIN all : i < j => Before(all[i], all[j])
  <2>1. InOrder(all, cursor, Len(chain))
    BY <1>1, FromInOrder DEF Types
  <2>2. QED
    BY <2>1 DEF InOrder
<1>6. Len(all) \in Nat /\ DOMAIN all = 1 .. Len(all) /\ cursor \in Nat /\ Len(chain) \in Nat
  BY <1>5 DEF Types
<1>7. m \in Nat /\ m <= Len(all) /\ (m = 0 => Len(all) = 0)
  BY <1>2, <1>6, MinIs, IndexerAssumption
<1>8. /\ b \in Seq(Event) /\ Len(b) = m /\ DOMAIN b = 1 .. m
      /\ \A i \in 1 .. m : b[i] = all[i]
  BY <1>3, <1>5, <1>6, <1>7
<1>9. \A e \in OnChain : e \in Event /\ e.ledger \in Nat /\ e.index \in Nat /\ e.ledger <= Len(chain)
  <2>1. OnChain \subseteq Event
    BY AreEvents DEF Types, OnChain
  <2>2. \A l, i : At(chain, l, i).ledger = l
    BY DEF At
  <2>3. \A e \in OnChain : e.ledger <= Len(chain)
    BY <2>2 DEF OnChain, EventsIn, Types
  <2>4. QED
    BY <2>1, <2>3 DEF Event, Ledgers
<1>10. Range(b) \subseteq Range(all)
  BY <1>6, <1>7, <1>8 DEF Range
<1>11. \A i, j \in DOMAIN b : i < j => Before(b[i], b[j])
  BY <1>5, <1>6, <1>7, <1>8
<1>12. CASE m = 0
  <2>1. b = <<>> /\ Range(all) = {} /\ Range(b) = {}
    BY <1>6, <1>7, <1>8, <1>12 DEF Range
  <2>2. next' = Len(chain) /\ missed' = {} /\ next' > cursor
    BY <1>4, <2>1 DEF NextCursor
  <2>3. {e \in OnChain : cursor <= e.ledger /\ e.ledger < next'} = {}
    BY <1>5, <1>6, <1>9, <2>1, <2>2
  <2>4. QED
    BY <1>4, <1>6, <1>8, <1>11, <2>1, <2>2, <2>3 DEF Polled
<1>13. CASE m # 0
  <2>1. PICK z : z = b[m]
    OBVIOUS
  <2>2. b # <<>> /\ Last(b) = z /\ z \in Range(all) /\ m \in DOMAIN all /\ all[m] = z
    BY <1>6, <1>7, <1>8, <1>13, <2>1 DEF Last, Range
  <2>3. next' = z.ledger + 1 /\ z.ledger \in Nat /\ cursor <= z.ledger /\ z.ledger <= Len(chain)
    BY <1>4, <1>5, <1>9, <2>2 DEF NextCursor
  <2>4. missed' = {e \in Range(all) \ Range(b) : e.ledger = z.ledger}
    BY <1>4, <2>2
  <2>5. ASSUME NEW e \in Range(b) PROVE e.ledger <= z.ledger
    <3>1. PICK i \in 1 .. m : e = all[i]
      BY <1>8 DEF Range
    <3>2. i = m \/ Before(e, z)
      BY <1>5, <1>6, <1>7, <2>2, <3>1
    <3>3. e \in OnChain /\ z \in OnChain
      BY <1>5, <1>10, <2>2
    <3>4. QED
      BY <1>9, <2>2, <3>1, <3>2, <3>3 DEF Before
  <2>6. ASSUME NEW e \in Range(all), e \notin Range(b) PROVE z.ledger <= e.ledger
    <3>1. PICK i \in DOMAIN all : e = all[i]
      BY DEF Range
    <3>2. i > m
      BY <1>6, <1>7, <1>8, <2>6, <3>1 DEF Range
    <3>3. Before(z, e)
      BY <1>5, <1>6, <1>7, <2>2, <3>1, <3>2
    <3>4. e \in OnChain /\ z \in OnChain
      BY <1>5, <2>2
    <3>5. QED
      BY <1>9, <3>3, <3>4 DEF Before
  <2>7. Range(b) \cup missed' \subseteq {e \in OnChain : cursor <= e.ledger /\ e.ledger < next'}
    BY <1>5, <1>9, <1>10, <2>3, <2>4, <2>5
  <2>8. ASSUME NEW e \in OnChain, cursor <= e.ledger, e.ledger < next'
        PROVE  e \in Range(b) \cup missed'
    <3>1. e \in Range(all) /\ e.ledger <= z.ledger
      BY <1>5, <1>9, <2>3, <2>8
    <3>2. CASE e \notin Range(b)
      BY <1>9, <2>3, <2>4, <2>6, <3>1, <3>2
    <3>3. QED
      BY <3>2
  <2>9. QED
    BY <1>4, <1>6, <1>8, <1>11, <2>2, <2>3, <2>7, <2>8 DEF Polled
<1>14. QED
  BY <1>12, <1>13

-----------------------------------------------------------------------------
(* What handling an event does to the batch and the rows.                     *)

\* The events on the chain have places of their own in it.
LEMMA ChainEvents ==
    ASSUME Types
    PROVE  /\ OnChain \subseteq Event
           /\ \A e \in OnChain : e.ledger <= Len(chain)
           /\ \A e \in OnChain, f \in OnChain :
                  e.ledger = f.ledger /\ e.index = f.index => e = f
<1>1. OnChain \subseteq Event
  BY AreEvents DEF Types, OnChain
<1>2. \A l, i : At(chain, l, i).ledger = l
  BY DEF At
<1>3. \A e \in OnChain : e.ledger <= Len(chain)
  BY <1>2 DEF OnChain, EventsIn, Types
<1>4. \A e \in OnChain, f \in OnChain : e.ledger = f.ledger /\ e.index = f.index => e = f
  BY OneEvent DEF OnChain
<1>5. QED
  BY <1>1, <1>3, <1>4

\* The fields of an event.
LEMMA EventNumbers ==
    \A e \in Event : /\ e.ledger \in Nat /\ e.ledger \in Ledgers /\ e.index \in Nat
                     /\ e.entity \in Entities /\ e.status \in Statuses
BY DEF Event, Ledgers

\* No status is that of a missing row.
LEMMA NoStatus == "none" \notin Statuses
BY DEF Statuses, Status, Kinds, First, Later

\* The first event of an ordered batch, and the rest.
LEMMA HeadIs ==
    ASSUME NEW s \in Seq(Event), s # <<>>, \A i, j \in DOMAIN s : i < j => Before(s[i], s[j])
    PROVE  /\ Tail(s) \in Seq(Event) /\ (Tail(s) # <<>> <=> Len(s) > 1)
           /\ \A i, j \in DOMAIN Tail(s) : i < j => Before(Tail(s)[i], Tail(s)[j])
           /\ Head(s) \in Range(s) /\ Head(s) \in Event
           /\ Range(Tail(s)) = Range(s) \ {Head(s)}
           /\ \A e \in Range(Tail(s)) : Before(Head(s), e)
<1>1. PICK t : t = Tail(s)
  OBVIOUS
<1>2. PICK h : h = Head(s)
  OBVIOUS
<1>3. /\ Len(s) \in Nat /\ Len(s) > 0 /\ DOMAIN s = 1 .. Len(s) /\ h = s[1]
      /\ t \in Seq(Event) /\ Len(t) = Len(s) - 1 /\ DOMAIN t = 1 .. Len(s) - 1
      /\ \A i \in DOMAIN t : t[i] = s[i + 1]
  BY <1>1, <1>2
<1>4. t # <<>> <=> Len(s) > 1
  BY <1>3
<1>5. \A i, j \in DOMAIN t : i < j => Before(t[i], t[j])
  <2>1. \A i \in DOMAIN t : i \in Nat /\ i + 1 \in DOMAIN s
    BY <1>3
  <2>2. QED
    BY <1>3, <2>1
<1>6. h \in Range(s) /\ h \in Event
  BY <1>3 DEF Range
<1>7. \A e \in Range(t) : Before(h, e) /\ e \in Range(s)
  <2>1. ASSUME NEW i \in DOMAIN t PROVE Before(h, t[i]) /\ i + 1 \in DOMAIN s /\ t[i] = s[i + 1]
    BY <1>3
  <2>2. QED
    BY <2>1 DEF Range
<1>8. ASSUME NEW e \in Range(s), e # h PROVE e \in Range(t)
  <2>1. PICK i \in DOMAIN s : e = s[i]
    BY DEF Range
  <2>2. i - 1 \in DOMAIN t /\ t[i - 1] = e
    BY <1>3, <1>8, <2>1
  <2>3. QED
    BY <2>2 DEF Range
<1>9. ~Before(h, h)
  BY <1>6, EventNumbers DEF Before
<1>10. Range(t) = Range(s) \ {h}
  BY <1>7, <1>8, <1>9
<1>11. QED
  BY <1>1, <1>2, <1>3, <1>4, <1>5, <1>6, <1>7, <1>10

\* What an event does to the row of its entity; no other row changes.
LEMMA AppliedIs ==
    ASSUME rows \in [Entities -> Row], NEW e \in Event, NEW r, r = Applied(e)
    PROVE  /\ r \in [Entities -> Row]
           /\ \A en \in Entities : en # e.entity => r[en] = rows[en]
           /\ rows[e.entity] = NoRow =>
                  IF Creation(e) THEN /\ r[e.entity] # NoRow /\ r[e.entity].status = e.status
                                      /\ r[e.entity].ledger = e.ledger
                  ELSE r[e.entity] = NoRow
           /\ rows[e.entity] # NoRow =>
                  /\ r[e.entity] # NoRow /\ r[e.entity].ledger = rows[e.entity].ledger
                  /\ r[e.entity].status = IF Creation(e) THEN rows[e.entity].status ELSE e.status
<1>1. /\ e.entity \in Entities /\ e.status \in Statuses /\ e.ledger \in Nat /\ e.ledger # 0
      /\ rows[e.entity] \in Row
  BY EventNumbers DEF Ledgers
<1> DEFINE new == [status |-> e.status, ledger |-> e.ledger]
           set == [rows[e.entity] EXCEPT !.status = e.status]
<1>2. new \in Row /\ new # NoRow /\ new.status = e.status /\ new.ledger = e.ledger
  BY <1>1, NoStatus DEF Row, NoRow
<1>3. /\ set \in Row /\ set # NoRow /\ set.status = e.status
      /\ set.ledger = rows[e.entity].ledger
  BY <1>1, NoStatus DEF Row, NoRow
<1>4. CASE Creation(e) /\ rows[e.entity] = NoRow
  <2>1. r = [rows EXCEPT ![e.entity] = new]
    BY <1>4 DEF Applied, Creation
  <2> HIDE DEF new
  <2>2. QED
    BY <1>1, <1>2, <1>4, <2>1
<1>5. CASE Creation(e) /\ rows[e.entity] # NoRow
  BY <1>1, <1>5 DEF Applied, Creation
<1>6. CASE ~Creation(e) /\ rows[e.entity] = NoRow
  BY <1>1, <1>6 DEF Applied, Creation
<1>7. CASE ~Creation(e) /\ rows[e.entity] # NoRow
  <2>1. r = [rows EXCEPT ![e.entity] = set]
    BY <1>7 DEF Applied, Creation
  <2> HIDE DEF set
  <2>2. QED
    BY <1>1, <1>3, <1>7, <2>1
<1>8. QED
  BY <1>4, <1>5, <1>6, <1>7

-----------------------------------------------------------------------------
(* The types.                                                                 *)

LEMMA ReorgTypes ==
    ASSUME Types, NEW l \in DOMAIN chain, Reorg(l)
    PROVE  Types'
<1>1. chain \in Seq(Ledger) /\ l \in 1 .. Len(chain) /\ Len(chain) \in Nat
  BY DEF Types
<1>2. chain' \in Seq(Ledger) /\ Len(chain') <= Len(chain) /\ Len(chain') = l - 1
  BY <1>1 DEF Reorg
<1>3. \A e \in Range(EventsFrom(l)) : e.entity \in Entities
  <2>1. InOrder(EventsFrom(l), l, Len(chain))
    BY <1>1, FromInOrder DEF Types
  <2>2. Range(EventsFrom(l)) \subseteq OnChain
    BY <2>1 DEF InOrder
  <2>3. QED
    BY <2>2, ChainEvents, EventNumbers
<1>4. orphaned' \subseteq Entities
  BY <1>3 DEF Reorg, Types
<1>5. dirty' \subseteq Ledgers
  <2>1. {k \in l .. MaxLedger : Touched(k)} \subseteq Ledgers
    BY <1>1, IndexerAssumption DEF Ledgers
  <2>2. QED
    BY <2>1 DEF Reorg, Types
<1>6. forks' \in Nat /\ Len(chain') <= MaxLedger
  BY <1>1, <1>2, IndexerAssumption DEF Reorg, Types
<1>7. UNCHANGED <<saved, hashes, raw, rows, batch, next, missed, from, stage, cursor, pc, lost, faults>>
  BY DEF Reorg, dbVars, batchVars, undoVars
<1>8. QED
  BY <1>2, <1>4, <1>5, <1>6, <1>7 DEF Types

LEMMA CloseTypes ==
    ASSUME Types, NEW changes \in Seq(Change), CloseLedger(changes)
    PROVE  Types'
<1>1. /\ chain \in Seq(Ledger) /\ Len(chain) < MaxLedger /\ Len(chain) \in Nat
      /\ [hash |-> forks + 1, events |-> changes] \in Ledger
  BY DEF CloseLedger, Types, Ledger
<1>2. chain' \in Seq(Ledger) /\ Len(chain') = Len(chain) + 1
  BY <1>1 DEF CloseLedger
<1>3. QED
  BY <1>1, <1>2, IndexerAssumption DEF CloseLedger, Types, dbVars, batchVars, undoVars

LEMMA DetectTypes ==
    ASSUME Types, DetectReorg
    PROVE  Types' /\ from' \in Ledgers /\ from' < cursor
<1>1. PICK seen \in SUBSET Mismatched : seen # {} /\ from' = Min(seen)
  BY DEF DetectReorg
<1>2. \A l \in Mismatched : l \in Ledgers /\ l < cursor /\ l \in Nat
  BY IndexerAssumption DEF Mismatched, Types, Ledgers
<1>3. \E x \in seen : \A y \in seen : x <= y
  <2>1. seen \in SUBSET Nat /\ seen # {}
    BY <1>1, <1>2
  <2>2. QED
    BY <2>1, Least
<1>4. Min(seen) \in seen
  BY <1>3, Zenon DEF Min
<1>5. from' \in Ledgers /\ from' < cursor /\ from' \in Nat
  BY <1>1, <1>2, <1>4
<1>6. {k \in from' .. MaxLedger : Touched(k)} \subseteq Ledgers
  BY <1>5, IndexerAssumption DEF Ledgers
<1>7. QED
  BY <1>5, <1>6 DEF DetectReorg, Types, nodeVars, dbVars, batchVars

LEMMA DeleteTypes ==
    ASSUME Types, Delete
    PROVE  Types'
<1>1. rows' \in [Entities -> Row]
  BY NoStatus DEF Delete, Types, Row, NoRow
<1>2. hashes' \in [Ledgers -> Nat]
  BY DEF Delete, Types, NoHash
<1>3. raw' \subseteq Event /\ stage' \in Nat
  BY DEF Delete, Types
<1>4. QED
  BY <1>1, <1>2, <1>3 DEF Delete, Types, nodeVars, batchVars

LEMMA ResetTypes ==
    ASSUME Types, ResetCursor
    PROVE  Types'
<1>1. /\ saved' \in Nat /\ cursor' \in Nat /\ dirty' \subseteq Ledgers /\ lost' \subseteq Event
      /\ pc' = "idle" /\ from' = 0 /\ stage' = 0
  BY DEF ResetCursor, ReindexFrom, Types
<1>2. QED
  BY <1>1 DEF ResetCursor, Types, nodeVars, batchVars

LEMMA PollTypes ==
    ASSUME Types, Poll
    PROVE  Types'
<1>1. Polled(batch', next', missed') /\ pc' \in {"handle", "hash"}
  BY PolledIs
<1>2. batch' \in Seq(Event) /\ next' \in Nat /\ missed' \subseteq Event
  BY <1>1, ChainEvents DEF Polled
<1>3. QED
  BY <1>1, <1>2 DEF Poll, Types, nodeVars, dbVars, undoVars

LEMMA HandleTypes ==
    ASSUME Types, Place, Ordered, NEW rowDone \in BOOLEAN, NEW rawDone \in BOOLEAN,
           Handle(rowDone, rawDone), faults' \in Nat
    PROVE  Types'
<1>1. batch # <<>> /\ batch \in Seq(Event)
  BY DEF Handle, Place, Types
<1>2. PICK e : e = Head(batch)
  OBVIOUS
<1>3. e \in Event /\ batch' \in Seq(Event)
  BY <1>1, <1>2, HeadIs DEF Handle, Ordered
<1>4. rows' \in [Entities -> Row]
  BY <1>2, <1>3, AppliedIs DEF Handle, Types
<1>5. raw' \subseteq Event /\ missed' \subseteq Event
  BY <1>2, <1>3 DEF Handle, Types, Recorded
<1>6. pc' \in {"handle", "hash", "idle"}
  BY DEF Handle, AfterEvent
<1>7. QED
  BY <1>3, <1>4, <1>5, <1>6 DEF Handle, Types, nodeVars, undoVars

LEMMA OtherTypes ==
    ASSUME Types,
           SaveHash \/ SaveCursor \/ Restart \/ HashFails \/ RollbackFails \/ Crash
    PROVE  Types'
<1>1. CASE SaveHash
  <2>1. hashes' \in [Ledgers -> Nat]
    <3>1. CASE next - 1 \in DOMAIN chain
      <4>1. chain[next - 1] \in Ledger
        BY <3>1 DEF Types
      <4>2. chain[next - 1].hash \in Nat
        BY <4>1 DEF Ledger
      <4>3. QED
        BY <1>1, <3>1, <4>2 DEF SaveHash, Types
    <3>2. CASE next - 1 \notin DOMAIN chain
      BY <1>1, <3>2 DEF SaveHash, Types
    <3>3. QED
      BY <3>1, <3>2
  <2>2. QED
    BY <1>1, <2>1 DEF SaveHash, Types, nodeVars, batchVars, undoVars
<1>2. CASE SaveCursor
  BY <1>2 DEF SaveCursor, Types, nodeVars, undoVars
<1>3. CASE Restart
  BY <1>3 DEF Restart, Types, nodeVars, dbVars, batchVars, undoVars
<1>4. CASE HashFails
  BY <1>4, IndexerAssumption DEF HashFails, Fault, Types, nodeVars, dbVars, batchVars, undoVars
<1>5. CASE RollbackFails
  BY <1>5 DEF RollbackFails, Fault, Types, nodeVars, dbVars, batchVars
<1>6. CASE Crash
  <2>1. batch' \in Seq(Event)
    BY <1>6 DEF Crash
  <2>2. QED
    BY <1>6, <2>1 DEF Crash, Fault, Types, nodeVars, dbVars
<1>7. QED
  BY <1>1, <1>2, <1>3, <1>4, <1>5, <1>6

-----------------------------------------------------------------------------
(* The steps of the node.                                                     *)

\* The published statuses of an entity are those of its events.
Had(en, st) == \E e \in OnChain : e.entity = en /\ e.status = st
Mentioned(en, st) == \E l \in DOMAIN chain : st \in Published(en, chain[l].events)

LEMMA KindsOnChain ==
    ASSUME Types, NEW en, NEW st
    PROVE  Mentioned(en, st) <=> Had(en, st)
<1>1. ASSUME NEW l \in DOMAIN chain, st \in Published(en, chain[l].events)
      PROVE  \E e \in OnChain : e.entity = en /\ e.status = st
  <2>1. PICK i \in DOMAIN chain[l].events : /\ chain[l].events[i].entity = en
                                            /\ chain[l].events[i].status = st
    BY <1>1 DEF Published, Range
  <2>2. At(chain, l, i) \in OnChain
    BY DEF OnChain, EventsIn
  <2>3. QED
    BY <2>1, <2>2 DEF At
<1>2. ASSUME NEW e \in OnChain, e.entity = en, e.status = st
      PROVE  \E l \in DOMAIN chain : st \in Published(en, chain[l].events)
  <2>1. PICK l \in DOMAIN chain : \E i \in DOMAIN chain[l].events : e = At(chain, l, i)
    BY DEF OnChain, EventsIn
  <2>2. PICK i \in DOMAIN chain[l].events : e = At(chain, l, i)
    BY <2>1
  <2>3. /\ e.entity = chain[l].events[i].entity /\ e.status = chain[l].events[i].status
    BY <2>2 DEF At
  <2>4. QED
    BY <1>2, <2>3 DEF Published, Range
<1>3. QED
  BY <1>1, <1>2 DEF Had, Mentioned


\* The entity had the status on the chain or in the changes before i.
Said(changes, i, en, s) ==
    \/ \E j \in DOMAIN changes : j < i /\ changes[j].entity = en /\ changes[j].status = s
    \/ \E e \in OnChain : e.entity = en /\ e.status = s

\* What a ledger's change must not repeat: what the entity already published.
LEMMA LegalChange ==
    ASSUME Types, NEW changes \in Seq(Change), Legal(changes), NEW i \in DOMAIN changes,
           NEW en, en = changes[i].entity, NEW st, st = changes[i].status
    PROVE  /\ (\A s : ~Said(changes, i, en, s)) => st = First[KindOf[en]]
           /\ ~Said(changes, i, en, st)
<1> DEFINE before == Published(en, SubSeq(changes, 1, i - 1)) \cup
                     UNION {Published(en, chain[l].events) : l \in DOMAIN chain}
<1>1. IF before = {} THEN st = First[KindOf[en]] ELSE st \notin before
  BY DEF Legal
<1>2. PICK sub : sub = SubSeq(changes, 1, i - 1)
  OBVIOUS
<1>3. /\ i \in Nat /\ DOMAIN sub = {j \in DOMAIN changes : j < i}
      /\ \A j \in DOMAIN sub : sub[j] = changes[j]
  BY <1>2
<1>4. \A s : s \in Published(en, sub) <=>
                \E j \in DOMAIN changes : j < i /\ changes[j].entity = en /\ changes[j].status = s
  BY <1>3 DEF Published, Range
<1>5. \A s : s \in UNION {Published(en, chain[l].events) : l \in DOMAIN chain} <=>
                \E e \in OnChain : e.entity = en /\ e.status = s
  <2>1. \A s : s \in UNION {Published(en, chain[l].events) : l \in DOMAIN chain} <=>
                  \E l \in DOMAIN chain : s \in Published(en, chain[l].events)
    OBVIOUS
  <2>2. \A s : Mentioned(en, s) <=> Had(en, s)
    BY KindsOnChain
  <2>3. QED
    BY <2>1, <2>2, Zenon DEF Had, Mentioned
<1>6. \A s : s \in before <=> Said(changes, i, en, s)
  BY <1>2, <1>4, <1>5 DEF Said
<1> HIDE DEF before
<1>7. QED
  BY <1>1, <1>6

\* The first change a legal ledger makes of an entity new to the chain creates it.
LEMMA FirstChange ==
    ASSUME Types, NEW changes \in Seq(Change), Legal(changes), NEW i \in DOMAIN changes,
           \A e \in OnChain : e.entity # changes[i].entity
    PROVE  \E j \in DOMAIN changes : /\ j <= i /\ changes[j].entity = changes[i].entity
                                     /\ changes[j].status = First[KindOf[changes[i].entity]]
<1>1. PICK S : S = {j \in DOMAIN changes : changes[j].entity = changes[i].entity}
  OBVIOUS
<1>2. S \in SUBSET Nat /\ i \in S
  BY <1>1
<1>3. PICK j \in S : \A k \in S : j <= k
  BY <1>2, Least
<1>4. PICK st : st = changes[j].status
  OBVIOUS
<1>5. PICK en : en = changes[j].entity
  OBVIOUS
<1>6. j \in DOMAIN changes /\ en = changes[i].entity /\ j <= i
  BY <1>1, <1>2, <1>3, <1>5
<1>7. (\A s : ~Said(changes, j, en, s)) => st = First[KindOf[en]]
  BY <1>4, <1>5, <1>6, LegalChange
<1>8. \A k \in DOMAIN changes : changes[k].entity = en => ~(k < j)
  BY <1>1, <1>2, <1>3, <1>6
<1>9. \A s : ~Said(changes, j, en, s)
  BY <1>6, <1>8 DEF Said
<1>10. QED
  BY <1>4, <1>5, <1>6, <1>7, <1>9

\* A change that creates is the first of its entity.
LEMMA CreatesFirst ==
    ASSUME Types, Created, NEW changes \in Seq(Change), Legal(changes), NEW i \in DOMAIN changes,
           changes[i].status = First[KindOf[changes[i].entity]]
    PROVE  /\ \A j \in DOMAIN changes : changes[j].entity = changes[i].entity => ~(j < i)
           /\ \A e \in OnChain : e.entity # changes[i].entity
<1>1. PICK en : en = changes[i].entity
  OBVIOUS
<1>2. PICK st : st = changes[i].status
  OBVIOUS
<1>3. ~Said(changes, i, en, st)
  BY <1>1, <1>2, LegalChange
<1>4. \A e \in OnChain : e.entity # en
  <2> SUFFICES ASSUME NEW e \in OnChain, e.entity = en PROVE FALSE
    OBVIOUS
  <2>1. PICK c \in OnChain : c.entity = en /\ Creation(c)
    BY DEF Created
  <2>2. c.status = st
    BY <1>1, <1>2, <2>1 DEF Creation
  <2>3. QED
    BY <1>3, <2>1, <2>2 DEF Said
<1>5. ASSUME NEW j \in DOMAIN changes, changes[j].entity = en, j < i PROVE FALSE
  <2>1. PICK k \in DOMAIN changes : /\ k <= j /\ changes[k].entity = changes[j].entity
                                    /\ changes[k].status = First[KindOf[changes[j].entity]]
    BY <1>4, <1>5, FirstChange
  <2>2. k < i /\ changes[k].status = st
    BY <1>1, <1>2, <1>5, <2>1
  <2>3. QED
    BY <1>3, <1>5, <2>1, <2>2 DEF Said
<1>6. QED
  BY <1>1, <1>4, <1>5

\* A closed ledger adds events; it has not been passed unless it is dirty.
LEMMA CloseFacts ==
    ASSUME Types, Created, Gone, NEW changes \in Seq(Change), CloseLedger(changes)
    PROVE  /\ OnChain \subseteq OnChain' /\ Len(chain') = Len(chain) + 1
           /\ \A e \in OnChain' \ OnChain :
                  /\ e.ledger = Len(chain) + 1
                  /\ \E i \in DOMAIN changes : e.index = i /\ e.entity = changes[i].entity
                                               /\ e.status = changes[i].status
                  /\ e.ledger \in dirty \/ ~(e.ledger < saved \/ e.ledger < next)
           /\ \A i \in DOMAIN changes : \E e \in OnChain' :
                  e.entity = changes[i].entity /\ e.status = changes[i].status
<1>1. PICK r : r = [hash |-> forks + 1, events |-> changes]
  OBVIOUS
<1>2. r \in Ledger /\ r.events = changes
  BY <1>1 DEF Ledger, Types
<1>3. chain \in Seq(Ledger) /\ Len(chain) < MaxLedger /\ Len(chain) \in Nat
  BY DEF Types, CloseLedger
<1>4. OnChain' = EventsIn(Append(chain, r))
  BY <1>1 DEF CloseLedger, OnChain
<1>5. Len(chain') = Len(chain) + 1
  BY <1>1, <1>2, <1>3 DEF CloseLedger
<1>6. /\ OnChain \subseteq OnChain'
      /\ \A e \in OnChain' \ OnChain :
            \E i \in DOMAIN changes :
                /\ e.ledger = Len(chain) + 1 /\ e.index = i
                /\ e.entity = changes[i].entity /\ e.status = changes[i].status
      /\ \A i \in DOMAIN changes : At(Append(chain, r), Len(chain) + 1, i) \in OnChain'
  BY <1>2, <1>3, <1>4, LedgerMore DEF OnChain
<1>7. \A i \in DOMAIN changes :
         /\ At(Append(chain, r), Len(chain) + 1, i).entity = changes[i].entity
         /\ At(Append(chain, r), Len(chain) + 1, i).status = changes[i].status
  BY <1>2, <1>3 DEF At
<1>8. \A e \in OnChain' \ OnChain : e.ledger \in dirty \/ ~(e.ledger < saved \/ e.ledger < next)
  <2>1. Len(chain) + 1 \in Ledgers
    BY <1>3, IndexerAssumption DEF Ledgers
  <2>2. QED
    BY <1>3, <1>6, <2>1 DEF Gone
<1>9. QED
  BY <1>5, <1>6, <1>7, <1>8

\* ... and creates what is new before it changes it.
LEMMA CloseCreates ==
    ASSUME Types, Created, Gone, NEW changes \in Seq(Change), CloseLedger(changes)
    PROVE  Created'
<1>1. /\ OnChain \subseteq OnChain'
      /\ \A e \in OnChain' \ OnChain :
            /\ e.ledger = Len(chain) + 1
            /\ \E i \in DOMAIN changes : e.index = i /\ e.entity = changes[i].entity
                                         /\ e.status = changes[i].status
      /\ \A i \in DOMAIN changes : \E e \in OnChain' :
            e.entity = changes[i].entity /\ e.status = changes[i].status
  BY CloseFacts
<1>2. Legal(changes)
  BY DEF CloseLedger
<1>3. ASSUME NEW e \in OnChain'
      PROVE  \E c \in OnChain' : c.entity = e.entity /\ c.status = First[KindOf[c.entity]]
  <2>1. CASE \E f \in OnChain : f.entity = e.entity
    <3>1. PICK f \in OnChain : f.entity = e.entity
      BY <2>1
    <3>2. PICK c \in OnChain : c.entity = f.entity /\ Creation(c)
      BY DEF Created
    <3>3. QED
      BY <1>1, <3>1, <3>2 DEF Creation
  <2>2. CASE \A f \in OnChain : f.entity # e.entity
    <3>1. PICK i \in DOMAIN changes : e.entity = changes[i].entity
      BY <1>1, <2>2
    <3>2. PICK j \in DOMAIN changes : /\ changes[j].entity = changes[i].entity
                                      /\ changes[j].status = First[KindOf[changes[i].entity]]
      BY <1>2, <2>2, <3>1, FirstChange
    <3>3. PICK c \in OnChain' : c.entity = changes[j].entity /\ c.status = changes[j].status
      BY <1>1
    <3>4. QED
      BY <3>1, <3>2, <3>3
  <2>3. QED
    BY <2>1, <2>2
<1>4. ASSUME NEW c \in OnChain', NEW f \in OnChain', c.status = First[KindOf[c.entity]],
             f.entity = c.entity
      PROVE  ~Before(f, c)
  <2>1. CASE c \in OnChain /\ f \in OnChain
    BY <1>4, <2>1 DEF Created, Creation
  <2>2. CASE c \in OnChain /\ f \notin OnChain
    <3>1. f.ledger = Len(chain) + 1 /\ c.ledger <= Len(chain) /\ c.ledger \in Nat
      BY <1>1, <2>2, ChainEvents, EventNumbers
    <3>2. Len(chain) \in Nat
      BY DEF Types
    <3>3. QED
      BY <3>1, <3>2 DEF Before
  <2>3. CASE c \notin OnChain
    <3>1. PICK i \in DOMAIN changes : c.index = i /\ c.entity = changes[i].entity
                                      /\ c.status = changes[i].status
      BY <1>1, <2>3
    <3>2. /\ \A j \in DOMAIN changes : changes[j].entity = changes[i].entity => ~(j < i)
          /\ \A e \in OnChain : e.entity # changes[i].entity
      BY <1>2, <1>4, <3>1, CreatesFirst
    <3>3. f \notin OnChain
      BY <1>4, <3>1, <3>2
    <3>4. PICK j \in DOMAIN changes : f.index = j /\ f.entity = changes[j].entity
      BY <1>1, <3>3
    <3>5. ~(f.index < c.index)
      BY <1>4, <3>1, <3>2, <3>4
    <3>6. f.ledger = Len(chain) + 1 /\ c.ledger = Len(chain) + 1 /\ Len(chain) \in Nat
      BY <1>1, <2>3, <3>3 DEF Types
    <3>7. QED
      BY <3>5, <3>6 DEF Before
  <2>4. QED
    BY <2>1, <2>2, <2>3
<1>5. QED
  BY <1>3, <1>4 DEF Created, Creation, Before

LEMMA CloseKeeps ==
    ASSUME IndInv, NEW changes \in Seq(Change), CloseLedger(changes)
    PROVE  IndInv'
<1>1. /\ OnChain \subseteq OnChain' /\ Len(chain') = Len(chain) + 1 /\ Len(chain) \in Nat
      /\ \A e \in OnChain' \ OnChain :
            e.ledger \in dirty \/ ~(e.ledger < saved \/ e.ledger < next)
  BY CloseFacts DEF IndInv, Types
<1>2. /\ saved' = saved /\ hashes' = hashes /\ raw' = raw /\ rows' = rows
      /\ batch' = batch /\ next' = next /\ missed' = missed /\ from' = from /\ stage' = stage
      /\ forks' = forks /\ orphaned' = orphaned /\ cursor' = cursor /\ pc' = pc /\ lost' = lost
      /\ dirty' = dirty /\ faults' = faults
  BY DEF CloseLedger, dbVars, batchVars, undoVars
<1>3. Types' /\ Created'
  BY CloseTypes, CloseCreates DEF IndInv
<1>4. Place' /\ Undoing'
  BY <1>2 DEF IndInv, Place, Undoing
<1>5. Sound'
  BY <1>1, <1>2 DEF IndInv, Sound
<1>6. Complete'
  BY <1>1, <1>2 DEF IndInv, Complete
<1>7. Gone'
  BY <1>1, <1>2 DEF IndInv, Gone, Ledgers
<1>8. Ordered'
  BY <1>1, <1>2 DEF IndInv, Ordered, Before
<1>9. Kept'
  BY <1>1, <1>2 DEF IndInv, Kept, Creation
<1>10. Mirrored'
  <2>1. \A e : Handled(e)' <=> Handled(e)
    BY <1>2 DEF Handled, Passed
  <2>2. \A e \in OnChain' : Handled(e) => e \in OnChain
    BY <1>1 DEF Handled, Passed
  <2>3. QED
    BY <1>1, <1>2, <2>1, <2>2 DEF IndInv, Mirrored, Creation, Before
<1>11. QED
  BY <1>3, <1>4, <1>5, <1>6, <1>7, <1>8, <1>9, <1>10 DEF IndInv

\* A reorganisation drops events; their entities are orphaned, what was read is dirty.
LEMMA ReorgFacts ==
    ASSUME Types, NEW l \in DOMAIN chain, Reorg(l)
    PROVE  /\ OnChain' = {e \in OnChain : e.ledger < l}
           /\ \A e \in OnChain : e.entity \notin orphaned' => e \in OnChain'
           /\ orphaned \subseteq orphaned' /\ dirty \subseteq dirty'
           /\ \A k \in Ledgers : l <= k /\ Touched(k) => k \in dirty'
           /\ Len(chain') = l - 1 /\ l \in Nat
<1>1. chain \in Seq(Ledger) /\ l \in 1 .. Len(chain) /\ Len(chain) \in Nat /\ l \in Nat
  BY DEF Types
<1>2. chain' = SubSeq(chain, 1, l - 1) /\ Len(chain') = l - 1
  BY <1>1 DEF Reorg
<1>3. OnChain' = {e \in OnChain : e.ledger < l}
  <2>1. OnChain' = EventsIn(SubSeq(chain, 1, l - 1))
    BY <1>2 DEF OnChain
  <2>2. QED
    BY <1>1, <2>1, ChainCut DEF OnChain
<1>4. Range(EventsFrom(l)) = {e \in OnChain : l <= e.ledger /\ e.ledger <= Len(chain)}
  <2>1. InOrder(EventsFrom(l), l, Len(chain))
    BY <1>1, FromInOrder DEF Types
  <2>2. QED
    BY <2>1 DEF InOrder
<1>5. \A e \in OnChain : l <= e.ledger => e.entity \in orphaned'
  BY <1>4, ChainEvents DEF Reorg
<1>6. \A e \in OnChain : e.entity \notin orphaned' => e \in OnChain'
  BY <1>1, <1>3, <1>5, ChainEvents, EventNumbers
<1>7. orphaned \subseteq orphaned' /\ dirty \subseteq dirty'
  BY DEF Reorg
<1>8. \A k \in Ledgers : l <= k /\ Touched(k) => k \in dirty'
  BY <1>1, IndexerAssumption DEF Reorg, Ledgers
<1>9. QED
  BY <1>1, <1>2, <1>3, <1>6, <1>7, <1>8

LEMMA ReorgKeeps ==
    ASSUME IndInv, NEW l \in DOMAIN chain, Reorg(l)
    PROVE  IndInv'
<1>1. /\ OnChain' = {e \in OnChain : e.ledger < l}
      /\ \A e \in OnChain : e.entity \notin orphaned' => e \in OnChain'
      /\ orphaned \subseteq orphaned' /\ dirty \subseteq dirty'
      /\ \A k \in Ledgers : l <= k /\ Touched(k) => k \in dirty'
      /\ Len(chain') = l - 1 /\ l \in Nat
  BY ReorgFacts DEF IndInv
<1>2. /\ saved' = saved /\ hashes' = hashes /\ raw' = raw /\ rows' = rows
      /\ batch' = batch /\ next' = next /\ missed' = missed /\ from' = from /\ stage' = stage
      /\ cursor' = cursor /\ pc' = pc /\ lost' = lost /\ faults' = faults
  BY DEF Reorg, dbVars, batchVars, undoVars
<1>3. Types'
  BY ReorgTypes DEF IndInv
<1>4. /\ \A e \in OnChain : e.ledger \in Nat /\ e \in Event
      /\ \A e \in raw \cup Range(batch) : e.ledger \in Nat /\ e.ledger \in Ledgers
  <2>1. OnChain \subseteq Event /\ raw \subseteq Event /\ batch \in Seq(Event)
    BY ChainEvents DEF IndInv, Types
  <2>2. Range(batch) \subseteq Event
    BY <2>1 DEF Range
  <2>3. QED
    BY <2>1, <2>2, EventNumbers
<1>5. Place'
  BY <1>2 DEF IndInv, Place
<1>6. Undoing'
  BY <1>1, <1>2 DEF IndInv, Undoing
<1>7. Sound'
  <2> SUFFICES ASSUME NEW e \in raw \cup Range(batch), e.ledger \notin dirty'
               PROVE  e \in OnChain'
    BY <1>2 DEF Sound
  <2>1. e \in OnChain
    BY <1>1 DEF IndInv, Sound
  <2>2. Touched(e.ledger)
    BY DEF IndInv, Place, Touched
  <2>3. QED
    BY <1>1, <1>4, <2>1, <2>2
<1>8. Complete'
  BY <1>1, <1>2 DEF IndInv, Complete
<1>9. Gone'
  <2> SUFFICES ASSUME NEW k \in Ledgers, k > l - 1, k < saved \/ k < next
               PROVE  k \in dirty'
    BY <1>1, <1>2 DEF Gone
  <2>1. Touched(k) /\ l <= k
    BY <1>1 DEF Touched, Ledgers
  <2>2. QED
    BY <1>1, <2>1
<1>10. Created'
  <2>1. ASSUME NEW e \in OnChain'
        PROVE  \E c \in OnChain' : c.entity = e.entity /\ Creation(c)
    <3>1. PICK c \in OnChain : c.entity = e.entity /\ Creation(c)
      BY <1>1 DEF IndInv, Created
    <3>2. ~Before(e, c)
      BY <1>1, <3>1 DEF IndInv, Created
    <3>3. c.ledger < l
      BY <1>1, <1>4, <3>2 DEF Before
    <3>4. QED
      BY <1>1, <3>1, <3>3
  <2>2. ASSUME NEW c \in OnChain', NEW f \in OnChain', Creation(c), f.entity = c.entity
        PROVE  ~Before(f, c)
    BY <1>1, <2>2 DEF IndInv, Created
  <2>3. QED
    BY <2>1, <2>2 DEF Created, Creation, Before
<1>11. Ordered'
  BY <1>1, <1>2 DEF IndInv, Ordered, Before
<1>12. Kept'
  BY <1>1, <1>2 DEF IndInv, Kept, Creation
<1>13. Mirrored'
  <2>1. \A e : Handled(e)' => Handled(e)
    BY <1>1, <1>2 DEF Handled, Passed
  <2> SUFFICES ASSUME NEW c \in OnChain', c.entity \notin orphaned', Creation(c), Handled(c)
               PROVE  /\ rows[c.entity] # NoRow
                      /\ \A z \in OnChain' :
                            (z.entity = c.entity /\ Handled(z)
                               /\ \A f \in OnChain' : f.entity = c.entity => ~Before(z, f)) =>
                                rows[c.entity].status = z.status
    BY <1>2, <2>1 DEF Mirrored, Creation, Before
  <2>2. c \in OnChain /\ c.entity \notin orphaned
    BY <1>1
  <2>3. \A f \in OnChain : f.entity = c.entity => f \in OnChain'
    BY <1>1
  <2>4. QED
    BY <1>1, <2>2, <2>3 DEF IndInv, Mirrored
<1>14. QED
  BY <1>3, <1>5, <1>6, <1>7, <1>8, <1>9, <1>10, <1>11, <1>12, <1>13 DEF IndInv

-----------------------------------------------------------------------------
(* Steps that leave the events and the rows alone.                            *)

LEMMA StillKept ==
    ASSUME IndInv, chain' = chain, orphaned' = orphaned, raw' = raw, rows' = rows,
           batch' = batch, next' = next, missed' = missed, lost' = lost, saved' = saved,
           dirty \subseteq dirty'
    PROVE  (Sound /\ Complete /\ Gone /\ Created /\ Ordered /\ Kept /\ Mirrored)'
<1>1. OnChain' = OnChain
  BY DEF OnChain
<1>2. Sound' /\ Complete' /\ Gone'
  BY <1>1 DEF IndInv, Sound, Complete, Gone
<1>3. Created'
  BY <1>1 DEF IndInv, Created, Creation, Before
<1>4. Ordered'
  BY <1>1 DEF IndInv, Ordered, Before
<1>5. Kept'
  BY <1>1 DEF IndInv, Kept, Creation
<1>6. Mirrored'
  <2>1. \A e : Handled(e)' => Handled(e)
    BY DEF Handled, Passed
  <2>2. QED
    BY <1>1, <2>1 DEF IndInv, Mirrored, Creation, Before
<1>7. QED
  BY <1>2, <1>3, <1>4, <1>5, <1>6

LEMMA DetectKeeps ==
    ASSUME IndInv, DetectReorg
    PROVE  IndInv'
<1>1. /\ chain' = chain /\ orphaned' = orphaned /\ raw' = raw /\ rows' = rows
      /\ batch' = batch /\ next' = next /\ missed' = missed /\ lost' = lost /\ saved' = saved
      /\ cursor' = cursor /\ pc = "idle" /\ pc' = "rollback" /\ stage' = 1
      /\ dirty' = dirty \cup {k \in from' .. MaxLedger : Touched(k)}
  BY DEF DetectReorg, nodeVars, dbVars, batchVars
<1>2. Types' /\ from' \in Ledgers /\ from' < cursor
  BY DetectTypes DEF IndInv
<1>3. (Sound /\ Complete /\ Gone /\ Created /\ Ordered /\ Kept /\ Mirrored)'
  BY <1>1, StillKept
<1>4. Place'
  BY <1>1 DEF IndInv, Place
<1>5. Undoing'
  <2>1. cursor = saved
    BY <1>1 DEF IndInv, Place
  <2>2. \A k \in Ledgers : from' <= k /\ k < saved => k \in dirty'
    BY <1>1, <1>2, IndexerAssumption DEF Touched, Ledgers
  <2>3. QED
    BY <1>1, <1>2, <2>1, <2>2 DEF Undoing, Undone
<1>6. QED
  BY <1>2, <1>3, <1>4, <1>5 DEF IndInv

LEMMA OtherKeeps ==
    ASSUME IndInv, SaveHash \/ HashFails \/ RollbackFails \/ Restart
    PROVE  IndInv'
<1>1. /\ chain' = chain /\ orphaned' = orphaned /\ raw' = raw /\ rows' = rows
      /\ batch' = batch /\ next' = next /\ missed' = missed /\ lost' = lost /\ saved' = saved
      /\ dirty' = dirty
  BY DEF SaveHash, HashFails, RollbackFails, Restart, nodeVars, dbVars, batchVars, undoVars
<1>2. Types'
  BY OtherTypes DEF IndInv
<1>3. (Sound /\ Complete /\ Gone /\ Created /\ Ordered /\ Kept /\ Mirrored)'
  BY <1>1, StillKept
<1>4. Place' /\ Undoing'
  <2>1. CASE SaveHash \/ HashFails
    BY <1>1, <2>1 DEF IndInv, Place, Undoing, SaveHash, HashFails
  <2>2. CASE RollbackFails
    BY <1>1, <2>2 DEF IndInv, Place, Undoing, RollbackFails
  <2>3. CASE Restart
    BY <1>1, <2>3 DEF IndInv, Place, Undoing, Restart
  <2>4. QED
    BY <2>1, <2>2, <2>3
<1>5. QED
  BY <1>2, <1>3, <1>4 DEF IndInv

-----------------------------------------------------------------------------
(* Steps that do not.                                                         *)

\* What the loop holds at each place.
LEMMA BatchIs ==
    ASSUME Types, Place
    PROVE  /\ pc # "handle" => Range(batch) = {} /\ DOMAIN batch = {}
           /\ Range(batch) \subseteq Event
           /\ pc \notin {"handle", "hash", "cursor"} => next = 0 /\ missed = {}
           /\ pc # "down" => cursor = saved
<1>1. batch \in Seq(Event)
  BY DEF Types
<1>2. pc # "handle" => DOMAIN batch = {}
  BY <1>1 DEF Place
<1>3. QED
  BY <1>1, <1>2 DEF Place, Range

\* An entity is created once.
LEMMA OneCreation ==
    ASSUME Types, Created, NEW c \in OnChain, NEW d \in OnChain, Creation(c), Creation(d),
           c.entity = d.entity
    PROVE  c = d
<1>1. ~Before(c, d) /\ ~Before(d, c)
  BY DEF Created
<1>2. /\ c.ledger \in Nat /\ c.index \in Nat /\ d.ledger \in Nat /\ d.index \in Nat
  BY ChainEvents, EventNumbers
<1>3. c.ledger = d.ledger /\ c.index = d.index
  BY <1>1, <1>2 DEF Before
<1>4. QED
  BY <1>3, ChainEvents

LEMMA DeleteKeeps ==
    ASSUME IndInv, Delete
    PROVE  IndInv'
<1>1. /\ chain' = chain /\ orphaned' = orphaned
      /\ batch' = batch /\ next' = next /\ missed' = missed /\ lost' = lost /\ saved' = saved
      /\ dirty' = dirty /\ cursor' = cursor /\ pc = "rollback" /\ pc' = pc /\ from' = from
      /\ stage \in DOMAIN Undone /\ stage' = stage + 1
      /\ raw' = IF Undone[stage] = "events" THEN {e \in raw : e.ledger < from} ELSE raw
  BY DEF Delete, nodeVars, batchVars
<1>2. OnChain' = OnChain
  BY <1>1 DEF OnChain
<1>3. Types' /\ Types
  BY DeleteTypes DEF IndInv
<1>4. /\ Range(batch) = {} /\ next = 0 /\ missed = {}
      /\ from \in Ledgers /\ from < saved /\ stage \in 1 .. Len(Undone) + 1
      /\ \A k \in Ledgers : from <= k /\ k < saved => k \in dirty
      /\ stage > 1 => \A e \in raw : e.ledger < from
  BY <1>1, BatchIs DEF IndInv, Undoing
<1>5. \A en \in Entities :
         /\ rows'[en] = NoRow \/ rows'[en] = rows[en]
         /\ rows[en].ledger < from => rows'[en] = rows[en]
  <2>1. \A en \in Entities : rows[en].ledger \in Nat /\ from \in Nat
    BY <1>3 DEF Types, Row
  <2>2. QED
    BY <2>1 DEF Delete
<1>6. raw' \subseteq raw /\ \A e \in raw : e.ledger < from => e \in raw'
  BY <1>1
<1>7. \A e \in OnChain : e.ledger \in Nat /\ e.ledger \in Ledgers
  BY <1>3, ChainEvents, EventNumbers
<1>8. Place'
  BY <1>1 DEF IndInv, Place
<1>9. Undoing'
  <2>1. stage' \in 1 .. Len(Undone) + 1
    BY <1>1 DEF Undone
  <2>2. \A e \in raw' : e.ledger < from
    <3>1. CASE stage = 1
      BY <1>1, <3>1 DEF Undone
    <3>2. CASE stage > 1
      BY <1>4, <1>6, <3>2
    <3>3. QED
      BY <1>4, <3>1, <3>2
  <2>3. QED
    BY <1>1, <1>4, <2>1, <2>2 DEF Undoing, Undone
<1>10. Sound'
  BY <1>1, <1>2, <1>6 DEF IndInv, Sound
<1>11. Complete'
  <2> SUFFICES ASSUME NEW e \in OnChain, e.ledger \notin dirty, e.ledger < saved
               PROVE  e \in raw' \cup lost
    BY <1>1, <1>2, <1>4, <1>7 DEF Complete
  <2>1. e \in raw \cup lost
    BY DEF IndInv, Complete
  <2>2. e.ledger < from
    BY <1>4, <1>7 DEF Ledgers
  <2>3. QED
    BY <1>6, <2>1, <2>2
<1>12. Gone'
  BY <1>1 DEF IndInv, Gone
<1>13. Created'
  BY <1>2 DEF IndInv, Created, Creation, Before
<1>14. Ordered'
  BY <1>1, <1>2 DEF IndInv, Ordered, Before
<1>15. Kept'
  BY <1>1, <1>2, <1>5 DEF IndInv, Kept, Creation
<1>16. Mirrored'
  <2>1. \A e : Handled(e)' <=> Handled(e)
    BY <1>1 DEF Handled, Passed
  <2>2. ASSUME NEW c \in OnChain, c.entity \notin orphaned, Creation(c), Handled(c)
        PROVE  rows'[c.entity] = rows[c.entity]
    <3>1. c.ledger < from
      BY <1>4, <1>7, <2>2 DEF Handled, Passed, Ledgers
    <3>2. c.entity \in Entities
      BY <1>3, ChainEvents, EventNumbers
    <3>3. rows[c.entity] # NoRow
      BY <2>2 DEF IndInv, Mirrored
    <3>4. PICK d \in OnChain : d.entity = c.entity /\ Creation(d) /\ rows[c.entity].ledger = d.ledger
      BY <2>2, <3>2, <3>3 DEF IndInv, Kept
    <3>5. d = c
      BY <2>2, <3>4, OneCreation DEF IndInv
    <3>6. QED
      BY <1>5, <3>1, <3>2, <3>4, <3>5
  <2>3. QED
    BY <1>1, <1>2, <2>1, <2>2 DEF IndInv, Mirrored, Creation, Before
<1>17. QED
  BY <1>3, <1>8, <1>9, <1>10, <1>11, <1>12, <1>13, <1>14, <1>15, <1>16 DEF IndInv

LEMMA ResetKeeps ==
    ASSUME IndInv, ResetCursor
    PROVE  IndInv'
<1>1. /\ chain' = chain /\ orphaned' = orphaned /\ raw' = raw /\ rows' = rows
      /\ batch' = batch /\ next' = next /\ missed' = missed
      /\ pc = "rollback" /\ stage = Len(Undone) + 1
      /\ saved' = from /\ cursor' = from /\ pc' = "idle"
      /\ dirty' = {l \in dirty : l < from}
      /\ lost' = {e \in lost : e.ledger < from}
  BY DEF ResetCursor, ReindexFrom, nodeVars, batchVars
<1>2. OnChain' = OnChain
  BY <1>1 DEF OnChain
<1>3. Types' /\ Types
  BY ResetTypes DEF IndInv
<1>4. /\ Range(batch) = {} /\ next = 0 /\ missed = {}
      /\ from \in Ledgers /\ from < saved /\ from \in Nat /\ saved \in Nat
      /\ \A e \in raw : e.ledger < from
  BY <1>1, <1>3, BatchIs DEF IndInv, Undoing, Undone, Types
<1>5. \A e \in OnChain : e.ledger \in Nat
  BY <1>3, ChainEvents, EventNumbers
<1>6. Place'
  BY <1>1, <1>4 DEF IndInv, Place
<1>7. Undoing'
  BY <1>1 DEF Undoing
<1>8. Sound'
  BY <1>1, <1>2, <1>4 DEF IndInv, Sound
<1>9. Complete'
  <2>1. \A e \in OnChain : ~(e.ledger < next)
    BY <1>4, <1>5
  <2>2. \A e \in OnChain : e.ledger < from => e.ledger < saved
    BY <1>4, <1>5
  <2>3. QED
    BY <1>1, <1>2, <2>1, <2>2 DEF IndInv, Complete
<1>10. Gone'
  BY <1>1, <1>4 DEF IndInv, Gone, Ledgers
<1>11. Created'
  BY <1>2 DEF IndInv, Created, Creation, Before
<1>12. Ordered'
  <2>1. DOMAIN batch = {}
    BY <1>1, <1>3, BatchIs DEF IndInv
  <2>2. QED
    BY <1>1, <1>4, <2>1 DEF Ordered
<1>13. Kept'
  BY <1>1, <1>2 DEF IndInv, Kept, Creation
<1>14. Mirrored'
  <2>1. \A e \in OnChain : Handled(e)' => Handled(e)
    BY <1>1, <1>4, <1>5 DEF Handled, Passed
  <2>2. QED
    BY <1>1, <1>2, <2>1 DEF IndInv, Mirrored, Creation, Before
<1>15. QED
  BY <1>3, <1>6, <1>7, <1>8, <1>9, <1>10, <1>11, <1>12, <1>13, <1>14 DEF IndInv

LEMMA PollKeeps ==
    ASSUME IndInv, Poll
    PROVE  IndInv'
<1>1. /\ chain' = chain /\ orphaned' = orphaned /\ raw' = raw /\ rows' = rows
      /\ lost' = lost /\ saved' = saved /\ dirty' = dirty /\ cursor' = cursor /\ pc = "idle"
  BY DEF Poll, nodeVars, dbVars, undoVars
<1>2. OnChain' = OnChain
  BY <1>1 DEF OnChain
<1>3. Types' /\ Types
  BY PollTypes DEF IndInv
<1>4. /\ Polled(batch', next', missed')
      /\ pc' = IF batch' # <<>> THEN "handle" ELSE "hash"
  BY <1>3, PolledIs
<1>5. cursor = saved /\ Range(batch) = {} /\ next = 0 /\ missed = {}
  BY <1>1, <1>3, BatchIs DEF IndInv
<1>6. /\ next' > saved /\ next' <= Len(chain) + 1 /\ next' \in Nat /\ saved \in Nat
      /\ \A i, j \in DOMAIN batch' : i < j => Before(batch'[i], batch'[j])
      /\ Range(batch') \cup missed' = {e \in OnChain : saved <= e.ledger /\ e.ledger < next'}
  BY <1>3, <1>4, <1>5 DEF Polled, Types
<1>7. \A e \in OnChain : e.ledger \in Nat
  BY <1>3, ChainEvents, EventNumbers
<1>8. Range(batch)' = Range(batch')
  BY DEF Range
<1>9. Place'
  BY <1>1, <1>4, <1>5, <1>6, <1>8 DEF Place
<1>10. Undoing'
  BY <1>4 DEF Undoing
<1>11. Sound'
  BY <1>1, <1>2, <1>6, <1>8 DEF IndInv, Sound
<1>12. Complete'
  BY <1>1, <1>2, <1>6, <1>8 DEF IndInv, Complete
<1>13. Gone'
  <2>1. Len(chain) \in Nat
    BY <1>3 DEF Types
  <2>2. \A k \in Ledgers : k > Len(chain) => ~(k < next')
    BY <1>6, <2>1 DEF Ledgers
  <2>3. QED
    BY <1>1, <2>2 DEF IndInv, Gone
<1>14. Created'
  BY <1>2 DEF IndInv, Created, Creation, Before
<1>15. Ordered'
  <2>1. ASSUME NEW e \in Range(batch'), NEW z \in OnChain, Before(e, z), z.ledger < next'
        PROVE  z \in Range(batch') \cup missed'
    <3>1. e \in OnChain /\ saved <= e.ledger
      BY <1>6
    <3>2. saved <= z.ledger
      BY <1>6, <1>7, <2>1, <3>1 DEF Before
    <3>3. QED
      BY <1>6, <2>1, <3>2
  <2>2. QED
    BY <1>1, <1>2, <1>6, <1>8, <2>1 DEF Ordered, Before
<1>16. Kept'
  BY <1>1, <1>2, <1>6, <1>8 DEF IndInv, Kept, Creation
<1>17. Mirrored'
  <2>1. \A e \in OnChain : Handled(e)' => Handled(e)
    BY <1>1, <1>5, <1>6, <1>7, <1>8 DEF Handled, Passed
  <2>2. QED
    BY <1>1, <1>2, <2>1 DEF IndInv, Mirrored, Creation, Before
<1>18. QED
  BY <1>3, <1>9, <1>10, <1>11, <1>12, <1>13, <1>14, <1>15, <1>16, <1>17 DEF IndInv

LEMMA CrashKeeps ==
    ASSUME IndInv, Crash
    PROVE  IndInv'
<1>1. /\ chain' = chain /\ orphaned' = orphaned /\ raw' = raw /\ rows' = rows
      /\ lost' = lost /\ saved' = saved /\ dirty' = dirty
      /\ cursor' = 0 /\ pc' = "down" /\ batch' = <<>> /\ next' = 0 /\ missed' = {}
  BY DEF Crash, nodeVars, dbVars
<1>2. OnChain' = OnChain
  BY <1>1 DEF OnChain
<1>3. Types' /\ Types
  BY OtherTypes DEF IndInv
<1>4. Range(batch)' = {} /\ DOMAIN batch' = {}
  BY <1>1 DEF Range
<1>5. \A e \in OnChain : e.ledger \in Nat /\ saved \in Nat
  BY <1>3, ChainEvents, EventNumbers DEF Types
<1>6. Place' /\ Undoing' /\ Ordered'
  BY <1>1, <1>4 DEF Place, Undoing, Ordered
<1>7. Sound'
  BY <1>1, <1>2, <1>4 DEF IndInv, Sound
<1>8. Complete'
  <2>1. \A e \in OnChain : ~(e.ledger < next')
    BY <1>1, <1>5
  <2>2. QED
    BY <1>1, <1>2, <2>1 DEF IndInv, Complete
<1>9. Gone'
  BY <1>1 DEF IndInv, Gone, Ledgers
<1>10. Created'
  BY <1>2 DEF IndInv, Created, Creation, Before
<1>11. Kept'
  BY <1>1, <1>2, <1>4 DEF IndInv, Kept, Creation
<1>12. Mirrored'
  <2>1. \A e \in OnChain : Handled(e)' => Handled(e)
    <3>1. \A e \in missed : saved <= e.ledger
      BY DEF IndInv, Place
    <3>2. \A e \in OnChain : e.ledger < saved => e \notin missed
      BY <1>5, <3>1
    <3>3. QED
      BY <1>1, <1>5, <3>2 DEF Handled, Passed
  <2>2. QED
    BY <1>1, <1>2, <2>1 DEF IndInv, Mirrored, Creation, Before
<1>13. QED
  BY <1>3, <1>6, <1>7, <1>8, <1>9, <1>10, <1>11, <1>12 DEF IndInv

LEMMA SaveCursorKeeps ==
    ASSUME IndInv, SaveCursor
    PROVE  IndInv'
<1>1. /\ chain' = chain /\ orphaned' = orphaned /\ raw' = raw /\ rows' = rows
      /\ lost' = lost \cup missed /\ saved' = next /\ dirty' = dirty /\ batch' = batch
      /\ cursor' = next /\ pc = "cursor" /\ pc' = "idle" /\ next' = 0 /\ missed' = {}
  BY DEF SaveCursor, nodeVars, undoVars
<1>2. OnChain' = OnChain
  BY <1>1 DEF OnChain
<1>3. Types' /\ Types
  BY OtherTypes DEF IndInv
<1>4. Range(batch) = {} /\ DOMAIN batch = {} /\ cursor = saved
  BY <1>1, <1>3, BatchIs DEF IndInv
<1>5. \A e \in OnChain : e.ledger \in Nat /\ saved \in Nat /\ next \in Nat
  BY <1>3, ChainEvents, EventNumbers DEF Types
<1>6. Place' /\ Undoing' /\ Ordered'
  BY <1>1, <1>4 DEF IndInv, Place, Undoing, Ordered
<1>7. Sound'
  BY <1>1, <1>2 DEF IndInv, Sound
<1>8. Complete'
  <2>1. \A e \in OnChain : ~(e.ledger < next')
    BY <1>1, <1>5
  <2>2. \A e \in OnChain : e.ledger \notin dirty /\ e.ledger < next => e \in raw \cup lost \cup missed
    BY <1>4, <1>5 DEF IndInv, Complete
  <2>3. QED
    BY <1>1, <1>2, <2>1, <2>2 DEF Complete
<1>9. Gone'
  BY <1>1 DEF IndInv, Gone, Ledgers
<1>10. Created'
  BY <1>2 DEF IndInv, Created, Creation, Before
<1>11. Kept'
  BY <1>1, <1>2 DEF IndInv, Kept, Creation
<1>12. Mirrored'
  <2>1. \A e \in OnChain : Handled(e)' => Handled(e)
    BY <1>1, <1>4, <1>5 DEF Handled, Passed
  <2>2. QED
    BY <1>1, <1>2, <2>1 DEF IndInv, Mirrored, Creation, Before
<1>13. QED
  BY <1>3, <1>6, <1>7, <1>8, <1>9, <1>10, <1>11, <1>12 DEF IndInv

-----------------------------------------------------------------------------
(* Handling an event.                                                         *)

\* An event that comes after one still in the batch was not handled.
LEMMA NotLate ==
    ASSUME IndInv, NEW h \in Range(batch), NEW z \in OnChain, Handled(z)
    PROVE  ~Before(h, z)
<1> SUFFICES ASSUME Before(h, z) PROVE FALSE
  OBVIOUS
<1>1. h \in Event /\ z \in Event /\ saved \in Nat
  BY ChainEvents, BatchIs DEF IndInv, Types
<1>2. saved <= h.ledger
  BY DEF IndInv, Place
<1>3. ~(z.ledger < saved)
  BY <1>1, <1>2, EventNumbers DEF Before
<1>4. z.ledger < next /\ z \notin Range(batch) /\ z.ledger \notin dirty /\ z \notin missed
  BY <1>3 DEF Handled, Passed
<1>5. QED
  BY <1>4 DEF IndInv, Ordered

\* What Handle does, with the event it takes as h.
LEMMA HandleFacts ==
    ASSUME IndInv, NEW rowDone \in BOOLEAN, NEW rawDone \in BOOLEAN, Handle(rowDone, rawDone)
    PROVE  \E h \in Range(batch) :
              /\ h = Head(batch) /\ h \in Event
              /\ batch' \in Seq(Event) /\ (batch' # <<>> <=> Len(batch) > 1)
              /\ \A i, j \in DOMAIN batch' : i < j => Before(batch'[i], batch'[j])
              /\ Range(batch)' = Range(batch) \ {h}
              /\ \A e \in Range(batch) \ {h} : Before(h, e)
              /\ rawDone => rowDone
              /\ rows' = IF rowDone THEN Applied(h) ELSE rows
              /\ raw' = IF rawDone THEN Recorded(h) ELSE raw
              /\ missed' = IF rawDone THEN missed ELSE missed \cup {h}
<1>1. batch # <<>> /\ batch \in Seq(Event)
  BY DEF IndInv, Place, Types, Handle
<1>2. batch' = Tail(batch)
  BY DEF Handle
<1>3. PICK t : t = Tail(batch)
  OBVIOUS
<1>4. PICK h : h = Head(batch)
  OBVIOUS
<1>5. /\ t \in Seq(Event) /\ (t # <<>> <=> Len(batch) > 1)
      /\ \A i, j \in DOMAIN t : i < j => Before(t[i], t[j])
      /\ h \in Range(batch) /\ h \in Event
      /\ Range(t) = Range(batch) \ {h}
      /\ \A e \in Range(t) : Before(h, e)
  BY <1>1, <1>3, <1>4, HeadIs DEF IndInv, Ordered
<1>6. Range(batch)' = Range(t)
  BY <1>2, <1>3 DEF Range
<1>7. /\ rawDone => rowDone
      /\ rows' = IF rowDone THEN Applied(h) ELSE rows
      /\ raw' = IF rawDone THEN Recorded(h) ELSE raw
      /\ missed' = IF rawDone THEN missed ELSE missed \cup {h}
  BY <1>4 DEF Handle
<1>8. QED
  BY <1>2, <1>3, <1>4, <1>5, <1>6, <1>7

LEMMA HandleKeeps ==
    ASSUME IndInv, NEW rowDone \in BOOLEAN, NEW rawDone \in BOOLEAN,
           Handle(rowDone, rawDone), faults' \in Nat
    PROVE  IndInv'
<1>1. /\ chain' = chain /\ orphaned' = orphaned /\ lost' = lost /\ saved' = saved
      /\ dirty' = dirty /\ cursor' = cursor /\ next' = next /\ pc = "handle" /\ pc' = AfterEvent
  BY DEF Handle, nodeVars, undoVars
<1>2. OnChain' = OnChain
  BY <1>1 DEF OnChain
<1>3. Types' /\ Types
  BY HandleTypes DEF IndInv
<1>4. PICK h \in Range(batch) :
              /\ h = Head(batch) /\ h \in Event
              /\ batch' \in Seq(Event) /\ (batch' # <<>> <=> Len(batch) > 1)
              /\ \A i, j \in DOMAIN batch' : i < j => Before(batch'[i], batch'[j])
              /\ Range(batch)' = Range(batch) \ {h}
              /\ \A e \in Range(batch) \ {h} : Before(h, e)
              /\ rawDone => rowDone
              /\ rows' = IF rowDone THEN Applied(h) ELSE rows
              /\ raw' = IF rawDone THEN Recorded(h) ELSE raw
              /\ missed' = IF rawDone THEN missed ELSE missed \cup {h}
  BY HandleFacts
<1>5. /\ \A e \in OnChain \cup Range(batch) :
            /\ e.ledger \in Nat /\ e.index \in Nat /\ e.entity \in Entities
      /\ saved \in Nat /\ next \in Nat /\ cursor = saved /\ next > cursor
  BY <1>1, <1>3, ChainEvents, BatchIs, EventNumbers DEF IndInv, Types, Place
<1>6. raw \subseteq raw' /\ raw' \subseteq raw \cup {h} /\ missed \subseteq missed'
      /\ missed' \subseteq missed \cup {h}
  BY <1>4 DEF Recorded
<1>7. h.entity \notin orphaned => h \in OnChain
  BY <1>4 DEF IndInv, Kept
<1>8. \A en \in Entities :
         /\ en # h.entity => rows'[en] = rows[en]
         /\ ~rowDone => rows'[en] = rows[en]
  BY <1>3, <1>4, AppliedIs DEF Types
<1>9. /\ rowDone /\ rows[h.entity] = NoRow =>
           IF Creation(h) THEN /\ rows'[h.entity] # NoRow /\ rows'[h.entity].status = h.status
                               /\ rows'[h.entity].ledger = h.ledger
           ELSE rows'[h.entity] = NoRow
      /\ rowDone /\ rows[h.entity] # NoRow =>
           /\ rows'[h.entity] # NoRow /\ rows'[h.entity].ledger = rows[h.entity].ledger
           /\ rows'[h.entity].status = IF Creation(h) THEN rows[h.entity].status ELSE h.status
  <2>1. CASE rowDone
    <3>1. rows' = Applied(h) /\ rows \in [Entities -> Row]
      BY <1>3, <1>4, <2>1 DEF Types
    <3>2. QED
      BY <1>4, <3>1, AppliedIs
  <2>2. QED
    BY <2>1
<1>10. Place'
  <2>1. AfterEvent = IF batch' # <<>> THEN "handle" ELSE "hash"
    BY <1>4, <1>5 DEF AfterEvent
  <2>2. \A e \in missed' \cup Range(batch)' : saved <= e.ledger /\ e.ledger < next
    BY <1>4, <1>6 DEF IndInv, Place
  <2>3. QED
    BY <1>1, <1>5, <2>1, <2>2 DEF Place
<1>11. Undoing'
  BY <1>1 DEF Undoing, AfterEvent
<1>12. Sound'
  BY <1>1, <1>2, <1>4, <1>6 DEF IndInv, Sound
<1>13. Complete'
  <2>1. ASSUME h \in OnChain, h.ledger \notin dirty PROVE h \in raw' \cup missed'
    <3>1. CASE rawDone
      <4>1. CASE \E r \in raw : r.ledger = h.ledger /\ r.index = h.index
        <5>1. PICK r \in raw : r.ledger = h.ledger /\ r.index = h.index
          BY <4>1
        <5>2. r \in OnChain
          BY <2>1, <5>1 DEF IndInv, Sound
        <5>3. r = h
          BY <1>3, <2>1, <5>1, <5>2, ChainEvents
        <5>4. QED
          BY <1>6, <5>3
      <4>2. CASE ~\E r \in raw : r.ledger = h.ledger /\ r.index = h.index
        BY <1>4, <3>1, <4>2 DEF Recorded
      <4>3. QED
        BY <4>1, <4>2
    <3>2. CASE ~rawDone
      BY <1>4, <3>2
    <3>3. QED
      BY <3>1, <3>2
  <2>2. ASSUME NEW e \in OnChain, e.ledger \notin dirty
        PROVE  /\ e.ledger < saved => e \in raw' \cup lost
               /\ saved <= e.ledger /\ e.ledger < next => e \in raw' \cup Range(batch)' \cup missed'
    <3>1. /\ e.ledger < saved => e \in raw \cup lost
          /\ saved <= e.ledger /\ e.ledger < next => e \in raw \cup Range(batch) \cup missed
      BY <2>2 DEF IndInv, Complete
    <3>2. QED
      BY <1>4, <1>6, <2>1, <2>2, <3>1
  <2>3. QED
    BY <1>1, <1>2, <2>2 DEF Complete
<1>14. Gone'
  BY <1>1 DEF IndInv, Gone
<1>15. Created'
  BY <1>2 DEF IndInv, Created, Creation, Before
<1>16. Ordered'
  <2>1. ASSUME NEW e \in Range(batch) \ {h}, NEW z \in OnChain,
               Before(e, z), z.ledger < next, z.ledger \notin dirty
        PROVE  z \in (Range(batch) \ {h}) \cup missed'
    <3>1. z \in Range(batch) \cup missed
      BY <2>1 DEF IndInv, Ordered
    <3>2. Before(h, e)
      BY <1>4
    <3>3. z # h
      BY <1>5, <2>1, <3>2 DEF Before
    <3>4. QED
      BY <1>6, <3>1, <3>3
  <2>2. QED
    BY <1>1, <1>2, <1>4, <2>1 DEF Ordered, Before
<1>17. Kept'
  <2>1. \A e \in Range(batch)' : e.entity \notin orphaned => e \in OnChain
    BY <1>4 DEF IndInv, Kept
  <2>2. ASSUME NEW en \in Entities \ orphaned, rows'[en] # NoRow
        PROVE  \E c \in OnChain, e \in OnChain :
                  /\ c.entity = en /\ Creation(c) /\ rows'[en].ledger = c.ledger
                  /\ e.entity = en /\ rows'[en].status = e.status
    <3>1. CASE rows'[en] = rows[en]
      BY <2>2, <3>1 DEF IndInv, Kept
    <3>2. CASE rows'[en] # rows[en]
      <4>1. en = h.entity /\ rowDone /\ h \in OnChain
        BY <1>7, <1>8, <2>2, <3>2
      <4>2. CASE rows[en] = NoRow
        BY <1>9, <2>2, <4>1, <4>2
      <4>3. CASE rows[en] # NoRow
        <5>1. PICK c \in OnChain, e \in OnChain :
                  /\ c.entity = en /\ Creation(c) /\ rows[en].ledger = c.ledger
                  /\ e.entity = en /\ rows[en].status = e.status
          BY <2>2, <4>3 DEF IndInv, Kept
        <5>2. QED
          BY <1>9, <4>1, <4>3, <5>1
      <4>4. QED
        BY <4>2, <4>3
    <3>3. QED
      BY <3>1, <3>2
  <2>3. QED
    BY <1>1, <1>2, <2>1, <2>2 DEF Kept, Creation
<1>18. Mirrored'
  <2>1. \A e : Handled(e)' => Handled(e) \/ (e = h /\ rowDone)
    BY <1>1, <1>4, <1>6 DEF Handled, Passed
  <2> SUFFICES ASSUME NEW c \in OnChain, c.entity \notin orphaned, Creation(c), Handled(c)'
               PROVE  /\ rows'[c.entity] # NoRow
                      /\ \A z \in OnChain :
                            (z.entity = c.entity /\ Handled(z)'
                               /\ \A f \in OnChain : f.entity = c.entity => ~Before(z, f)) =>
                                rows'[c.entity].status = z.status
    BY <1>1, <1>2 DEF Mirrored, Creation, Before
  <2>2. PICK en : en = c.entity /\ en \in Entities \ orphaned
    BY <1>5
  <2>3. Handled(c) => rows[en] # NoRow
    BY <2>2 DEF IndInv, Mirrored
  <2>4. Handled(c) \/ (c = h /\ rowDone)
    BY <2>1
  <2>5. rows'[en] # NoRow
    <3>1. CASE Handled(c)
      BY <1>8, <1>9, <2>2, <2>3, <3>1
    <3>2. CASE c = h /\ rowDone
      BY <1>9, <2>2, <3>2
    <3>3. QED
      BY <2>4, <3>1, <3>2
  <2>6. ASSUME NEW z \in OnChain, z.entity = en, Handled(z)',
               \A f \in OnChain : f.entity = en => ~Before(z, f)
        PROVE  rows'[en].status = z.status
    <3>1. CASE z # h
      <4>1. Handled(z) /\ ~Before(h, z)
        BY <2>1, <2>6, <3>1, NotLate
      <4>2. h.entity = en => h \notin OnChain
        <5> SUFFICES ASSUME h.entity = en, h \in OnChain PROVE FALSE
          OBVIOUS
        <5>1. ~Before(z, h)
          BY <2>6
        <5>2. h.ledger = z.ledger /\ h.index = z.index
          BY <1>5, <4>1, <5>1 DEF Before
        <5>3. QED
          BY <1>3, <3>1, <5>2, ChainEvents
      <4>3. h.entity # en
        BY <1>7, <2>2, <4>2
      <4>4. Handled(c) /\ rows'[en] = rows[en]
        BY <1>8, <2>2, <2>4, <4>3
      <4>5. QED
        BY <2>2, <2>6, <4>1, <4>4 DEF IndInv, Mirrored
    <3>2. CASE z = h
      <4>1. rowDone
        <5>1. rawDone
          BY <1>4, <2>6, <3>2 DEF Handled
        <5>2. QED
          BY <1>4, <5>1
      <4>2. CASE ~Creation(h)
        <5>1. rows'[h.entity] # NoRow
          BY <2>5, <2>6, <3>2
        <5>2. rows[h.entity] # NoRow
          BY <1>9, <4>1, <4>2, <5>1
        <5>3. QED
          BY <1>9, <2>6, <3>2, <4>1, <4>2, <5>2
      <4>3. CASE Creation(h) /\ rows[en] = NoRow
        BY <1>9, <2>6, <3>2, <4>1, <4>3
      <4>4. CASE Creation(h) /\ rows[en] # NoRow
        <5>1. rows'[en].status = rows[en].status
          BY <1>9, <2>6, <3>2, <4>1, <4>4
        <5>2. PICK e \in OnChain : e.entity = en /\ rows[en].status = e.status
          BY <2>2, <4>4 DEF IndInv, Kept
        <5>3. ~Before(h, e)
          BY <2>6, <3>2, <5>2
        <5>4. ~Before(e, h)
          BY <2>6, <3>2, <4>4, <5>2 DEF IndInv, Created
        <5>5. e = h
          <6>1. e.ledger = h.ledger /\ e.index = h.index
            BY <1>5, <5>3, <5>4 DEF Before
          <6>2. QED
            BY <1>3, <2>6, <3>2, <6>1, ChainEvents
        <5>6. QED
          BY <3>2, <5>1, <5>2, <5>5
      <4>5. QED
        BY <4>2, <4>3, <4>4
    <3>3. QED
      BY <3>1, <3>2
  <2>7. QED
    BY <2>2, <2>5, <2>6
<1>19. QED
  BY <1>3, <1>10, <1>11, <1>12, <1>13, <1>14, <1>15, <1>16, <1>17, <1>18 DEF IndInv

-----------------------------------------------------------------------------
(* The theorems.                                                              *)

LEMMA IndInvInit ==
    ASSUME Init
    PROVE  IndInv
<1>1. OnChain = {}
  BY DEF Init, OnChain, EventsIn
<1>2. chain \in Seq(Ledger) /\ Len(chain) = 0 /\ batch \in Seq(Event)
  BY DEF Init
<1>3. Range(batch) = {} /\ DOMAIN batch = {}
  BY DEF Init, Range
<1>4. rows \in [Entities -> Row]
  BY DEF Init, NoRow, Row
<1>5. Types
  BY <1>2, <1>4, IndexerAssumption DEF Init, Types, Ledgers, NoHash
<1>6. Place /\ Undoing /\ Ordered
  BY <1>3 DEF Init, Place, Undoing, Ordered
<1>7. Sound /\ Complete /\ Gone /\ Created
  BY <1>1, <1>3 DEF Init, Sound, Complete, Gone, Created, Ledgers
<1>8. Kept /\ Mirrored
  BY <1>1, <1>3 DEF Init, Kept, Mirrored
<1>9. QED
  BY <1>5, <1>6, <1>7, <1>8 DEF IndInv

LEMMA IndInvNext ==
    ASSUME IndInv, [Next]_vars
    PROVE  IndInv'
<1>1. ASSUME NEW changes \in BoundedSeq(Change, MaxInLedger), CloseLedger(changes)
      PROVE  IndInv'
  <2>1. changes \in Seq(Change)
    <3>1. PICK m \in 0 .. MaxInLedger : changes \in [1 .. m -> Change]
      BY <1>1, Zenon DEF BoundedSeq, SeqOf
    <3>2. QED
      BY <3>1, IndexerAssumption
  <2>2. QED
    BY <1>1, <2>1, CloseKeeps
<1>2. ASSUME NEW l \in DOMAIN chain, Reorg(l) PROVE IndInv'
  BY <1>2, ReorgKeeps
<1>3. CASE DetectReorg
  BY <1>3, DetectKeeps
<1>4. CASE Delete
  BY <1>4, DeleteKeeps
<1>5. CASE ResetCursor
  BY <1>5, ResetKeeps
<1>6. CASE Poll
  BY <1>6, PollKeeps
<1>7. CASE HandleEvent
  <2>1. Handle(TRUE, TRUE) /\ faults' \in Nat
    BY <1>7 DEF HandleEvent, IndInv, Types
  <2>2. QED
    BY <2>1, HandleKeeps
<1>8. CASE SaveHash \/ Restart \/ HashFails \/ RollbackFails
  BY <1>8, OtherKeeps
<1>9. CASE SaveCursor
  BY <1>9, SaveCursorKeeps
<1>10. ASSUME NEW rowDone \in BOOLEAN, EventFails(rowDone) PROVE IndInv'
  <2>1. Handle(rowDone, FALSE) /\ Fault
    BY <1>10, Zenon DEF EventFails
  <2>2. faults' \in Nat
    BY <2>1 DEF Fault, IndInv, Types
  <2>3. QED
    BY <2>1, <2>2, HandleKeeps
<1>11. CASE Crash
  BY <1>11, CrashKeeps
<1>12. CASE UNCHANGED vars
  <2>1. UNCHANGED <<chain, cursor, saved, hashes, raw, rows, pc, from, stage, batch, next,
                    missed, lost, dirty, orphaned, forks, faults>>
    BY <1>12 DEF vars, nodeVars, dbVars, batchVars, undoVars
  <2>2. (Sound /\ Complete /\ Gone /\ Created /\ Ordered /\ Kept /\ Mirrored)'
    BY <2>1, StillKept
  <2>3. Types' /\ Place' /\ Undoing'
    BY <2>1 DEF IndInv, Types, Place, Undoing
  <2>4. QED
    BY <2>2, <2>3 DEF IndInv
<1>13. QED
  BY <1>1, <1>2, <1>3, <1>4, <1>5, <1>6, <1>7, <1>8, <1>9, <1>10, <1>11, <1>12
  DEF Next, Node, Loop, Failure

\* At every moment, whatever reorganisations, crashes and failed statements came
\* before: what is stored of a ledger that is not dirty is on the chain, what is
\* on the chain was stored, is in the batch or was missed, and the rows of an
\* entity that lost no event follow the events that were handled.
THEOREM IndexerInvariant == Spec => []IndInv
<1>1. Init => IndInv
  BY IndInvInit
<1>2. IndInv /\ [Next]_vars => IndInv'
  BY IndInvNext
<1>3. QED
  BY <1>1, <1>2, PTL DEF Spec

LEMMA IndInvExact ==
    ASSUME IndInv
    PROVE  IndexExact
<1> SUFFICES ASSUME pc = "idle", NEW l \in DOMAIN chain, l < cursor, l \notin dirty,
                    NEW stored, stored = {e \in raw : e.ledger = l},
                    NEW actual, actual = Range(EventsOf(l))
             PROVE  stored \subseteq actual /\ actual \subseteq stored \cup lost
  BY DEF IndexExact
<1>1. cursor = saved
  BY DEF IndInv, Place
<1>2. actual = {e \in OnChain : e.ledger = l}
  BY OfLedger DEF IndInv, Types
<1>3. stored \subseteq actual
  BY <1>2 DEF IndInv, Sound
<1>4. actual \subseteq stored \cup lost
  BY <1>1, <1>2 DEF IndInv, Complete
<1>5. QED
  BY <1>3, <1>4

\* History is the chain.
LEMMA HistoryIs ==
    ASSUME Types
    PROVE  Range(History) = OnChain
<1>1. InOrder(History, 1, Len(chain))
  BY FromInOrder DEF Types, History
<1>2. \A e \in OnChain : 1 <= e.ledger /\ e.ledger <= Len(chain)
  BY ChainEvents, EventNumbers DEF Ledgers
<1>3. QED
  BY <1>1, <1>2 DEF InOrder

LEMMA IndInvRows ==
    ASSUME IndInv
    PROVE  RowsFollow
<1> DEFINE Follows(en, events) ==
             (\A e \in events : e.ledger < cursor /\ e.ledger \notin dirty /\ e \notin lost) =>
                 \A first \in events, last \in events :
                     (\A e \in events : ~Before(e, first) /\ ~Before(last, e)) =>
                         rows[en] = [status |-> last.status, ledger |-> first.ledger]
<1> SUFFICES ASSUME pc = "idle", NEW en \in Entities \ orphaned
             PROVE  Follows(en, {e \in Range(History) : e.entity = en})
  BY Zenon DEF RowsFollow
<1> SUFFICES ASSUME NEW events, events = {e \in Range(History) : e.entity = en},
                    \A e \in events : e.ledger < cursor /\ e.ledger \notin dirty /\ e \notin lost,
                    NEW first \in events, NEW last \in events,
                    \A e \in events : ~Before(e, first) /\ ~Before(last, e)
             PROVE  rows[en] = [status |-> last.status, ledger |-> first.ledger]
  OBVIOUS
<1>1. cursor = saved /\ missed = {}
  BY BatchIs DEF IndInv
<1>2. events = {e \in OnChain : e.entity = en}
  BY HistoryIs DEF IndInv
<1>3. \A e \in events : Handled(e)
  BY <1>1 DEF Handled, Passed
<1>4. first \in OnChain /\ last \in OnChain /\ first.entity = en /\ last.entity = en
  BY <1>2
<1>5. PICK c \in OnChain : c.entity = en /\ Creation(c)
  BY <1>4 DEF IndInv, Created
<1>6. ~Before(first, c) /\ ~Before(c, first)
  BY <1>2, <1>4, <1>5 DEF IndInv, Created
<1>7. c = first
  <2>1. c \in Event /\ first \in Event
    BY <1>4, ChainEvents DEF IndInv
  <2>2. c.ledger = first.ledger /\ c.index = first.index
    BY <1>6, <2>1, EventNumbers DEF Before
  <2>3. QED
    BY <1>4, <2>2, ChainEvents DEF IndInv
<1>8. rows[en] # NoRow /\ rows[en].status = last.status
  BY <1>2, <1>3, <1>4, <1>5, <1>7 DEF IndInv, Mirrored
<1>9. PICK d \in OnChain : d.entity = en /\ Creation(d) /\ rows[en].ledger = d.ledger
  BY <1>8 DEF IndInv, Kept
<1>10. d = first
  BY <1>5, <1>7, <1>9, OneCreation DEF IndInv
<1>11. rows[en] \in Row
  BY DEF IndInv, Types
<1>12. QED
  BY <1>8, <1>9, <1>10, <1>11 DEF Row

\* Between polls every ledger behind the cursor is indexed exactly, up to the
\* events whose handling failed or that a full page cut off and to the ledgers
\* of a reorganisation that no completed roll-back has reached.
THEOREM IndexIsExact == Spec => []IndexExact
<1>1. IndInv => IndexExact
  BY IndInvExact
<1>2. QED
  BY <1>1, IndexerInvariant, PTL

\* The row of an entity that lost no event, and all of whose events are behind
\* the cursor and were handled, is what its first and last events made it.
THEOREM RowsFollowChain == Spec => []RowsFollow
<1>1. IndInv => RowsFollow
  BY IndInvRows
<1>2. QED
  BY <1>1, IndexerInvariant, PTL
=============================================================================
