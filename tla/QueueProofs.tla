----------------------------- MODULE QueueProofs -----------------------------
(***************************************************************************)
(* The mobile offline queue, proved for any number of operations, handlers,   *)
(* taps and failures.                                                        *)
(*                                                                         *)
(* For each operation that no handler has written an outdated copy over, the  *)
(* invariant says which of the two keys it is in and what the handlers that    *)
(* are at it have done of their move.  A handler that is about to write its    *)
(* copy either knows the operation as it is or makes it stale.                *)
(***************************************************************************)
EXTENDS OfflineQueue, SumTheorems, SequenceTheorems, TLAPS

-----------------------------------------------------------------------------
(* Filtering a sequence                                                         *)

\* What has been kept of the first n entries, the function Filtered is computed by.
Filter(s, I, f) ==
    [n \in 0 .. Len(s) |->
        IF n = 0 THEN <<>> ELSE IF n \in I THEN Append(f[n - 1], s[n]) ELSE f[n - 1]]

LEMMA FilteredBy == \A s, I : Filtered(s, I) = (CHOOSE f : f = Filter(s, I, f))[Len(s)]
BY DEF Filtered, Filter

LEMMA FilterMeets ==
    ASSUME NEW s, NEW I, Len(s) \in Nat
    PROVE  \E f : f = Filter(s, I, f)
<1> DEFINE Good == {k \in Nat : \E f : \A n \in 0 .. Len(s) :
                                    n <= k => f[n] = Filter(s, I, f)[n]}
<1>1. 0 \in Good
  <2>1. [n \in {0} |-> <<>>][0] = Filter(s, I, [n \in {0} |-> <<>>])[0]
    BY DEF Filter
  <2>2. PICK f : f[0] = Filter(s, I, f)[0]
    BY <2>1
  <2>3. \A n \in 0 .. Len(s) : n <= 0 => n = 0
    OBVIOUS
  <2>4. QED
    BY <2>2, <2>3
<1>2. ASSUME NEW k \in Nat, k \in Good PROVE k + 1 \in Good
  <2>1. PICK f : \A n \in 0 .. Len(s) : n <= k => f[n] = Filter(s, I, f)[n]
    BY <1>2
  <2>2. PICK g : g = Filter(s, I, f)
    OBVIOUS
  <2>3. ASSUME NEW n \in 0 .. Len(s), n <= k + 1 PROVE g[n] = Filter(s, I, g)[n]
    <3>1. CASE n = 0
      BY <2>2, <3>1 DEF Filter
    <3>2. CASE n > 0
      <4>1. n - 1 \in 0 .. Len(s) /\ n - 1 <= k
        BY <2>3, <3>2
      <4>2. g[n - 1] = f[n - 1]
        BY <2>1, <2>2, <4>1
      <4>3. QED
        BY <2>2, <3>2, <4>1, <4>2 DEF Filter
    <3>3. QED
      BY <3>1, <3>2
  <2>4. QED
    BY <2>3
<1>3. \A k \in Nat : k \in Good
  <2> HIDE DEF Good
  <2>1. QED
    BY <1>1, <1>2, Induction
<1>4. PICK f : \A n \in 0 .. Len(s) : f[n] = Filter(s, I, f)[n]
  <2>1. Len(s) \in Good
    BY <1>3
  <2>2. QED
    BY <2>1
<1>5. PICK g : g = Filter(s, I, f)
  OBVIOUS
<1>6. \A n \in 0 .. Len(s) : g[n] = f[n]
  BY <1>4, <1>5
<1>7. Filter(s, I, f) = Filter(s, I, g)
  BY <1>6 DEF Filter
<1>8. QED
  BY <1>5, <1>7

\* r has the entries of s at the positions of I among the first n, in their order;
\* at tells where each of them comes from.
Keeps(r, s, I, n, at) ==
    /\ at \in [1 .. Len(r) -> 1 .. n]
    /\ \A i, j \in 1 .. Len(r) : i < j => at[i] < at[j]
    /\ \A i \in 1 .. Len(r) : r[i] = s[at[i]] /\ at[i] \in I
    /\ \A k \in 1 .. n : k \in I => \E i \in 1 .. Len(r) : at[i] = k

LEMMA KeepsNext ==
    ASSUME NEW S, NEW s \in Seq(S), NEW I, NEW n \in Nat, n + 1 <= Len(s),
           NEW r \in Seq(S), NEW at, Keeps(r, s, I, n, at)
    PROVE  /\ n + 1 \notin I => Keeps(r, s, I, n + 1, at)
           /\ n + 1 \in I => \E more : Keeps(Append(r, s[n + 1]), s, I, n + 1, more)
<1>1. n + 1 \notin I => Keeps(r, s, I, n + 1, at)
  BY DEF Keeps
<1>2. ASSUME n + 1 \in I
      PROVE  \E more : Keeps(Append(r, s[n + 1]), s, I, n + 1, more)
  <2>1. PICK x : x = Append(r, s[n + 1])
    OBVIOUS
  <2>2. s[n + 1] \in S
    OBVIOUS
  <2>3. /\ Len(x) = Len(r) + 1 /\ x[Len(r) + 1] = s[n + 1]
        /\ \A i \in 1 .. Len(r) : x[i] = r[i]
    BY <2>1, <2>2, AppendProperties
  <2>4. PICK more : more = [i \in 1 .. (Len(r) + 1) |-> IF i = Len(r) + 1 THEN n + 1 ELSE at[i]]
    OBVIOUS
  <2>5. /\ more[Len(r) + 1] = n + 1
        /\ \A i \in 1 .. Len(r) : more[i] = at[i] /\ more[i] \in 1 .. n
    BY <2>4 DEF Keeps
  <2>6. more \in [1 .. Len(x) -> 1 .. (n + 1)]
    BY <2>3, <2>4, <2>5 DEF Keeps
  <2>7. \A i, j \in 1 .. Len(x) : i < j => more[i] < more[j]
    <3> SUFFICES ASSUME NEW i \in 1 .. Len(x), NEW j \in 1 .. Len(x), i < j
                 PROVE  more[i] < more[j]
      OBVIOUS
    <3>1. i \in 1 .. Len(r) /\ more[i] = at[i] /\ more[i] \in 1 .. n
      BY <2>3, <2>5
    <3>2. CASE j = Len(r) + 1
      BY <2>5, <3>1, <3>2
    <3>3. CASE j \in 1 .. Len(r)
      BY <2>5, <3>1, <3>3 DEF Keeps
    <3>4. QED
      BY <2>3, <3>2, <3>3
  <2>8. \A i \in 1 .. Len(x) : x[i] = s[more[i]] /\ more[i] \in I
    <3> SUFFICES ASSUME NEW i \in 1 .. Len(x)
                 PROVE  x[i] = s[more[i]] /\ more[i] \in I
      OBVIOUS
    <3>1. CASE i = Len(r) + 1
      BY <1>2, <2>3, <2>5, <3>1
    <3>2. CASE i \in 1 .. Len(r)
      BY <2>3, <2>5, <3>2 DEF Keeps
    <3>3. QED
      BY <2>3, <3>1, <3>2
  <2>9. \A k \in 1 .. (n + 1) : k \in I => \E i \in 1 .. Len(x) : more[i] = k
    <3> SUFFICES ASSUME NEW k \in 1 .. (n + 1), k \in I
                 PROVE  \E i \in 1 .. Len(x) : more[i] = k
      OBVIOUS
    <3>1. CASE k = n + 1
      <4>1. Len(r) + 1 \in 1 .. Len(x)
        BY <2>3
      <4>2. QED
        BY <2>5, <3>1, <4>1
    <3>2. CASE k \in 1 .. n
      <4>1. PICK i \in 1 .. Len(r) : at[i] = k
        BY <3>2 DEF Keeps
      <4>2. i \in 1 .. Len(x) /\ more[i] = k
        BY <2>3, <2>5, <4>1
      <4>3. QED
        BY <4>2
    <3>3. QED
      BY <3>1, <3>2
  <2>10. Keeps(x, s, I, n + 1, more)
    BY <2>6, <2>7, <2>8, <2>9 DEF Keeps
  <2>11. QED
    BY <2>1, <2>10
<1>3. QED
  BY <1>1, <1>2

\* Filtered returns the entries at I, each of them once.
LEMMA FilteredKeeps ==
    ASSUME NEW S, NEW s \in Seq(S), NEW I
    PROVE  /\ Filtered(s, I) \in Seq(S)
           /\ \E at : Keeps(Filtered(s, I), s, I, Len(s), at)
<1>1. Len(s) \in Nat
  OBVIOUS
<1>2. PICK f : f = Filter(s, I, f) /\ Filtered(s, I) = f[Len(s)]
  <2>1. (CHOOSE f : f = Filter(s, I, f)) = Filter(s, I, (CHOOSE f : f = Filter(s, I, f)))
    BY <1>1, FilterMeets, Zenon
  <2>2. QED
    BY <2>1, FilteredBy, Zenon
<1> DEFINE Good == {n \in Nat : n <= Len(s) =>
                       f[n] \in Seq(S) /\ \E at : Keeps(f[n], s, I, n, at)}
<1>3. 0 \in Good
  <2>1. f[0] = <<>>
    BY <1>2 DEF Filter
  <2>2. Keeps(<<>>, s, I, 0, <<>>)
    BY DEF Keeps
  <2>3. f[0] \in Seq(S) /\ \E at : Keeps(f[0], s, I, 0, at)
    BY <2>1, <2>2
  <2>4. QED
    BY <2>3
<1>4. ASSUME NEW n \in Nat, n \in Good PROVE n + 1 \in Good
  <2> SUFFICES ASSUME n + 1 <= Len(s)
               PROVE  f[n + 1] \in Seq(S) /\ \E at : Keeps(f[n + 1], s, I, n + 1, at)
    OBVIOUS
  <2>1. f[n] \in Seq(S) /\ \E at : Keeps(f[n], s, I, n, at)
    BY <1>4
  <2>2. PICK r : r = f[n]
    OBVIOUS
  <2>3. r \in Seq(S) /\ s[n + 1] \in S
    BY <2>1, <2>2
  <2>4. f[n + 1] = IF n + 1 \in I THEN Append(r, s[n + 1]) ELSE r
    <3>1. f[n + 1] = Filter(s, I, f)[n + 1]
      BY <1>2
    <3>2. n + 1 \in 0 .. Len(s) /\ n + 1 # 0 /\ (n + 1) - 1 = n
      OBVIOUS
    <3>3. Filter(s, I, f)[n + 1] =
              IF n + 1 \in I THEN Append(f[n], s[n + 1]) ELSE f[n]
      BY <3>2 DEF Filter
    <3>4. QED
      BY <2>2, <3>1, <3>3
  <2>5. PICK at : Keeps(r, s, I, n, at)
    BY <2>1, <2>2
  <2>6. QED
    BY <2>3, <2>4, <2>5, KeepsNext
<1>5. \A n \in Nat : n \in Good
  <2> HIDE DEF Good
  <2>1. QED
    BY <1>3, <1>4, Induction
<1>6. QED
  BY <1>1, <1>2, <1>5

-----------------------------------------------------------------------------
(* What the operations on a queue do to each operation it holds                 *)

Entry == [op : Ops, retries : Nat]

In(s, o) == o \in NamesIn(s)
Once(s, o) == \A i, j \in DOMAIN s : s[i].op = o /\ s[j].op = o => i = j

LEMMA InIs == \A s, o : In(s, o) <=> \E i \in DOMAIN s : s[i].op = o
BY DEF In, NamesIn

\* The entries at the positions I of a queue.
LEMMA FilteredQueue ==
    ASSUME NEW s \in Seq(Entry), NEW I
    PROVE  /\ Filtered(s, I) \in Seq(Entry)
           /\ \A o : In(Filtered(s, I), o) <=> \E i \in DOMAIN s : i \in I /\ s[i].op = o
           /\ \A o : (\A i, j \in DOMAIN s \cap I : s[i].op = o /\ s[j].op = o => i = j)
                         <=> Once(Filtered(s, I), o)
<1>1. PICK r, at : r = Filtered(s, I) /\ r \in Seq(Entry) /\ Keeps(r, s, I, Len(s), at)
  BY FilteredKeeps
<1>2. DOMAIN s = 1 .. Len(s) /\ DOMAIN r = 1 .. Len(r) /\ Len(r) \in Nat /\ Len(s) \in Nat
  BY <1>1
<1>3. \A i \in DOMAIN r : at[i] \in DOMAIN s \cap I /\ r[i] = s[at[i]]
  BY <1>1, <1>2 DEF Keeps
<1>4. \A i, j \in DOMAIN r : at[i] = at[j] => i = j
  <2>1. \A i, j \in DOMAIN r : i < j => at[i] < at[j]
    BY <1>1, <1>2 DEF Keeps
  <2>2. \A i \in DOMAIN r : at[i] \in Nat /\ i \in Nat
    BY <1>2, <1>3
  <2>3. QED
    BY <2>1, <2>2
<1>5. \A k \in DOMAIN s \cap I : \E i \in DOMAIN r : at[i] = k
  BY <1>1, <1>2 DEF Keeps
<1>6. ASSUME NEW o PROVE In(r, o) <=> \E i \in DOMAIN s : i \in I /\ s[i].op = o
  BY <1>3, <1>5, InIs
<1>7. ASSUME NEW o
      PROVE  (\A i, j \in DOMAIN s \cap I : s[i].op = o /\ s[j].op = o => i = j)
                 <=> Once(r, o)
  <2>1. ASSUME \A i, j \in DOMAIN s \cap I : s[i].op = o /\ s[j].op = o => i = j
        PROVE  Once(r, o)
    <3> SUFFICES ASSUME NEW i \in DOMAIN r, NEW j \in DOMAIN r, r[i].op = o, r[j].op = o
                 PROVE  i = j
      BY DEF Once
    <3>1. /\ at[i] \in DOMAIN s \cap I /\ s[at[i]].op = o
          /\ at[j] \in DOMAIN s \cap I /\ s[at[j]].op = o
      BY <1>3
    <3>2. at[i] = at[j]
      BY <2>1, <3>1
    <3>3. QED
      BY <1>4, <3>2
  <2>2. ASSUME Once(r, o), NEW i \in DOMAIN s \cap I, NEW j \in DOMAIN s \cap I,
               s[i].op = o, s[j].op = o
        PROVE  i = j
    <3>1. PICK a \in DOMAIN r, b \in DOMAIN r : at[a] = i /\ at[b] = j
      BY <1>5
    <3>2. r[a].op = o /\ r[b].op = o
      BY <1>3, <2>2, <3>1
    <3>3. QED
      BY <2>2, <3>1, <3>2 DEF Once
  <2>3. QED
    BY <2>1, <2>2
<1>8. QED
  BY <1>1, <1>6, <1>7

LEMMA WithoutIs ==
    ASSUME NEW s \in Seq(Entry), NEW p
    PROVE  /\ Without(s, p) \in Seq(Entry)
           /\ \A o : In(Without(s, p), o) <=> In(s, o) /\ o # p
           /\ \A o : Once(s, o) => Once(Without(s, p), o)
<1> DEFINE I == {i \in DOMAIN s : s[i].op # p}
<1>1. Without(s, p) = Filtered(s, I)
  BY DEF Without
<1>2. \A o : (\E i \in DOMAIN s : i \in I /\ s[i].op = o) <=> In(s, o) /\ o # p
  BY InIs
<1>3. \A o : Once(s, o) => \A i, j \in DOMAIN s \cap I : s[i].op = o /\ s[j].op = o => i = j
  BY DEF Once
<1> HIDE DEF I
<1>4. QED
  BY <1>1, <1>2, <1>3, FilteredQueue

\* Two queues with the same entries of an operation agree on it.
LEMMA SameEntries ==
    ASSUME NEW s \in Seq(Entry), NEW r \in Seq(Entry), NEW o,
           EntriesOf(s, o) = EntriesOf(r, o)
    PROVE  (In(s, o) <=> In(r, o)) /\ (Once(s, o) <=> Once(r, o))
<1>1. ASSUME NEW x \in Seq(Entry)
      PROVE  /\ In(x, o) <=> In(EntriesOf(x, o), o)
             /\ Once(x, o) <=> Once(EntriesOf(x, o), o)
  <2> DEFINE I == {i \in DOMAIN x : x[i].op = o}
  <2>1. EntriesOf(x, o) = Filtered(x, I)
    BY DEF EntriesOf
  <2>2. In(x, o) <=> \E i \in DOMAIN x : i \in I /\ x[i].op = o
    BY InIs
  <2>3. Once(x, o) <=> \A i, j \in DOMAIN x \cap I : x[i].op = o /\ x[j].op = o => i = j
    BY DEF Once
  <2> HIDE DEF I
  <2>4. QED
    BY <2>1, <2>2, <2>3, FilteredQueue
<1>2. QED
  BY <1>1

LEMMA FirstIs ==
    ASSUME NEW s \in Seq(Entry), NEW o, In(s, o)
    PROVE  FirstOf(s, o) \in Entry /\ FirstOf(s, o).op = o
<1> DEFINE I == {i \in DOMAIN s : s[i].op = o}
<1>1. EntriesOf(s, o) = Filtered(s, I)
  BY DEF EntriesOf
<1>2. PICK k \in DOMAIN s : k \in I /\ s[k].op = o
  BY InIs
<1>3. \A i \in I : s[i].op = o /\ s[i] \in Entry
  BY ElementOfSeq
<1> HIDE DEF I
<1>4. PICK r, at : r = Filtered(s, I) /\ r \in Seq(Entry) /\ Keeps(r, s, I, Len(s), at)
  BY FilteredKeeps
<1>5. 1 \in 1 .. Len(r)
  <2>1. \E i \in 1 .. Len(r) : at[i] = k
    BY <1>2, <1>4 DEF Keeps
  <2>2. Len(r) \in Nat
    BY <1>4
  <2>3. QED
    BY <2>1, <2>2
<1>6. r[1] = s[at[1]] /\ at[1] \in I
  BY <1>4, <1>5 DEF Keeps
<1>7. QED
  BY <1>1, <1>3, <1>4, <1>6 DEF FirstOf

LEMMA AppendIs ==
    ASSUME NEW s \in Seq(Entry), NEW e \in Entry
    PROVE  /\ Append(s, e) \in Seq(Entry)
           /\ \A o : In(Append(s, e), o) <=> In(s, o) \/ o = e.op
           /\ \A o : Once(s, o) /\ (o = e.op => ~In(s, o)) => Once(Append(s, e), o)
<1>1. PICK r : r = Append(s, e)
  OBVIOUS
<1>2. /\ r \in Seq(Entry) /\ Len(r) = Len(s) + 1 /\ r[Len(s) + 1] = e
      /\ \A i \in 1 .. Len(s) : r[i] = s[i]
  BY <1>1, AppendProperties
<1>3. Len(s) \in Nat /\ DOMAIN s = 1 .. Len(s) /\ DOMAIN r = 1 .. (Len(s) + 1)
  BY <1>2
<1>4. ASSUME NEW o PROVE In(r, o) <=> In(s, o) \/ o = e.op
  <2>1. In(s, o) => In(r, o)
    BY <1>2, <1>3, InIs
  <2>2. o = e.op => In(r, o)
    <3>1. Len(s) + 1 \in DOMAIN r
      BY <1>3
    <3>2. QED
      BY <1>2, <3>1, InIs
  <2>3. ASSUME In(r, o) PROVE In(s, o) \/ o = e.op
    <3>1. PICK i \in DOMAIN r : r[i].op = o
      BY <2>3, InIs
    <3>2. i = Len(s) + 1 \/ i \in 1 .. Len(s)
      BY <1>3
    <3>3. QED
      BY <1>2, <1>3, <3>1, <3>2, InIs
  <2>4. QED
    BY <2>1, <2>2, <2>3
<1>5. ASSUME NEW o, Once(s, o), o = e.op => ~In(s, o) PROVE Once(r, o)
  <2> SUFFICES ASSUME NEW i \in DOMAIN r, NEW j \in DOMAIN r, r[i].op = o, r[j].op = o
               PROVE  i = j
    BY DEF Once
  <2>1. \A k \in DOMAIN r : k = Len(s) + 1 \/ k \in DOMAIN s
    BY <1>3
  <2>2. \A k \in DOMAIN s : r[k] = s[k]
    BY <1>2, <1>3
  <2>3. CASE o = e.op
    <3>1. \A k \in DOMAIN s : s[k].op # o
      BY <1>5, <2>3, InIs
    <3>2. QED
      BY <2>1, <2>2, <3>1
  <2>4. CASE o # e.op
    <3>1. i \in DOMAIN s /\ j \in DOMAIN s
      BY <1>2, <2>1, <2>4
    <3>2. QED
      BY <1>5, <2>2, <3>1 DEF Once
  <2>5. QED
    BY <2>3, <2>4
<1>6. QED
  BY <1>1, <1>2, <1>4, <1>5

LEMMA EntryIs ==
    /\ \A o \in Ops : Fresh(o) \in Entry /\ Fresh(o).op = o
    /\ \A e \in Entry : Retried(e) \in Entry /\ Retried(e).op = e.op
<1>1. \A e \in Entry : e.retries + 1 \in Nat /\ Retried(e) = [op |-> e.op, retries |-> e.retries + 1]
  BY DEF Entry, Retried
<1>2. QED
  BY <1>1 DEF Entry, Fresh

\* What the write of a handler makes of the queue it has read.
LEMMA UpdatedIs ==
    ASSUME NEW fn \in Functions \ {"none"}, NEW p \in Ops, NEW s \in Seq(Entry)
    PROVE  /\ Updated(fn, p, s) \in Seq(Entry)
           /\ \A o : o # p => /\ In(Updated(fn, p, s), o) <=> In(s, o)
                              /\ Once(s, o) => Once(Updated(fn, p, s), o)
           /\ fn \in {"enqueue", "requeue"} =>
                  /\ In(Updated(fn, p, s), p)
                  /\ ~In(s, p) => Once(Updated(fn, p, s), p)
           /\ fn \in {"dequeue", "bury"} =>
                  ~In(Updated(fn, p, s), p) /\ Once(Updated(fn, p, s), p)
           /\ fn = "retry" => /\ In(Updated(fn, p, s), p) <=> In(s, p)
                              /\ Once(s, p) => Once(Updated(fn, p, s), p)
<1>0. \A x : ~In(x, p) => Once(x, p)
  BY InIs DEF Once
<1>1. CASE fn \in {"enqueue", "requeue"}
  <2>1. Updated(fn, p, s) = Append(s, Fresh(p))
    BY <1>1 DEF Updated
  <2>2. QED
    BY <1>0, <1>1, <2>1, AppendIs, EntryIs
<1>2. CASE fn \in {"dequeue", "bury"}
  <2>1. Updated(fn, p, s) = Without(s, p)
    BY <1>2 DEF Updated
  <2>2. QED
    BY <1>0, <1>2, <2>1, WithoutIs
<1>3. CASE fn = "retry"
  <2>1. PICK r : r = Updated(fn, p, s)
    OBVIOUS
  <2>2. r = [i \in DOMAIN s |-> IF s[i].op = p THEN Retried(s[i]) ELSE s[i]]
    BY <1>3, <2>1 DEF Updated
  <2>3. DOMAIN s = 1 .. Len(s) /\ Len(s) \in Nat /\ \A i \in DOMAIN s : s[i] \in Entry
    BY ElementOfSeq
  <2>4. \A i \in DOMAIN s : r[i] \in Entry /\ r[i].op = s[i].op
    BY <2>2, <2>3, EntryIs
  <2>5. r \in Seq(Entry) /\ DOMAIN r = DOMAIN s
    <3>1. DOMAIN r = 1 .. Len(s) /\ r \in [1 .. Len(s) -> Entry]
      BY <2>2, <2>3, <2>4
    <3>2. QED
      BY <2>3, <3>1, SeqDef
  <2>6. \A o : (In(r, o) <=> In(s, o)) /\ (Once(s, o) => Once(r, o))
    BY <2>4, <2>5, InIs, Zenon DEF Once
  <2>7. QED
    BY <1>3, <2>1, <2>5, <2>6
<1>4. QED
  BY <1>1, <1>2, <1>3 DEF Functions

-----------------------------------------------------------------------------
(* Handlers                                                                     *)

Handler == [fn : Functions, op : Ops \cup {Idle.op}, at : 0 .. 4, fetching : BOOLEAN,
            left : Seq(Ops), q : Seq(Entry), d : Seq(Entry)]

\* A handler replays the operation at the head of its snapshot or is at one of the
\* storage calls of its function; the copy it moves an entry from has the entry.
HandlerOK(c) ==
    /\ c.fn = "none" => c = Idle \/ (c.fetching /\ c.left # <<>>)
    /\ c.fn # "none" => ~c.fetching /\ c.op \in Ops /\ c.at \in 1 .. Len(StepsOf(c.fn))
    /\ c.left # <<>> => c.op = c.left[1] /\ c.fn \in {"none", "dequeue", "retry", "bury"}
    /\ c.fn = "bury" => c.at > 1 /\ In(c.q, c.op)
    /\ c.fn = "requeue" /\ c.at = 2 => In(c.d, c.op)

\* o is in what is left of the snapshot, and once; the handler has written o to the
\* dead letters, has taken it out of them, or has had it carried out.
Has(c, o) == \E i \in DOMAIN c.left : c.left[i] = o
Single(c, o) == \A i, j \in DOMAIN c.left : c.left[i] = o /\ c.left[j] = o => i = j
Buries(c, o) == c.fn = "bury" /\ c.op = o /\ c.at = 4
Requeues(c, o) == c.fn = "requeue" /\ c.op = o /\ c.at > 2
Notes(c, o) == c.fn = "dequeue" /\ c.op = o /\ c.left # <<>>

LEMMA IdleIs ==
    /\ Idle = [fn |-> "none", op |-> Idle.op, at |-> 0, fetching |-> FALSE,
               left |-> <<>>, q |-> <<>>, d |-> <<>>]
    /\ Idle \in Handler /\ HandlerOK(Idle)
    /\ \A o : /\ ~Has(Idle, o) /\ Single(Idle, o) /\ ~Buries(Idle, o)
              /\ ~Requeues(Idle, o) /\ ~Notes(Idle, o)
<1>1. Idle = [fn |-> "none", op |-> Idle.op, at |-> 0, fetching |-> FALSE,
              left |-> <<>>, q |-> <<>>, d |-> <<>>]
  BY DEF Idle
<1>2. PICK i, x : /\ i = Idle /\ x = Idle.op
                  /\ i = [fn |-> "none", op |-> x, at |-> 0, fetching |-> FALSE,
                          left |-> <<>>, q |-> <<>>, d |-> <<>>]
  BY <1>1
<1>3. <<>> \in Seq(Ops) /\ <<>> \in Seq(Entry)
  OBVIOUS
<1>4. i \in Handler
  BY <1>2, <1>3 DEF Handler, Functions
<1>5. i.left = <<>> /\ i.fn = "none"
  BY <1>2
<1>6. HandlerOK(i)
  BY <1>2, <1>5 DEF HandlerOK
<1>7. \A o : /\ ~Has(i, o) /\ Single(i, o) /\ ~Buries(i, o)
            /\ ~Requeues(i, o) /\ ~Notes(i, o)
  BY <1>5 DEF Has, Single, Buries, Requeues, Notes
<1>8. QED
  BY <1>1, <1>2, <1>4, <1>6, <1>7

LEMMA CallingIs ==
    ASSUME NEW o \in Ops, NEW fn \in Functions \ {"none"}, NEW left \in Seq(Ops)
    PROVE  /\ Calling(o, fn, left) = [fn |-> fn, op |-> o, at |-> 1, fetching |-> FALSE,
                                      left |-> left, q |-> <<>>, d |-> <<>>]
           /\ Calling(o, fn, left) \in Handler
<1>1. PICK i, y, z, no, x, w :
         /\ i = Idle /\ y = 1 /\ z = 0 /\ no = FALSE /\ w = "none"
         /\ i = [fn |-> w, op |-> x, at |-> z, fetching |-> no,
                 left |-> <<>>, q |-> <<>>, d |-> <<>>]
  BY IdleIs
<1> DEFINE j == [i EXCEPT !.fn = fn]
           k == [j EXCEPT !.op = o]
           l == [k EXCEPT !.at = y]
           m == [l EXCEPT !.left = left]
<1>2. j = [fn |-> fn, op |-> x, at |-> z, fetching |-> no,
           left |-> <<>>, q |-> <<>>, d |-> <<>>]
  BY <1>1
<1> HIDE DEF j
<1>3. k = [fn |-> fn, op |-> o, at |-> z, fetching |-> no,
           left |-> <<>>, q |-> <<>>, d |-> <<>>]
  BY <1>2
<1> HIDE DEF k
<1>4. l = [fn |-> fn, op |-> o, at |-> y, fetching |-> no,
           left |-> <<>>, q |-> <<>>, d |-> <<>>]
  BY <1>3
<1> HIDE DEF l
<1>5. m = [fn |-> fn, op |-> o, at |-> y, fetching |-> no,
           left |-> left, q |-> <<>>, d |-> <<>>]
  BY <1>4
<1> HIDE DEF m
<1>6. m = Calling(o, fn, left)
  BY <1>1, Zenon DEF j, k, l, m, Calling
<1>7. Calling(o, fn, left) = [fn |-> fn, op |-> o, at |-> 1, fetching |-> FALSE,
                              left |-> left, q |-> <<>>, d |-> <<>>]
  BY <1>1, <1>5, <1>6
<1>8. QED
  BY <1>7 DEF Handler

LEMMA ReplayingIs ==
    ASSUME NEW left \in Seq(Ops), left # <<>>
    PROVE  /\ Replaying(left) = [fn |-> "none", op |-> left[1], at |-> 0, fetching |-> TRUE,
                                 left |-> left, q |-> <<>>, d |-> <<>>]
           /\ Replaying(left) \in Handler /\ HandlerOK(Replaying(left))
<1>1. PICK i, y, z, no, x, w, o :
         /\ i = Idle /\ y = TRUE /\ z = 0 /\ no = FALSE /\ w = "none" /\ o = left[1]
         /\ i = [fn |-> w, op |-> x, at |-> z, fetching |-> no,
                 left |-> <<>>, q |-> <<>>, d |-> <<>>]
  BY IdleIs
<1> DEFINE j == [i EXCEPT !.op = o]
           k == [j EXCEPT !.fetching = y]
           l == [k EXCEPT !.left = left]
<1>2. j = [fn |-> w, op |-> o, at |-> z, fetching |-> no,
           left |-> <<>>, q |-> <<>>, d |-> <<>>]
  BY <1>1
<1> HIDE DEF j
<1>3. k = [fn |-> w, op |-> o, at |-> z, fetching |-> y,
           left |-> <<>>, q |-> <<>>, d |-> <<>>]
  BY <1>2
<1> HIDE DEF k
<1>4. l = [fn |-> w, op |-> o, at |-> z, fetching |-> y,
           left |-> left, q |-> <<>>, d |-> <<>>]
  BY <1>3
<1> HIDE DEF l
<1>5. l = Replaying(left)
  BY <1>1, Zenon DEF j, k, l, Replaying
<1>6. Replaying(left) = [fn |-> "none", op |-> left[1], at |-> 0, fetching |-> TRUE,
                         left |-> left, q |-> <<>>, d |-> <<>>]
  BY <1>1, <1>4, <1>5
<1>7. left[1] \in Ops
  OBVIOUS
<1>8. QED
  BY <1>6, <1>7 DEF Handler, HandlerOK, Functions

LEMMA LengthIs ==
    /\ \A fn \in {"enqueue", "dequeue", "retry"} : 1 .. Len(StepsOf(fn)) = 1 .. 2
    /\ \A fn \in {"bury", "requeue"} : 1 .. Len(StepsOf(fn)) = 1 .. 4
<1>1. ASSUME NEW fn \in {"enqueue", "dequeue", "retry"} PROVE Len(StepsOf(fn)) = 2
  <2>1. StepsOf(fn) = <<"readQueue", "writeQueue">>
    BY DEF StepsOf
  <2>2. QED
    BY <2>1
<1>2. ASSUME NEW fn \in {"bury", "requeue"} PROVE Len(StepsOf(fn)) = 4
  <2>1. \/ StepsOf(fn) = <<"readQueue", "readDead", "writeDead", "writeQueue">>
        \/ StepsOf(fn) = <<"readDead", "writeDead", "readQueue", "writeQueue">>
    BY DEF StepsOf
  <2>2. QED
    BY <2>1
<1>3. QED
  BY <1>1, <1>2

\* The storage call a handler is at.
LEMMA AtIs ==
    ASSUME NEW t, task[t] \in Handler, HandlerOK(task[t])
    PROVE  /\ AtStep(t, "readQueue") <=>
                  \/ task[t].fn \in {"enqueue", "dequeue", "retry"} /\ task[t].at = 1
                  \/ task[t].fn = "requeue" /\ task[t].at = 3
           /\ AtStep(t, "readDead") <=>
                  \/ task[t].fn = "bury" /\ task[t].at = 2
                  \/ task[t].fn = "requeue" /\ task[t].at = 1
           /\ AtStep(t, "writeDead") <=>
                  \/ task[t].fn = "bury" /\ task[t].at = 3
                  \/ task[t].fn = "requeue" /\ task[t].at = 2
           /\ AtStep(t, "writeQueue") <=>
                  \/ task[t].fn \in {"enqueue", "dequeue", "retry"} /\ task[t].at = 2
                  \/ task[t].fn \in {"bury", "requeue"} /\ task[t].at = 4
           /\ task[t].fn \in {"enqueue", "dequeue", "retry"} => task[t].at \in {1, 2}
           /\ task[t].fn \in {"bury", "requeue"} => task[t].at \in {1, 2, 3, 4}
<1>1. task[t].fn \in Functions
  BY DEF Handler
<1>2. CASE task[t].fn = "none"
  BY <1>2 DEF AtStep
<1>3. CASE task[t].fn \in {"enqueue", "dequeue", "retry"}
  <2>1. StepsOf(task[t].fn) = <<"readQueue", "writeQueue">>
    BY <1>3 DEF StepsOf
  <2>2. task[t].at \in {1, 2}
    BY <1>3, <2>1 DEF HandlerOK
  <2>3. QED
    BY <1>3, <2>1, <2>2 DEF AtStep
<1>4. CASE task[t].fn = "bury"
  <2>1. StepsOf(task[t].fn) = <<"readQueue", "readDead", "writeDead", "writeQueue">>
    BY <1>4 DEF StepsOf
  <2>2. task[t].at \in {2, 3, 4}
    <3>1. task[t].at \in 1 .. Len(StepsOf(task[t].fn)) /\ task[t].at > 1
      BY <1>4 DEF HandlerOK
    <3>2. Len(StepsOf(task[t].fn)) = 4
      BY <2>1
    <3>3. QED
      BY <3>1, <3>2
  <2>3. QED
    BY <1>4, <2>1, <2>2 DEF AtStep
<1>5. CASE task[t].fn = "requeue"
  <2>1. StepsOf(task[t].fn) = <<"readDead", "writeDead", "readQueue", "writeQueue">>
    BY <1>5 DEF StepsOf
  <2>2. task[t].at \in {1, 2, 3, 4}
    <3>1. task[t].at \in 1 .. Len(StepsOf(task[t].fn))
      BY <1>5 DEF HandlerOK
    <3>2. Len(StepsOf(task[t].fn)) = 4
      BY <2>1
    <3>3. QED
      BY <3>1, <3>2
  <2>3. QED
    BY <1>5, <2>1, <2>2 DEF AtStep
<1>6. QED
  BY <1>1, <1>2, <1>3, <1>4, <1>5 DEF Functions

LEMMA MidwayIs ==
    ASSUME NEW t, task[t] \in Handler, HandlerOK(task[t])
    PROVE  Midway(t) <=> Buries(task[t], task[t].op) \/ Requeues(task[t], task[t].op)
<1> DEFINE fn == task[t].fn
           at == task[t].at
           steps == StepsOf(fn)
<1>1. CASE fn \notin {"bury", "requeue"}
  BY <1>1 DEF Midway, Buries, Requeues
<1>2. CASE fn \in {"bury", "requeue"}
  <2>1. at \in {1, 2, 3, 4}
    BY <1>2, AtIs
  <2> DEFINE Calls == {"readQueue", "readDead", "writeDead", "writeQueue"}
  <2>2. /\ steps[1] \in Calls \ {"writeDead"} /\ steps[2] \in Calls /\ steps[3] \in Calls
        /\ fn = "bury" => steps[2] # "writeDead" /\ steps[3] = "writeDead"
        /\ fn = "requeue" => steps[2] = "writeDead"
    <3>1. fn = "bury" => steps = <<"readQueue", "readDead", "writeDead", "writeQueue">>
      BY DEF StepsOf
    <3>2. fn = "requeue" => steps = <<"readDead", "writeDead", "readQueue", "writeQueue">>
      BY DEF StepsOf
    <3> HIDE DEF steps, fn
    <3>3. CASE fn = "bury"
      BY <3>1, <3>3
    <3>4. CASE fn = "requeue"
      BY <3>2, <3>4
    <3>5. QED
      BY <1>2, <3>3, <3>4
  <2> HIDE DEF steps, Calls
  <2>3. /\ Len(SubSeq(steps, 1, at - 1)) = at - 1
        /\ \A i \in 1 .. (at - 1) : SubSeq(steps, 1, at - 1)[i] = steps[i]
        /\ SubSeq(steps, 1, at - 1) \in Seq(Calls)
    <3>1. PICK n \in 0 .. 3 : n = at - 1
      BY <2>1
    <3>2. \A i \in 1 .. n : steps[i] \in Calls
      <4>1. \A i \in 1 .. n : i = 1 \/ i = 2 \/ i = 3
        OBVIOUS
      <4>2. QED
        BY <2>2, <4>1 DEF Calls
    <3>3. /\ SubSeq(steps, 1, n) \in Seq(Calls)
          /\ Len(SubSeq(steps, 1, n)) = IF 1 <= n THEN n - 1 + 1 ELSE 0
          /\ \A i \in 1 .. n - 1 + 1 : SubSeq(steps, 1, n)[i] = steps[1 + i - 1]
      BY <3>2, SubSeqProperties
    <3>4. \A i \in 1 .. n : i \in 1 .. n - 1 + 1 /\ 1 + i - 1 = i
      OBVIOUS
    <3>5. QED
      BY <3>1, <3>3, <3>4
  <2>4. "writeDead" \in ToSet(SubSeq(steps, 1, at - 1)) <=>
            \E i \in 1 .. (at - 1) : steps[i] = "writeDead"
    <3>1. PICK r : r = SubSeq(steps, 1, at - 1)
      OBVIOUS
    <3>2. DOMAIN r = 1 .. (at - 1)
      BY <2>3, <3>1
    <3>3. QED
      BY <2>3, <3>1, <3>2 DEF ToSet
  <2>5. (\E i \in 1 .. (at - 1) : steps[i] = "writeDead") <=>
            \/ fn = "bury" /\ at = 4
            \/ fn = "requeue" /\ at > 2
    <3>1. CASE at = 1
      BY <3>1
    <3>2. CASE at = 2
      BY <3>2, <2>2
    <3>3. CASE at = 3
      <4>1. \A i \in 1 .. (at - 1) : i = 1 \/ i = 2
        BY <3>3
      <4>2. 2 \in 1 .. (at - 1)
        BY <3>3
      <4>3. QED
        BY <1>2, <2>2, <3>3, <4>1, <4>2
    <3>4. CASE at = 4
      <4>1. 2 \in 1 .. (at - 1) /\ 3 \in 1 .. (at - 1)
        BY <3>4
      <4>2. QED
        BY <1>2, <2>2, <3>4, <4>1
    <3>5. QED
      BY <2>1, <3>1, <3>2, <3>3, <3>4
  <2>6. QED
    BY <1>2, <2>1, <2>4, <2>5 DEF Midway, Buries, Requeues, steps
<1>3. QED
  BY <1>1, <1>2

\* A handler that is done goes on with the rest of its snapshot.
LEMMA AfterIs ==
    ASSUME NEW t, task[t] \in Handler, HandlerOK(task[t]), task[t].fn # "none"
    PROVE  /\ After(t) \in Handler /\ HandlerOK(After(t)) /\ After(t).fn = "none"
           /\ After(t).left # <<>> <=> Len(task[t].left) > 1
           /\ After(t).q = <<>> /\ After(t).d = <<>>
           /\ \A o : Has(After(t), o) => Has(task[t], o)
           /\ \A o : Single(task[t], o) =>
                  Single(After(t), o) /\ (o = task[t].op => ~Has(After(t), o))
<1> DEFINE left == task[t].left
           op == task[t].op
<1>1. left \in Seq(Ops) /\ Len(left) \in Nat /\ DOMAIN left = 1 .. Len(left)
  BY DEF Handler
<1>2. CASE Len(left) > 1
  <2>1. PICK rest : rest = Tail(left)
    OBVIOUS
  <2>2. /\ rest \in Seq(Ops) /\ Len(rest) = Len(left) - 1
        /\ \A i \in 1 .. Len(rest) : rest[i] = left[i + 1]
    BY <1>1, <1>2, <2>1, HeadTailProperties
  <2>3. rest # <<>> /\ DOMAIN rest = 1 .. Len(rest) /\ left # <<>>
    BY <1>2, <2>2
  <2>4. After(t) = Replaying(rest)
    BY <1>2, <2>1 DEF After
  <2>5. /\ After(t) \in Handler /\ HandlerOK(After(t)) /\ After(t).fn = "none"
        /\ After(t).left = rest /\ After(t).q = <<>> /\ After(t).d = <<>>
    BY <2>2, <2>3, <2>4, ReplayingIs
  <2>6. \A i \in DOMAIN rest : i + 1 \in DOMAIN left /\ i + 1 # 1 /\ rest[i] = left[i + 1]
    BY <1>1, <2>2, <2>3
  <2>7. \A o : Has(After(t), o) => Has(task[t], o)
    BY <2>5, <2>6 DEF Has
  <2>8. ASSUME NEW o, Single(task[t], o)
        PROVE  Single(After(t), o) /\ (o = op => ~Has(After(t), o))
    <3>1. \A i, j \in DOMAIN rest : rest[i] = o /\ rest[j] = o => i + 1 = j + 1
      BY <2>6, <2>8, Zenon DEF Single
    <3>2. \A i \in DOMAIN rest : i \in Int
      BY <2>3
    <3>3. Single(After(t), o)
      BY <2>5, <3>1, <3>2 DEF Single
    <3>4. left[1] = op /\ 1 \in DOMAIN left
      BY <1>1, <1>2, <2>3 DEF HandlerOK
    <3>5. o = op => ~Has(After(t), o)
      BY <2>5, <2>6, <2>8, <3>4 DEF Single, Has
    <3>6. QED
      BY <3>3, <3>5
  <2>9. QED
    BY <1>2, <2>3, <2>5, <2>7, <2>8
<1>3. CASE ~(Len(left) > 1)
  <2>1. After(t) = Idle
    BY <1>3 DEF After
  <2>2. QED
    BY <1>3, <2>1, IdleIs
<1>4. QED
  BY <1>2, <1>3

\* A handler that begins to call fn, for the user or within the flush c stands for.
LEMMA CallIs ==
    ASSUME NEW o \in Ops, NEW fn \in {"enqueue", "dequeue", "retry", "requeue"},
           NEW left \in Seq(Ops),
           left # <<>> => o = left[1] /\ fn \in {"dequeue", "retry"},
           NEW x, x = Calling(o, fn, left)
    PROVE  /\ x \in Handler /\ HandlerOK(x)
           /\ x.fn = fn /\ x.op = o /\ x.left = left /\ x.q = <<>> /\ x.d = <<>>
           /\ \A p : ~Buries(x, p) /\ ~Requeues(x, p)
           /\ Notes(x, o) <=> fn = "dequeue" /\ left # <<>>
<1>2. /\ x = [fn |-> fn, op |-> o, at |-> 1, fetching |-> FALSE,
              left |-> left, q |-> <<>>, d |-> <<>>]
      /\ x \in Handler
  BY CallingIs DEF Functions
<1>3. /\ x.fn = fn /\ x.op = o /\ x.at = 1 /\ x.left = left /\ x.q = <<>> /\ x.d = <<>>
      /\ x.fetching = FALSE
  BY <1>2
<1>4. 1 \in 1 .. Len(StepsOf(fn))
  <2>1. StepsOf(fn) = <<"readQueue", "writeQueue">>
           \/ StepsOf(fn) = <<"readDead", "writeDead", "readQueue", "writeQueue">>
    BY DEF StepsOf
  <2>2. QED
    BY <2>1
<1>5. HandlerOK(x)
  BY <1>3, <1>4 DEF HandlerOK
<1>6. /\ \A p : ~Buries(x, p) /\ ~Requeues(x, p)
      /\ Notes(x, o) <=> fn = "dequeue" /\ left # <<>>
  BY <1>3 DEF Buries, Requeues, Notes
<1>7. QED
  BY <1>2, <1>3, <1>5, <1>6

-----------------------------------------------------------------------------
(* The invariant                                                                *)

Types ==
    /\ queue \in Seq(Entry) /\ dead \in Seq(Entry) /\ flushing \in BOOLEAN
    /\ task \in [Tasks -> Handler]
    /\ accepted \subseteq Ops /\ effects \in [Ops -> Nat]
    /\ cut \subseteq Functions \X Ops

\* What a handler knows of was accepted; the one operation it may add was not.
KnownTo(c) ==
    /\ \A o : In(c.q, o) \/ In(c.d, o) \/ Has(c, o) => o \in accepted
    /\ c.fn \in {"dequeue", "retry", "bury", "requeue"} => c.op \in accepted
    /\ c.fn = "enqueue" => c.op \notin accepted

\* What is being dequeued was carried out, or is no longer wanted.
Entitled(c) ==
    c.fn = "dequeue" =>
        IF c.left # <<>> THEN effects[c.op] > 0 ELSE c.op \in discarded

Handled == \A t \in Tasks : HandlerOK(task[t]) /\ KnownTo(task[t]) /\ Entitled(task[t])

Known ==
    /\ \A o : In(queue, o) \/ In(dead, o) => o \in accepted
    /\ \A o \in Ops : effects[o] > 0 => o \in accepted

\* There is one flush while flushing is set, and one enqueue of an operation.
Flushes(t) == task[t].left # <<>>
Alone ==
    /\ \A t, u \in Tasks : Flushes(t) /\ Flushes(u) => t = u
    /\ flushing <=> \E t \in Tasks : Flushes(t)
    /\ \A t, u \in Tasks :
          task[t].fn = "enqueue" /\ task[u].fn = "enqueue" /\ task[t].op = task[u].op => t = u

\* An operation has one entry and one place, but for the moves between the keys,
\* and it is in the queue while a flush has it in its snapshot.
Place(o) ==
    /\ Once(queue, o)
    /\ In(queue, o) /\ In(dead, o) => \E t \in Tasks : Buries(task[t], o)
    /\ \A t \in Tasks : Requeues(task[t], o) => ~In(queue, o) /\ ~In(dead, o)
    /\ \A t \in Tasks : Has(task[t], o) => In(queue, o)
    /\ \A t \in Tasks : Single(task[t], o)

Somewhere(o) ==
    /\ \/ In(queue, o) \/ In(dead, o) \/ effects[o] > 0 \/ <<"requeue", o>> \in cut
       \/ \E t \in Tasks : Requeues(task[t], o)
    /\ \A t \in Tasks : Buries(task[t], o) => In(dead, o)

\* Nothing can replay it again.
Done(o) ==
    /\ ~In(queue, o) /\ ~In(dead, o)
    /\ \A t \in Tasks : ~Has(task[t], o) /\ ~Requeues(task[t], o)

Carried(o) ==
    effects[o] = 0 \/ (effects[o] = 1 /\ (Done(o) \/ \E t \in Tasks : Notes(task[t], o)))

CutOffs == {o \in Ops : <<"bury", o>> \in cut \/ <<"requeue", o>> \in cut}

Base == Types /\ Handled /\ Known /\ Alone

Inv ==
    /\ Base
    /\ \A o \in Ops \ (stale \cup CutOffs) : Place(o)
    /\ \A o \in accepted \ (discarded \cup stale) : Somewhere(o)
    /\ \A o \in Ops \ (stale \cup CutOffs \cup unanswered) : Carried(o)

LEMMA InitInv == Init => Inv
<1> SUFFICES ASSUME Init PROVE Inv
  OBVIOUS
<1>1. /\ queue = <<>> /\ dead = <<>> /\ flushing = FALSE
      /\ \A t \in Tasks : task[t] = Idle
      /\ accepted = {} /\ cut = {}
      /\ \A o \in Ops : effects[o] = 0
  BY DEF Init
<1>2. <<>> \in Seq(Entry) /\ \A o : ~In(<<>>, o) /\ Once(<<>>, o)
  BY InIs DEF Once
<1>3. /\ Idle \in Handler /\ HandlerOK(Idle)
      /\ \A o : /\ ~Has(Idle, o) /\ Single(Idle, o) /\ ~Buries(Idle, o)
                /\ ~Requeues(Idle, o) /\ ~Notes(Idle, o)
      /\ Idle.fn = "none" /\ Idle.left = <<>> /\ Idle.q = <<>> /\ Idle.d = <<>>
  BY IdleIs
<1>4. Types
  <2>1. task \in [Tasks -> Handler] /\ effects \in [Ops -> Nat]
    BY <1>3 DEF Init
  <2>2. QED
    BY <1>1, <1>2, <2>1 DEF Types
<1>5. Handled
  <2>1. KnownTo(Idle) /\ Entitled(Idle)
    BY <1>2, <1>3 DEF KnownTo, Entitled
  <2>2. QED
    BY <1>1, <1>3, <2>1 DEF Handled
<1>6. Known
  BY <1>1, <1>2 DEF Known
<1>7. Alone
  BY <1>1, <1>3 DEF Alone, Flushes
<1>8. \A o \in Ops : Place(o) /\ Carried(o)
  BY <1>1, <1>2, <1>3 DEF Place, Carried
<1>9. QED
  BY <1>1, <1>4, <1>5, <1>6, <1>7, <1>8 DEF Inv, Base

-----------------------------------------------------------------------------
(* A step of one handler                                                        *)

\* Handler t goes on as x.
Becomes(t, x) == task' = [task EXCEPT ![t] = x]

LEMMA BecomesIs ==
    ASSUME Types, NEW t \in Tasks, NEW x, Becomes(t, x)
    PROVE  /\ task'[t] = x
           /\ \A u \in Tasks : u # t => task'[u] = task[u]
           /\ x \in Handler => task' \in [Tasks -> Handler]
<1>1. task \in [Tasks -> Handler]
  BY DEF Types
<1>2. PICK f : f = task
  OBVIOUS
<1>3. PICK g : g = task' /\ g = [f EXCEPT ![t] = x]
  BY <1>2 DEF Becomes
<1>4. QED
  BY <1>1, <1>2, <1>3

LEMMA HandledStep ==
    ASSUME Types, Handled, NEW t \in Tasks, NEW x, Becomes(t, x),
           HandlerOK(x), KnownTo(x)', Entitled(x)',
           accepted \subseteq accepted', discarded \subseteq discarded',
           \A o \in Ops : effects'[o] >= effects[o], effects' \in [Ops -> Nat],
           \A u \in Tasks : u # t /\ task[u].fn = "enqueue" => task[u].op \notin accepted'
    PROVE  Handled'
<1> SUFFICES ASSUME NEW u \in Tasks
             PROVE  \E c : /\ c = task'[u]
                           /\ HandlerOK(c) /\ KnownTo(c)' /\ Entitled(c)'
  BY DEF Handled, HandlerOK, KnownTo, Entitled
<1>1. CASE u = t
  BY <1>1, BecomesIs
<1>2. CASE u # t
  <2>1. task'[u] = task[u]
    BY <1>2, BecomesIs
  <2>2. PICK c : c = task[u]
    OBVIOUS
  <2>3. c \in Handler /\ HandlerOK(c) /\ KnownTo(c) /\ Entitled(c)
    BY <2>2 DEF Handled, Types
  <2>4. KnownTo(c)'
    BY <1>2, <2>2, <2>3 DEF KnownTo
  <2>5. c.left # <<>> => c.op \in Ops
    BY <2>3 DEF HandlerOK, Handler
  <2>6. ASSUME c.fn = "dequeue", c.left # <<>> PROVE effects'[c.op] > 0
    <3>1. effects[c.op] > 0 /\ effects'[c.op] >= effects[c.op] /\ effects'[c.op] \in Nat
      BY <2>3, <2>5, <2>6 DEF Entitled
    <3>2. effects[c.op] \in Nat
      BY <2>5, <2>6 DEF Types
    <3>3. QED
      BY <3>1, <3>2
  <2>7. Entitled(c)'
    BY <2>3, <2>6 DEF Entitled
  <2>8. QED
    BY <2>1, <2>2, <2>3, <2>4, <2>7
<1>3. QED
  BY <1>1, <1>2

LEMMA AloneStep ==
    ASSUME Types, Alone, NEW t \in Tasks, NEW x, Becomes(t, x),
           \/ x.left # <<>> /\ flushing' = TRUE /\ (Flushes(t) \/ flushing = FALSE)
           \/ x.left = <<>> /\ Flushes(t) /\ flushing' = FALSE
           \/ x.left = <<>> /\ ~Flushes(t) /\ flushing' = flushing,
           x.fn = "enqueue" => \/ task[t].fn = "enqueue" /\ task[t].op = x.op
                               \/ \A u \in Tasks : task[u].op = x.op => task[u].fn # "enqueue"
    PROVE  Alone'
<1>1. task'[t] = x /\ \A u \in Tasks : u # t => task'[u] = task[u]
  BY BecomesIs
<1>2. \A u, v \in Tasks : Flushes(u)' /\ Flushes(v)' => u = v
  BY <1>1 DEF Alone, Flushes
<1>3. flushing' <=> \E u \in Tasks : Flushes(u)'
  BY <1>1 DEF Alone, Flushes
<1>4. ASSUME NEW u \in Tasks, NEW v \in Tasks, task'[u].fn = "enqueue",
             task'[v].fn = "enqueue", task'[u].op = task'[v].op
      PROVE  u = v
  BY <1>1, <1>4 DEF Alone
<1>5. QED
  BY <1>2, <1>3, <1>4 DEF Alone

\* An operation the step does nothing to.
LEMMA PlaceStep ==
    ASSUME Types, NEW t \in Tasks, NEW x, Becomes(t, x), NEW o, Place(o),
           In(queue', o) <=> In(queue, o), Once(queue, o) => Once(queue', o),
           In(dead', o) <=> In(dead, o),
           Buries(task[t], o) => Buries(x, o),
           Requeues(x, o) => Requeues(task[t], o),
           Has(x, o) => In(queue, o), Single(x, o)
    PROVE  Place(o)'
<1>1. task'[t] = x /\ \A u \in Tasks : u # t => task'[u] = task[u]
  BY BecomesIs
<1>2. In(queue', o) /\ In(dead', o) => \E u \in Tasks : Buries(task'[u], o)
  BY <1>1 DEF Place
<1>3. \A u \in Tasks : /\ Requeues(task'[u], o) => ~In(queue', o) /\ ~In(dead', o)
                       /\ Has(task'[u], o) => In(queue', o)
                       /\ Single(task'[u], o)
  BY <1>1 DEF Place
<1>4. QED
  BY <1>2, <1>3 DEF Place

LEMMA SomewhereStep ==
    ASSUME Types, NEW t \in Tasks, NEW x, Becomes(t, x), NEW o, Somewhere(o),
           In(queue', o) <=> In(queue, o), In(dead', o) <=> In(dead, o),
           effects[o] > 0 => effects'[o] > 0, cut \subseteq cut',
           Buries(x, o) => Buries(task[t], o),
           Requeues(task[t], o) => Requeues(x, o) \/ <<"requeue", o>> \in cut'
    PROVE  Somewhere(o)'
<1>1. task'[t] = x /\ \A u \in Tasks : u # t => task'[u] = task[u]
  BY BecomesIs
<1>2. \/ In(queue', o) \/ In(dead', o) \/ effects'[o] > 0 \/ <<"requeue", o>> \in cut'
      \/ \E u \in Tasks : Requeues(task'[u], o)
  BY <1>1 DEF Somewhere
<1>3. \A u \in Tasks : Buries(task'[u], o) => In(dead', o)
  BY <1>1 DEF Somewhere
<1>4. QED
  BY <1>2, <1>3 DEF Somewhere

LEMMA CarriedStep ==
    ASSUME Types, NEW t \in Tasks, NEW x, Becomes(t, x), NEW o, Carried(o),
           In(queue', o) <=> In(queue, o), In(dead', o) <=> In(dead, o),
           effects'[o] = effects[o],
           Requeues(x, o) => Requeues(task[t], o),
           Has(x, o) => In(queue, o) \/ Has(task[t], o),
           Notes(task[t], o) => Notes(x, o)
    PROVE  Carried(o)'
<1>1. task'[t] = x /\ \A u \in Tasks : u # t => task'[u] = task[u]
  BY BecomesIs
<1>2. Done(o) => Done(o)'
  BY <1>1 DEF Done
<1>3. (\E u \in Tasks : Notes(task[u], o)) => \E u \in Tasks : Notes(task'[u], o)
  BY <1>1
<1>4. QED
  BY <1>2, <1>3 DEF Carried

\* No other handler is at an operation that t does not share.
LEMMA UnsharedIs ==
    ASSUME Types, NEW t \in Tasks, task[t].op \notin Shared(t),
           NEW u \in Tasks, u # t, NEW o, o = task[t].op
    PROVE  /\ ~Has(task[u], o) /\ ~Buries(task[u], o)
           /\ ~Requeues(task[u], o) /\ ~Notes(task[u], o)
           /\ task[u].fn # "none" => task[u].op # o
<1>1. task[u] = Idle \/ (task[u].op # o /\ o \notin ToSet(task[u].left))
  BY DEF Shared, IsIdle
<1>2. CASE task[u] = Idle
  BY <1>2, IdleIs
<1>3. CASE task[u].op # o /\ o \notin ToSet(task[u].left)
  BY <1>3 DEF Has, Buries, Requeues, Notes, ToSet
<1>4. QED
  BY <1>1, <1>2, <1>3

-----------------------------------------------------------------------------
(* Steps that leave the two keys alone                                          *)

LEMMA QuietStep ==
    ASSUME Inv, NEW t \in Tasks, NEW x \in Handler, Becomes(t, x),
           HandlerOK(x), KnownTo(x), Entitled(x)',
           queue' = queue, dead' = dead, accepted' = accepted, stale' = stale,
           discarded \subseteq discarded', unanswered \subseteq unanswered',
           cut \subseteq cut', cut' \subseteq Functions \X Ops,
           flushing' \in BOOLEAN, effects' \in [Ops -> Nat],
           \A o \in Ops : \/ effects'[o] = effects[o]
                          \/ effects'[o] >= effects[o] /\ o \in unanswered' /\ o \in accepted,
           \/ x.left # <<>> /\ flushing' = TRUE /\ (Flushes(t) \/ flushing = FALSE)
           \/ x.left = <<>> /\ Flushes(t) /\ flushing' = FALSE
           \/ x.left = <<>> /\ ~Flushes(t) /\ flushing' = flushing,
           x.fn = "enqueue" => \/ task[t].fn = "enqueue" /\ task[t].op = x.op
                               \/ \A u \in Tasks : task[u].op = x.op => task[u].fn # "enqueue",
           \A o : /\ Buries(x, o) => Buries(task[t], o)
                  /\ Buries(task[t], o) => Buries(x, o) \/ <<"bury", o>> \in cut'
                  /\ Requeues(x, o) => Requeues(task[t], o)
                  /\ Requeues(task[t], o) => Requeues(x, o) \/ <<"requeue", o>> \in cut'
                  /\ Has(x, o) => In(queue, o) \/ Has(task[t], o)
                  /\ Once(queue, o) /\ Single(task[t], o) => Single(x, o)
                  /\ Notes(task[t], o) => Notes(x, o) \/ o \in unanswered'
    PROVE  Inv'
<1>1. Types /\ Handled /\ Known /\ Alone
  BY DEF Inv, Base
<1>2. \A o \in Ops : effects[o] \in Nat /\ effects'[o] \in Nat /\ effects'[o] >= effects[o]
  BY <1>1 DEF Types
<1>3. Types'
  <2>1. task' \in [Tasks -> Handler]
    BY <1>1, BecomesIs
  <2>2. QED
    BY <1>1, <2>1 DEF Types
<1>4. KnownTo(x)'
  BY DEF KnownTo
<1>5. Handled'
  <2>1. \A u \in Tasks : u # t /\ task[u].fn = "enqueue" => task[u].op \notin accepted'
    BY <1>1 DEF Handled, KnownTo
  <2>2. QED
    BY <1>1, <1>2, <1>4, <2>1, HandledStep
<1>6. Known'
  <2>1. \A o \in Ops : effects'[o] > 0 => o \in accepted'
    BY <1>1, <1>2 DEF Known
  <2>2. QED
    BY <1>1, <2>1 DEF Known
<1>7. Alone'
  BY <1>1, AloneStep
<1>8. \A o : o \in CutOffs => o \in CutOffs'
  BY DEF CutOffs
<1>9. ASSUME NEW o \in Ops \ (stale \cup CutOffs)' PROVE Place(o)'
  <2>1. Place(o) /\ <<"bury", o>> \notin cut'
    BY <1>8, <1>9 DEF Inv, CutOffs
  <2>2. Once(queue, o) /\ Single(task[t], o) /\ (Has(task[t], o) => In(queue, o))
    BY <2>1 DEF Place
  <2>3. QED
    BY <1>1, <2>1, <2>2, PlaceStep
<1>10. ASSUME NEW o \in (accepted \ (discarded \cup stale))' PROVE Somewhere(o)'
  <2>1. Somewhere(o) /\ o \in Ops
    BY <1>1, <1>10 DEF Inv, Types
  <2>2. effects[o] > 0 => effects'[o] > 0
    BY <1>2, <2>1
  <2>3. QED
    BY <1>1, <2>1, <2>2, SomewhereStep
<1>11. ASSUME NEW o \in Ops \ (stale \cup CutOffs \cup unanswered)' PROVE Carried(o)'
  <2>1. Carried(o)
    BY <1>8, <1>11 DEF Inv
  <2>2. effects'[o] = effects[o] /\ (Notes(task[t], o) => Notes(x, o))
    BY <1>11
  <2>3. QED
    BY <1>1, <2>1, <2>2, CarriedStep
<1>12. QED
  BY <1>3, <1>5, <1>6, <1>7, <1>9, <1>10, <1>11 DEF Inv, Base

LEMMA EmptyIs ==
    /\ <<>> \in Seq(Entry) /\ <<>> \in Seq(Ops)
    /\ \A o : ~In(<<>>, o)
    /\ \A c : c.left = <<>> => \A o : ~Has(c, o) /\ Single(c, o) /\ ~Notes(c, o)
BY InIs DEF Has, Single, Notes

LEMMA EnqueueStep ==
    ASSUME Inv, NEW t \in Tasks, NEW o \in Ops, Enqueue(t, o) PROVE Inv'
<1>1. /\ task[t] = Idle /\ o \notin accepted
      /\ \A u \in Tasks : task[u].op = o => task[u].fn # "enqueue"
      /\ UNCHANGED <<stored, flushing, history, bounds>>
  BY DEF Enqueue, IsIdle
<1>2. PICK x : x = Calling(o, "enqueue", <<>>)
  OBVIOUS
<1>3. Becomes(t, x)
  BY <1>2 DEF Enqueue, Becomes
<1>4. /\ x \in Handler /\ HandlerOK(x) /\ x.fn = "enqueue" /\ x.op = o
      /\ x.left = <<>> /\ x.q = <<>> /\ x.d = <<>>
      /\ \A p : ~Buries(x, p) /\ ~Requeues(x, p)
  <2>1. PICK left : left = <<>> /\ left \in Seq(Ops)
    BY EmptyIs
  <2>2. PICK f \in {"enqueue", "dequeue", "retry", "requeue"} : f = "enqueue"
    OBVIOUS
  <2>3. /\ left \in Seq(Ops) /\ x = Calling(o, f, left)
        /\ left # <<>> => o = left[1] /\ f \in {"dequeue", "retry"}
    BY <1>2, <2>1, <2>2
  <2>4. /\ x \in Handler /\ HandlerOK(x) /\ x.fn = f /\ x.op = o
        /\ x.left = left /\ x.q = <<>> /\ x.d = <<>>
        /\ \A p : ~Buries(x, p) /\ ~Requeues(x, p)
    BY <2>3, CallIs
  <2>5. QED
    BY <2>1, <2>2, <2>4
<1>5. \A p : ~Has(x, p) /\ Single(x, p)
  BY <1>4, EmptyIs
<1>6. KnownTo(x) /\ Entitled(x)'
  BY <1>1, <1>4, <1>5, EmptyIs DEF KnownTo, Entitled
<1>7. /\ Idle.left = <<>>
      /\ \A p : ~Buries(Idle, p) /\ ~Requeues(Idle, p) /\ ~Notes(Idle, p)
  BY IdleIs
<1>8. Types
  BY DEF Inv, Base
<1>9. QED
  BY <1>1, <1>3, <1>4, <1>5, <1>6, <1>7, <1>8, QuietStep
     DEF stored, history, Flushes, Types

LEMMA TapStep ==
    ASSUME Inv, NEW t \in Tasks, NEW o \in Ops, NEW fn \in {"retry", "dequeue", "requeue"},
           Tap(t, o, fn)
    PROVE  Inv'
<1>1. /\ task[t] = Idle /\ o \in accepted
      /\ discarded' = IF fn = "dequeue" THEN discarded \cup {o} ELSE discarded
      /\ UNCHANGED <<stored, flushing, accepted, effects, unanswered, stale, cut, faults>>
  BY DEF Tap, IsIdle
<1>2. PICK x : x = Calling(o, fn, <<>>)
  OBVIOUS
<1>3. Becomes(t, x)
  BY <1>2 DEF Tap, Becomes
<1>4. /\ x \in Handler /\ HandlerOK(x) /\ x.fn = fn /\ x.op = o
      /\ x.left = <<>> /\ x.q = <<>> /\ x.d = <<>>
      /\ \A p : ~Buries(x, p) /\ ~Requeues(x, p)
  <2>1. PICK left : left = <<>> /\ left \in Seq(Ops)
    BY EmptyIs
  <2>2. PICK f \in {"enqueue", "dequeue", "retry", "requeue"} : f = fn
    OBVIOUS
  <2>3. /\ left \in Seq(Ops) /\ x = Calling(o, f, left)
        /\ left # <<>> => o = left[1] /\ f \in {"dequeue", "retry"}
    BY <1>2, <2>1, <2>2
  <2>4. /\ x \in Handler /\ HandlerOK(x) /\ x.fn = f /\ x.op = o
        /\ x.left = left /\ x.q = <<>> /\ x.d = <<>>
        /\ \A p : ~Buries(x, p) /\ ~Requeues(x, p)
    BY <2>3, CallIs
  <2>5. QED
    BY <2>1, <2>2, <2>4
<1>5. \A p : ~Has(x, p) /\ Single(x, p)
  BY <1>4, EmptyIs
<1>6. KnownTo(x) /\ Entitled(x)'
  BY <1>1, <1>4, <1>5, EmptyIs DEF KnownTo, Entitled
<1>7. /\ Idle.left = <<>>
      /\ \A p : ~Buries(Idle, p) /\ ~Requeues(Idle, p) /\ ~Notes(Idle, p)
  BY IdleIs
<1>8. Types
  BY DEF Inv, Base
<1>9. QED
  BY <1>1, <1>3, <1>4, <1>5, <1>6, <1>7, <1>8, QuietStep DEF stored, Flushes, Types

LEMMA FlushStep ==
    ASSUME Inv, NEW t \in Tasks, NEW waiting \in SUBSET Ops, Flush(t, waiting) PROVE Inv'
<1>1. Types /\ Known
  BY DEF Inv, Base
<1> DEFINE I == {i \in DOMAIN queue : queue[i].op \notin waiting \/ queue[i].retries = 0}
           ready == Filtered(queue, I)
<1>2. /\ task[t] = Idle /\ flushing = FALSE /\ ready # <<>> /\ flushing' = TRUE
      /\ Becomes(t, Replaying([i \in DOMAIN ready |-> ready[i].op]))
      /\ UNCHANGED <<stored, history, bounds>>
  BY <1>1 DEF Flush, IsIdle, MayFlush, Becomes, Types
<1> HIDE DEF I
<1>3. /\ ready \in Seq(Entry)
      /\ \A o : In(ready, o) => In(queue, o)
      /\ \A o : Once(queue, o) => Once(ready, o)
  <2>1. queue \in Seq(Entry)
    BY <1>1 DEF Types
  <2>2. \A o : Once(queue, o) =>
            \A i, j \in DOMAIN queue \cap I : queue[i].op = o /\ queue[j].op = o => i = j
    BY DEF Once
  <2>3. \A o : (\E i \in DOMAIN queue : i \in I /\ queue[i].op = o) => In(queue, o)
    BY InIs
  <2>4. QED
    BY <2>1, <2>2, <2>3, FilteredQueue
<1> HIDE DEF ready
<1>4. PICK left : left = [i \in DOMAIN ready |-> ready[i].op]
  OBVIOUS
<1>5. /\ left \in Seq(Ops) /\ left # <<>> /\ DOMAIN left = DOMAIN ready
      /\ \A i \in DOMAIN ready : left[i] = ready[i].op
  <2>1. DOMAIN ready = 1 .. Len(ready) /\ Len(ready) \in Nat /\ Len(ready) # 0
    BY <1>2, <1>3, EmptySeq
  <2>2. \A i \in DOMAIN ready : ready[i] \in Entry /\ ready[i].op \in Ops
    <3>1. \A i \in 1 .. Len(ready) : ready[i] \in Entry
      BY <1>3, ElementOfSeq
    <3>2. \A e \in Entry : e.op \in Ops
      BY DEF Entry
    <3>3. QED
      BY <2>1, <3>1, <3>2
  <2>3. left \in [1 .. Len(ready) -> Ops]
    BY <1>4, <2>1, <2>2
  <2>4. left \in Seq(Ops)
    BY <2>1, <2>3, SeqDef
  <2>5. 1 \in DOMAIN left
    BY <1>4, <2>1
  <2>6. QED
    BY <1>4, <2>4, <2>5
<1>6. PICK x : x = Replaying(left)
  OBVIOUS
<1>7. /\ x = [fn |-> "none", op |-> left[1], at |-> 0, fetching |-> TRUE,
              left |-> left, q |-> <<>>, d |-> <<>>]
      /\ x \in Handler /\ HandlerOK(x)
  BY <1>5, <1>6, ReplayingIs
<1>8. x.fn = "none" /\ x.left = left /\ x.q = <<>> /\ x.d = <<>>
  BY <1>7
<1>9. \A o : ~Buries(x, o) /\ ~Requeues(x, o)
  BY <1>8 DEF Buries, Requeues
<1>10. ASSUME NEW o PROVE /\ Has(x, o) => In(queue, o)
                          /\ Once(queue, o) => Single(x, o)
  <2>1. Has(x, o) => In(ready, o)
    BY <1>5, <1>8, InIs DEF Has
  <2>2. Once(ready, o) => Single(x, o)
    BY <1>5, <1>8 DEF Once, Single
  <2>3. QED
    BY <1>3, <2>1, <2>2
<1>11. KnownTo(x) /\ Entitled(x)'
  BY <1>1, <1>8, <1>10, EmptyIs DEF KnownTo, Entitled, Known
<1>12. /\ Idle.left = <<>>
       /\ \A p : ~Buries(Idle, p) /\ ~Requeues(Idle, p) /\ ~Notes(Idle, p)
  BY IdleIs
<1>13. Becomes(t, x)
  BY <1>2, <1>4, <1>6
<1>14. x.left # <<>>
  BY <1>5, <1>8
<1>15. x.fn # "enqueue"
  BY <1>8
<1>16. QED
  BY <1>1, <1>2, <1>7, <1>9, <1>10, <1>11, <1>12, <1>13, <1>14, <1>15, QuietStep
     DEF stored, history, Types

\* A handler that waits for the server is a flush at the head of its snapshot.
LEMMA FetchingIs ==
    ASSUME NEW c \in Handler, HandlerOK(c), c.fetching
    PROVE  /\ c.fn = "none" /\ c.left # <<>> /\ c.left \in Seq(Ops) /\ c.op \in Ops
           /\ c.op = c.left[1] /\ Has(c, c.op)
<1>1. Idle.fetching = FALSE
  BY IdleIs
<1>2. c.fn = "none" /\ c.left # <<>> /\ c.op = c.left[1] /\ c.left \in Seq(Ops)
  BY <1>1 DEF HandlerOK, Handler
<1>3. 1 \in DOMAIN c.left /\ c.left[1] \in Ops
  BY <1>2
<1>4. QED
  BY <1>2, <1>3 DEF Has

LEMMA FailedStep ==
    ASSUME Inv, NEW t \in Tasks, NEW applied \in BOOLEAN, Failed(t, applied) PROVE Inv'
<1>1. Types /\ Handled
  BY DEF Inv, Base
<1>2. PICK c : c = task[t]
  OBVIOUS
<1>3. c \in Handler /\ HandlerOK(c) /\ KnownTo(c) /\ c.fetching
  BY <1>1, <1>2 DEF Handled, Types, Failed
<1>4. /\ c.fn = "none" /\ c.left # <<>> /\ c.left \in Seq(Ops) /\ c.op \in Ops
      /\ c.op = c.left[1] /\ Has(c, c.op)
  BY <1>3, FetchingIs
<1>5. PICK x : x = Calling(c.op, "retry", c.left)
  OBVIOUS
<1>6. Becomes(t, x)
  BY <1>2, <1>5 DEF Failed, Becomes
<1>7. /\ x \in Handler /\ HandlerOK(x) /\ x.fn = "retry" /\ x.op = c.op
      /\ x.left = c.left /\ x.q = <<>> /\ x.d = <<>>
      /\ \A p : ~Buries(x, p) /\ ~Requeues(x, p)
  BY <1>4, <1>5, CallIs
<1>8. \A p : (Has(x, p) <=> Has(c, p)) /\ (Single(x, p) <=> Single(c, p))
  BY <1>7 DEF Has, Single
<1>9. \A p : ~Buries(c, p) /\ ~Requeues(c, p) /\ ~Notes(c, p)
  BY <1>4 DEF Buries, Requeues, Notes
<1>10. c.op \in accepted
  BY <1>3, <1>4 DEF KnownTo
<1>11. KnownTo(x) /\ Entitled(x)'
  BY <1>3, <1>7, <1>8, <1>10, EmptyIs DEF KnownTo, Entitled
<1>12. flushing = TRUE /\ Flushes(t)
  BY <1>1, <1>2, <1>4 DEF Inv, Base, Alone, Flushes, Types
<1>13. /\ UNCHANGED <<stored, flushing, accepted, discarded, stale, cut, taps>>
       /\ effects' = IF applied THEN [effects EXCEPT ![c.op] = @ + 1] ELSE effects
       /\ unanswered' = IF applied THEN unanswered \cup {c.op} ELSE unanswered
  BY <1>2 DEF Failed
<1>14. /\ effects' \in [Ops -> Nat]
       /\ \A o \in Ops : \/ effects'[o] = effects[o]
                         \/ effects'[o] >= effects[o] /\ o \in unanswered' /\ o \in accepted
  BY <1>1, <1>4, <1>10, <1>13 DEF Types
<1>15. x.left # <<>> /\ x.fn # "enqueue"
  BY <1>4, <1>7
<1>16. QED
  BY <1>1, <1>2, <1>6, <1>7, <1>8, <1>9, <1>11, <1>12, <1>13, <1>14, <1>15, QuietStep
     DEF stored, Types

\* A storage call that is done.
LEMMA ReadsIs ==
    ASSUME NEW c \in Handler, NEW r, NEW b
    PROVE  /\ [c EXCEPT !.q = r, !.at = @ + 1, !.fn = IF b THEN "bury" ELSE @]
                = [fn |-> IF b THEN "bury" ELSE c.fn, op |-> c.op, at |-> c.at + 1,
                   fetching |-> c.fetching, left |-> c.left, q |-> r, d |-> c.d]
           /\ [c EXCEPT !.d = r, !.at = @ + 1]
                = [fn |-> c.fn, op |-> c.op, at |-> c.at + 1,
                   fetching |-> c.fetching, left |-> c.left, q |-> c.q, d |-> r]
<1>1. c = [fn |-> c.fn, op |-> c.op, at |-> c.at, fetching |-> c.fetching,
           left |-> c.left, q |-> c.q, d |-> c.d]
  BY DEF Handler
<1>2. PICK m, o, a, g, l, q, d :
         /\ m = c.fn /\ o = c.op /\ a = c.at /\ g = c.fetching /\ l = c.left /\ q = c.q /\ d = c.d
         /\ c = [fn |-> m, op |-> o, at |-> a, fetching |-> g, left |-> l, q |-> q, d |-> d]
  BY <1>1
<1>3. PICK f, z : f = (IF b THEN "bury" ELSE m) /\ z = a + 1
  OBVIOUS
<1> DEFINE i == [c EXCEPT !.q = r]
           j == [i EXCEPT !.at = z]
           k == [j EXCEPT !.fn = f]
           u == [c EXCEPT !.d = r]
           v == [u EXCEPT !.at = z]
<1>4. i = [fn |-> m, op |-> o, at |-> a, fetching |-> g, left |-> l, q |-> r, d |-> d]
  BY <1>2
<1> HIDE DEF i
<1>5. j = [fn |-> m, op |-> o, at |-> z, fetching |-> g, left |-> l, q |-> r, d |-> d]
  BY <1>4
<1>6. i.at + 1 = z
  BY <1>3, <1>4
<1> HIDE DEF j
<1>7. k = [fn |-> f, op |-> o, at |-> z, fetching |-> g, left |-> l, q |-> r, d |-> d]
  BY <1>5
<1>8. (IF b THEN "bury" ELSE j.fn) = f
  BY <1>3, <1>5
<1> HIDE DEF k
<1>9. u = [fn |-> m, op |-> o, at |-> a, fetching |-> g, left |-> l, q |-> q, d |-> r]
  BY <1>2
<1> HIDE DEF u
<1>10. v = [fn |-> m, op |-> o, at |-> z, fetching |-> g, left |-> l, q |-> q, d |-> r]
  BY <1>9
<1>11. u.at + 1 = z
  BY <1>3, <1>9
<1> HIDE DEF v
<1>12. [c EXCEPT !.q = r, !.at = @ + 1, !.fn = IF b THEN "bury" ELSE @] = k
  BY <1>6, <1>8, Zenon DEF i, j, k
<1>13. [c EXCEPT !.d = r, !.at = @ + 1] = v
  BY <1>11, Zenon DEF u, v
<1>14. QED
  BY <1>2, <1>3, <1>7, <1>10, <1>12, <1>13

\* A handler that ends an operation: the flush goes on while its snapshot lasts.
LEMMA StillIs ==
    ASSUME Types, Alone, NEW t \in Tasks, NEW x, x.left # <<>> <=> Len(task[t].left) > 1
    PROVE  /\ StillFlushing(t) \in BOOLEAN
           /\ \/ x.left # <<>> /\ StillFlushing(t) = TRUE /\ (Flushes(t) \/ flushing = FALSE)
              \/ x.left = <<>> /\ Flushes(t) /\ StillFlushing(t) = FALSE
              \/ x.left = <<>> /\ ~Flushes(t) /\ StillFlushing(t) = flushing
<1>1. task[t].left \in Seq(Ops) /\ flushing \in BOOLEAN
  BY DEF Types, Handler
<1>2. PICK n \in Nat : n = Len(task[t].left) /\ (n = 0 <=> task[t].left = <<>>)
  BY <1>1, EmptySeq
<1>3. PICK more : more = (x.left # <<>>)
  OBVIOUS
<1>4. (more <=> n > 1) /\ more \in BOOLEAN
  BY <1>2, <1>3
<1>5. Flushes(t) <=> n # 0
  BY <1>2, Zenon DEF Flushes
<1>6. Flushes(t) => flushing = TRUE
  BY <1>1 DEF Alone
<1>7. StillFlushing(t) = (flushing /\ n # 1)
  BY <1>2, Zenon DEF StillFlushing
<1>8. CASE n = 0
  <2>1. ~Flushes(t) /\ ~more /\ n # 1
    BY <1>4, <1>5, <1>8
  <2>2. StillFlushing(t) = flushing
    BY <1>1, <1>7, <2>1, Zenon
  <2>3. QED
    BY <1>1, <1>3, <2>1, <2>2, Zenon
<1>9. CASE n = 1
  <2>1. Flushes(t) /\ ~more
    BY <1>4, <1>5, <1>9
  <2>2. StillFlushing(t) = FALSE
    BY <1>7, <1>9, Zenon
  <2>3. QED
    BY <1>3, <2>1, <2>2, Zenon
<1>10. CASE n > 1
  <2>1. Flushes(t) /\ more /\ n # 1
    BY <1>4, <1>5, <1>10
  <2>2. StillFlushing(t) = TRUE
    BY <1>6, <1>7, <2>1, Zenon
  <2>3. QED
    BY <1>3, <2>1, <2>2, Zenon
<1>11. n = 0 \/ n = 1 \/ n > 1
  OBVIOUS
<1>12. QED
  BY <1>8, <1>9, <1>10, <1>11, Zenon

LEMMA ReadQueueStep ==
    ASSUME Inv, NEW t \in Tasks, NEW fails \in BOOLEAN, ReadQueue(t, fails) PROVE Inv'
<1>1. Types /\ Handled /\ Known /\ Alone
  BY DEF Inv, Base
<1>2. PICK c, read : c = task[t] /\ read = IF fails THEN <<>> ELSE queue
  OBVIOUS
<1> DEFINE buries == /\ c.fn = "retry" /\ c.op \in NamesIn(read)
                     /\ FirstOf(read, c.op).retries + 1 >= MaxRetries
           absent == c.fn \in {"retry", "bury"} /\ c.op \notin NamesIn(read)
<1>3. /\ AtStep(t, "readQueue")
      /\ Becomes(t, IF absent THEN After(t)
                    ELSE [c EXCEPT !.q = read, !.at = @ + 1, !.fn = IF buries THEN "bury" ELSE @])
      /\ flushing' = IF absent THEN StillFlushing(t) ELSE flushing
      /\ UNCHANGED <<stored, history, taps>>
  BY <1>2, Zenon DEF ReadQueue, Becomes
<1>4. c \in Handler /\ HandlerOK(c) /\ KnownTo(c) /\ Entitled(c)
  BY <1>1, <1>2 DEF Handled, Types
<1>5. \/ c.fn \in {"enqueue", "dequeue", "retry"} /\ c.at = 1
      \/ c.fn = "requeue" /\ c.at = 3
  BY <1>2, <1>3, <1>4, AtIs
<1>6. read \in Seq(Entry) /\ \A o : In(read, o) => o \in accepted
  BY <1>1, <1>2, EmptyIs DEF Types, Known
<1>7. \A o : ~Buries(c, o)
  BY <1>5 DEF Buries
<1>8. /\ queue' = queue /\ dead' = dead /\ accepted' = accepted /\ stale' = stale
      /\ discarded' = discarded /\ unanswered' = unanswered /\ cut' = cut /\ effects' = effects
      /\ cut \subseteq Functions \X Ops /\ effects \in [Ops -> Nat] /\ flushing \in BOOLEAN
  BY <1>1, <1>3 DEF stored, history, Types
<1>9. CASE absent
  <2>1. c.fn = "retry"
    BY <1>5, <1>9
  <2>2. PICK x : x = After(t)
    OBVIOUS
  <2>3. /\ x \in Handler /\ HandlerOK(x) /\ x.fn = "none"
        /\ x.left # <<>> <=> Len(c.left) > 1
        /\ x.q = <<>> /\ x.d = <<>>
        /\ \A o : Has(x, o) => Has(c, o)
        /\ \A o : Single(c, o) => Single(x, o)
    BY <1>2, <1>4, <2>1, <2>2, AfterIs
  <2>4. Becomes(t, x) /\ flushing' = StillFlushing(t)
    BY <1>3, <1>9, <2>2
  <2>5. \A o : ~Buries(x, o) /\ ~Requeues(x, o) /\ ~Requeues(c, o) /\ ~Notes(c, o)
    BY <2>1, <2>3 DEF Buries, Requeues, Notes
  <2>6. KnownTo(x) /\ Entitled(x)'
    BY <1>4, <2>3, EmptyIs DEF KnownTo, Entitled
  <2>7. /\ \/ x.left # <<>> /\ flushing' = TRUE /\ (Flushes(t) \/ flushing = FALSE)
           \/ x.left = <<>> /\ Flushes(t) /\ flushing' = FALSE
           \/ x.left = <<>> /\ ~Flushes(t) /\ flushing' = flushing
        /\ flushing' \in BOOLEAN
    BY <1>1, <1>2, <2>3, <2>4, StillIs, Zenon
  <2>8. x.fn # "enqueue"
    BY <2>3
  <2>9. QED
    BY <1>2, <1>7, <1>8, <2>3, <2>4, <2>5, <2>6, <2>7, <2>8, QuietStep
<1>10. CASE ~absent
  <2>1. PICK x : x = [c EXCEPT !.q = read, !.at = @ + 1, !.fn = IF buries THEN "bury" ELSE @]
    OBVIOUS
  <2>2. Becomes(t, x) /\ flushing' = flushing
    BY <1>3, <1>10, <2>1
  <2>3. x = [fn |-> IF buries THEN "bury" ELSE c.fn, op |-> c.op, at |-> c.at + 1,
             fetching |-> c.fetching, left |-> c.left, q |-> read, d |-> c.d]
    BY <1>4, <2>1, ReadsIs
  <2>4. /\ x.fn = (IF buries THEN "bury" ELSE c.fn) /\ x.op = c.op /\ x.at = c.at + 1
        /\ x.fetching = c.fetching /\ x.left = c.left /\ x.q = read /\ x.d = c.d
    BY <2>3
  <2>5. /\ x.fn \in Functions \ {"none"} /\ x.at \in {2, 4}
        /\ x.fn = "bury" => c.fn = "retry" /\ x.at = 2 /\ In(read, c.op)
        /\ x.fn # "bury" => x.fn = c.fn
    BY <1>5, <2>4 DEF Functions, In
  <2>6. x \in Handler
    BY <1>4, <1>6, <2>3, <2>4, <2>5 DEF Handler
  <2>7. HandlerOK(x)
    <3>1. ~c.fetching /\ c.op \in Ops
      BY <1>4, <1>5 DEF HandlerOK
    <3>2. x.at \in 1 .. Len(StepsOf(x.fn))
      <4>1. x.fn \in {"enqueue", "dequeue", "retry"} => x.at = 2
        BY <1>5, <2>4, <2>5
      <4>2. x.fn \in {"enqueue", "dequeue", "retry"} \/ x.fn \in {"bury", "requeue"}
        BY <2>5 DEF Functions
      <4>3. QED
        BY <2>5, <4>1, <4>2, LengthIs
    <3>3. x.left # <<>> => x.op = x.left[1] /\ x.fn \in {"none", "dequeue", "retry", "bury"}
      BY <1>4, <2>4, <2>5 DEF HandlerOK
    <3>4. x.fn = "requeue" => x.at # 2
      BY <1>5, <2>4, <2>5
    <3>5. QED
      BY <2>4, <2>5, <3>1, <3>2, <3>3, <3>4 DEF HandlerOK
  <2>8. \A o : /\ ~Buries(x, o) /\ (Requeues(x, o) <=> Requeues(c, o))
               /\ (Has(x, o) <=> Has(c, o)) /\ (Single(x, o) <=> Single(c, o))
               /\ (Notes(x, o) <=> Notes(c, o))
    <3>1. \A o : ~Buries(x, o)
      BY <2>5 DEF Buries
    <3>2. \A o : Requeues(x, o) <=> Requeues(c, o)
      BY <1>5, <2>4, <2>5 DEF Requeues
    <3>3. \A o : (Has(x, o) <=> Has(c, o)) /\ (Single(x, o) <=> Single(c, o))
      BY <2>4 DEF Has, Single
    <3>4. \A o : Notes(x, o) <=> Notes(c, o)
      BY <1>5, <2>4, <2>5 DEF Notes
    <3>5. QED
      BY <3>1, <3>2, <3>3, <3>4
  <2>9. KnownTo(x)
    <3>1. \A o : In(x.q, o) \/ In(x.d, o) \/ Has(x, o) => o \in accepted
      BY <1>4, <1>6, <2>4, <2>8 DEF KnownTo
    <3>2. QED
      BY <1>4, <2>4, <2>5, <3>1 DEF KnownTo
  <2>10. Entitled(x)'
    BY <1>4, <1>8, <2>4, <2>5 DEF Entitled
  <2>11. /\ x.left # <<>> => flushing = TRUE /\ Flushes(t)
         /\ x.left = <<>> => ~Flushes(t)
    BY <1>1, <1>2, <2>4 DEF Alone, Flushes, Types
  <2>12. x.fn = "enqueue" => task[t].fn = "enqueue" /\ task[t].op = x.op
    BY <1>2, <2>4, <2>5
  <2>13. QED
    BY <1>2, <1>7, <1>8, <2>2, <2>6, <2>7, <2>8, <2>9, <2>10, <2>11, <2>12, QuietStep
<1>11. QED
  BY <1>9, <1>10

LEMMA ReadDeadStep ==
    ASSUME Inv, NEW t \in Tasks, NEW fails \in BOOLEAN, ReadDead(t, fails) PROVE Inv'
<1>1. Types /\ Handled /\ Known /\ Alone
  BY DEF Inv, Base
<1>2. PICK c, read : c = task[t] /\ read = IF fails THEN <<>> ELSE dead
  OBVIOUS
<1> DEFINE absent == c.fn = "requeue" /\ c.op \notin NamesIn(read)
<1>3. /\ AtStep(t, "readDead")
      /\ Becomes(t, IF absent THEN Idle ELSE [c EXCEPT !.d = read, !.at = @ + 1])
      /\ UNCHANGED <<stored, flushing, history, taps>>
  BY <1>2, Zenon DEF ReadDead, Becomes
<1>4. c \in Handler /\ HandlerOK(c) /\ KnownTo(c) /\ Entitled(c)
  BY <1>1, <1>2 DEF Handled, Types
<1>5. \/ c.fn = "bury" /\ c.at = 2
      \/ c.fn = "requeue" /\ c.at = 1
  BY <1>2, <1>3, <1>4, AtIs
<1>6. read \in Seq(Entry) /\ \A o : In(read, o) => o \in accepted
  BY <1>1, <1>2, EmptyIs DEF Types, Known
<1>7. \A o : ~Buries(c, o) /\ ~Requeues(c, o) /\ ~Notes(c, o)
  BY <1>5 DEF Buries, Requeues, Notes
<1>8. /\ queue' = queue /\ dead' = dead /\ accepted' = accepted /\ stale' = stale
      /\ discarded' = discarded /\ unanswered' = unanswered /\ cut' = cut /\ effects' = effects
      /\ cut \subseteq Functions \X Ops /\ effects \in [Ops -> Nat] /\ flushing \in BOOLEAN
      /\ flushing' = flushing
  BY <1>1, <1>3 DEF stored, history, Types
<1>9. CASE absent
  <2>1. c.left = <<>>
    BY <1>4, <1>9 DEF HandlerOK
  <2>2. PICK x : x = Idle
    OBVIOUS
  <2>3. /\ x \in Handler /\ HandlerOK(x) /\ x.fn = "none" /\ x.left = <<>>
        /\ x.q = <<>> /\ x.d = <<>>
        /\ \A o : /\ ~Has(x, o) /\ Single(x, o) /\ ~Buries(x, o) /\ ~Requeues(x, o)
    BY <2>2, IdleIs
  <2>4. Becomes(t, x)
    BY <1>3, <1>9, <2>2
  <2>5. KnownTo(x) /\ Entitled(x)'
    BY <2>3, EmptyIs DEF KnownTo, Entitled
  <2>6. ~Flushes(t) /\ x.fn # "enqueue"
    BY <1>2, <2>1, <2>3 DEF Flushes
  <2>7. QED
    BY <1>2, <1>7, <1>8, <2>3, <2>4, <2>5, <2>6, QuietStep
<1>10. CASE ~absent
  <2>1. PICK x : x = [c EXCEPT !.d = read, !.at = @ + 1]
    OBVIOUS
  <2>2. Becomes(t, x)
    BY <1>3, <1>10, <2>1
  <2>3. x = [fn |-> c.fn, op |-> c.op, at |-> c.at + 1,
             fetching |-> c.fetching, left |-> c.left, q |-> c.q, d |-> read]
    BY <1>4, <2>1, ReadsIs
  <2>4. /\ x.fn = c.fn /\ x.op = c.op /\ x.at = c.at + 1
        /\ x.fetching = c.fetching /\ x.left = c.left /\ x.q = c.q /\ x.d = read
    BY <2>3
  <2>5. \/ x.fn = "bury" /\ x.at = 3
        \/ x.fn = "requeue" /\ x.at = 2 /\ In(read, x.op)
    BY <1>5, <1>10, <2>4 DEF In
  <2>6. x \in Handler
    BY <1>4, <1>6, <2>3, <2>4, <2>5 DEF Handler
  <2>7. HandlerOK(x)
    <3>1. /\ ~c.fetching /\ c.op \in Ops
          /\ c.left # <<>> => c.op = c.left[1] /\ c.fn \in {"none", "dequeue", "retry", "bury"}
          /\ c.fn = "bury" => In(c.q, c.op)
      BY <1>4, <1>5 DEF HandlerOK
    <3>2. x.at \in 1 .. Len(StepsOf(x.fn))
      <4>1. x.fn \in {"bury", "requeue"} /\ x.at \in 1 .. 4
        BY <2>5
      <4>2. QED
        BY <4>1, LengthIs
    <3>3. QED
      BY <2>4, <2>5, <3>1, <3>2 DEF HandlerOK
  <2>8. \A o : /\ ~Buries(x, o) /\ ~Requeues(x, o)
               /\ (Has(x, o) <=> Has(c, o)) /\ (Single(x, o) <=> Single(c, o))
    BY <2>4, <2>5 DEF Has, Single, Buries, Requeues
  <2>9. KnownTo(x)
    <3>1. \A o : In(x.q, o) \/ In(x.d, o) \/ Has(x, o) => o \in accepted
      BY <1>4, <1>6, <2>4, <2>8 DEF KnownTo
    <3>2. QED
      BY <1>4, <2>4, <2>5, <3>1 DEF KnownTo
  <2>10. Entitled(x)' /\ x.fn # "enqueue"
    BY <2>5 DEF Entitled
  <2>11. /\ x.left # <<>> => flushing = TRUE /\ Flushes(t)
         /\ x.left = <<>> => ~Flushes(t)
    BY <1>1, <1>2, <2>4 DEF Alone, Flushes, Types
  <2>12. QED
    BY <1>2, <1>7, <1>8, <2>2, <2>6, <2>7, <2>8, <2>9, <2>10, <2>11, QuietStep
<1>11. QED
  BY <1>9, <1>10

-----------------------------------------------------------------------------
(* Failures                                                                     *)

LEMMA CutOffIs ==
    ASSUME Types, Handled, NEW S \in SUBSET Tasks
    PROVE  /\ CutOff(S) \subseteq Functions \X Ops
           /\ \A t \in S : \A o : /\ Buries(task[t], o) => <<"bury", o>> \in CutOff(S)
                                  /\ Requeues(task[t], o) => <<"requeue", o>> \in CutOff(S)
<1>1. \A t \in S : task[t] \in Handler /\ HandlerOK(task[t])
  BY DEF Types, Handled
<1>2. ASSUME NEW t \in S, Midway(t) PROVE <<task[t].fn, task[t].op>> \in Functions \X Ops
  BY <1>1, <1>2, MidwayIs DEF Buries, Requeues, HandlerOK, Functions
<1>3. CutOff(S) \subseteq Functions \X Ops
  BY <1>2 DEF CutOff
<1>4. ASSUME NEW t \in S, NEW o, Buries(task[t], o) \/ Requeues(task[t], o)
      PROVE  <<task[t].fn, o>> \in CutOff(S)
  <2>1. task[t].op = o
    BY <1>4 DEF Buries, Requeues
  <2>2. Midway(t)
    BY <1>1, <1>4, <2>1, MidwayIs
  <2>3. QED
    BY <2>1, <2>2 DEF CutOff
<1>5. QED
  BY <1>3, <1>4 DEF Buries, Requeues

LEMMA WriteFailsStep ==
    ASSUME Inv, NEW t \in Tasks, WriteFails(t) PROVE Inv'
<1>1. Types /\ Handled /\ Known /\ Alone
  BY DEF Inv, Base
<1>2. PICK c : c = task[t]
  OBVIOUS
<1> DEFINE removing == c.fn = "dequeue" /\ c.left # <<>>
<1>3. /\ AtStep(t, "writeDead") \/ AtStep(t, "writeQueue")
      /\ cut' = cut \cup CutOff({t})
      /\ unanswered' = unanswered \cup Unnoted({t})
      /\ Becomes(t, IF removing THEN Calling(c.op, "retry", c.left) ELSE Idle)
      /\ flushing' = IF removing THEN flushing ELSE Aborted(t)
      /\ UNCHANGED <<stored, accepted, discarded, effects, stale, taps>>
  BY <1>2, Zenon DEF WriteFails, Becomes
<1>4. c \in Handler /\ HandlerOK(c) /\ KnownTo(c) /\ Entitled(c)
  BY <1>1, <1>2 DEF Handled, Types
<1>5. c.fn # "none" /\ c.fn \in Functions /\ c.op \in Ops
  BY <1>2, <1>3, <1>4 DEF AtStep, HandlerOK, Handler
<1>6. /\ CutOff({t}) \subseteq Functions \X Ops
      /\ \A o : /\ Buries(c, o) => <<"bury", o>> \in CutOff({t})
                /\ Requeues(c, o) => <<"requeue", o>> \in CutOff({t})
  <2>1. {t} \in SUBSET Tasks /\ t \in {t}
    OBVIOUS
  <2>2. QED
    BY <1>1, <1>2, <2>1, CutOffIs
<1>7. /\ queue' = queue /\ dead' = dead /\ accepted' = accepted /\ stale' = stale
      /\ discarded' = discarded /\ unanswered \subseteq unanswered' /\ effects' = effects
      /\ cut \subseteq cut' /\ cut' \subseteq Functions \X Ops /\ CutOff({t}) \subseteq cut'
      /\ effects \in [Ops -> Nat] /\ flushing \in BOOLEAN
  BY <1>1, <1>3, <1>6 DEF stored, Types
<1>8. CASE removing
  <2>1. PICK x : x = Calling(c.op, "retry", c.left)
    OBVIOUS
  <2>2. Becomes(t, x) /\ flushing' = flushing
    BY <1>3, <1>8, <2>1
  <2>3. c.left \in Seq(Ops) /\ c.op = c.left[1]
    BY <1>4, <1>8 DEF Handler, HandlerOK
  <2>4. /\ x \in Handler /\ HandlerOK(x) /\ x.fn = "retry" /\ x.op = c.op
        /\ x.left = c.left /\ x.q = <<>> /\ x.d = <<>>
        /\ \A p : ~Buries(x, p) /\ ~Requeues(x, p)
    BY <1>5, <2>1, <2>3, CallIs
  <2>5. \A p : (Has(x, p) <=> Has(c, p)) /\ (Single(x, p) <=> Single(c, p))
    BY <2>4 DEF Has, Single
  <2>6. \A p : Notes(c, p) => p \in unanswered'
    <3>1. c.op \in Unnoted({t})
      BY <1>2, <1>8 DEF Unnoted
    <3>2. QED
      BY <1>3, <3>1 DEF Notes
  <2>7. KnownTo(x) /\ Entitled(x)'
    BY <1>4, <1>8, <2>4, <2>5, EmptyIs DEF KnownTo, Entitled
  <2>8. flushing = TRUE /\ Flushes(t)
    BY <1>1, <1>2, <1>8 DEF Alone, Flushes, Types
  <2>9. x.left # <<>> /\ x.fn # "enqueue"
    BY <1>8, <2>4
  <2>10. \A p : ~Buries(c, p) /\ ~Requeues(c, p)
    BY <1>8 DEF Buries, Requeues
  <2>11. QED
    BY <1>2, <1>7, <2>2, <2>4, <2>5, <2>6, <2>7, <2>8, <2>9, <2>10, QuietStep
<1>9. CASE ~removing
  <2>1. PICK x : x = Idle
    OBVIOUS
  <2>2. Becomes(t, x) /\ flushing' = Aborted(t)
    BY <1>3, <1>9, <2>1
  <2>3. /\ x \in Handler /\ HandlerOK(x) /\ x.fn = "none" /\ x.left = <<>>
        /\ x.q = <<>> /\ x.d = <<>>
        /\ \A o : ~Has(x, o) /\ Single(x, o) /\ ~Buries(x, o) /\ ~Requeues(x, o)
    BY <2>1, IdleIs
  <2>4. KnownTo(x) /\ Entitled(x)'
    BY <2>3, EmptyIs DEF KnownTo, Entitled
  <2>5. \A o : ~Notes(c, o)
    BY <1>9 DEF Notes
  <2>6. flushing' = (flushing /\ c.left = <<>>)
    BY <1>2, <2>2 DEF Aborted
  <2>7. /\ Flushes(t) => flushing' = FALSE
        /\ ~Flushes(t) => flushing' = flushing
        /\ flushing' \in BOOLEAN
    BY <1>2, <1>7, <2>6, Zenon DEF Flushes
  <2>8. x.fn # "enqueue"
    BY <2>3
  <2>9. QED
    BY <1>2, <1>6, <1>7, <2>2, <2>3, <2>4, <2>5, <2>7, <2>8, QuietStep
<1>10. QED
  BY <1>8, <1>9

LEMMA RestartStep ==
    ASSUME Inv, NEW applied \in SUBSET Ops, Restart(applied) PROVE Inv'
<1>1. Types /\ Handled /\ Known /\ Alone
  BY DEF Inv, Base
<1>2. /\ applied \subseteq {task[t].op : t \in {u \in Tasks : task[u].fetching}}
      /\ effects' = [o \in Ops |-> IF o \in applied THEN effects[o] + 1 ELSE effects[o]]
      /\ unanswered' = unanswered \cup applied \cup Unnoted(Tasks)
      /\ cut' = cut \cup CutOff(Tasks)
      /\ flushing' = FALSE
      /\ task' = [t \in Tasks |-> Idle]
      /\ queue' = queue /\ dead' = dead /\ accepted' = accepted /\ discarded' = discarded
      /\ stale' = stale
  BY DEF Restart, stored
<1>3. /\ Idle \in Handler /\ HandlerOK(Idle)
      /\ Idle.fn = "none" /\ Idle.left = <<>> /\ Idle.q = <<>> /\ Idle.d = <<>>
      /\ \A o : /\ ~Has(Idle, o) /\ Single(Idle, o) /\ ~Buries(Idle, o)
                /\ ~Requeues(Idle, o) /\ ~Notes(Idle, o)
  BY IdleIs
<1>4. \A t \in Tasks : task'[t] = Idle
  BY <1>2
<1>5. /\ CutOff(Tasks) \subseteq cut' /\ cut' \subseteq Functions \X Ops
      /\ \A t \in Tasks : \A o : /\ Buries(task[t], o) => <<"bury", o>> \in cut'
                                 /\ Requeues(task[t], o) => <<"requeue", o>> \in cut'
  BY <1>1, <1>2, CutOffIs DEF Types
<1>6. \A o \in Ops : /\ effects[o] \in Nat /\ effects'[o] \in Nat
                     /\ effects'[o] >= effects[o]
                     /\ o \notin applied => effects'[o] = effects[o]
  BY <1>1, <1>2 DEF Types
<1>7. Types'
  <2>1. task' \in [Tasks -> Handler]
    BY <1>2, <1>3
  <2>2. effects' \in [Ops -> Nat]
    BY <1>2, <1>6
  <2>3. QED
    BY <1>1, <1>2, <1>5, <2>1, <2>2 DEF Types
<1>8. Handled'
  <2>1. KnownTo(Idle)' /\ Entitled(Idle)'
    BY <1>3, EmptyIs DEF KnownTo, Entitled
  <2>2. QED
    BY <1>3, <1>4, <2>1 DEF Handled, KnownTo, Entitled
<1>9. Known'
  <2>1. ASSUME NEW o \in applied PROVE o \in accepted
    <3>1. PICK t \in Tasks : task[t].fetching /\ o = task[t].op
      BY <1>2
    <3>2. PICK c : c = task[t] /\ c \in Handler /\ HandlerOK(c) /\ KnownTo(c)
      BY <1>1 DEF Handled, Types
    <3>3. Has(c, o)
      BY <3>1, <3>2, FetchingIs
    <3>4. QED
      BY <3>2, <3>3 DEF KnownTo
  <2>2. \A o \in Ops : effects'[o] > 0 => o \in accepted'
    BY <1>1, <1>2, <1>6, <2>1 DEF Known
  <2>3. QED
    BY <1>1, <1>2, <2>2 DEF Known
<1>10. Alone'
  BY <1>2, <1>3, <1>4 DEF Alone, Flushes
<1>11. \A o : o \in CutOffs => o \in CutOffs'
  BY <1>2 DEF CutOffs
<1>12. ASSUME NEW o \in Ops \ (stale \cup CutOffs)' PROVE Place(o)'
  <2>1. Place(o) /\ <<"bury", o>> \notin cut'
    BY <1>2, <1>11, <1>12 DEF Inv, CutOffs
  <2>2. Once(queue', o) /\ ~(In(queue', o) /\ In(dead', o))
    BY <1>2, <1>5, <2>1 DEF Place
  <2>3. \A t \in Tasks : ~Requeues(task'[t], o) /\ ~Has(task'[t], o) /\ Single(task'[t], o)
    BY <1>3, <1>4
  <2>4. QED
    BY <2>2, <2>3 DEF Place
<1>13. ASSUME NEW o \in (accepted \ (discarded \cup stale))' PROVE Somewhere(o)'
  <2>1. Somewhere(o) /\ o \in Ops
    BY <1>1, <1>2, <1>13 DEF Inv, Types
  <2>2. In(queue', o) \/ In(dead', o) \/ effects'[o] > 0 \/ <<"requeue", o>> \in cut'
    <3>1. effects[o] > 0 => effects'[o] > 0
      BY <1>6, <2>1
    <3>2. <<"requeue", o>> \in cut => <<"requeue", o>> \in cut'
      BY <1>2
    <3>3. (\E t \in Tasks : Requeues(task[t], o)) => <<"requeue", o>> \in cut'
      BY <1>5
    <3>4. (In(queue', o) <=> In(queue, o)) /\ (In(dead', o) <=> In(dead, o))
      BY <1>2
    <3>5. QED
      BY <2>1, <3>1, <3>2, <3>3, <3>4 DEF Somewhere
  <2>3. \A t \in Tasks : ~Buries(task'[t], o)
    BY <1>3, <1>4
  <2>4. QED
    BY <2>2, <2>3 DEF Somewhere
<1>14. ASSUME NEW o \in Ops \ (stale \cup CutOffs \cup unanswered)' PROVE Carried(o)'
  <2>1. Carried(o) /\ effects'[o] = effects[o]
    BY <1>2, <1>6, <1>11, <1>14 DEF Inv
  <2>2. \A t \in Tasks : ~Notes(task[t], o)
    <3>1. ASSUME NEW t \in Tasks, Notes(task[t], o) PROVE o \in Unnoted(Tasks)
      BY <3>1 DEF Notes, Unnoted
    <3>2. QED
      BY <1>2, <1>14, <3>1
  <2>3. Done(o) => Done(o)'
    BY <1>2, <1>3, <1>4 DEF Done
  <2>4. QED
    BY <2>1, <2>2, <2>3 DEF Carried
<1>15. QED
  BY <1>7, <1>8, <1>9, <1>10, <1>12, <1>13, <1>14 DEF Inv, Base

LEMMA ClearDeadStep ==
    ASSUME Inv, ClearDead PROVE Inv'
<1>1. Types /\ Handled /\ Known /\ Alone
  BY DEF Inv, Base
<1>2. /\ dead' = <<>> /\ discarded' = discarded \cup NamesIn(dead)
      /\ queue' = queue /\ flushing' = flushing /\ task' = task /\ accepted' = accepted
      /\ effects' = effects /\ unanswered' = unanswered /\ stale' = stale /\ cut' = cut
  BY DEF ClearDead
<1>3. dead' \in Seq(Entry) /\ \A o : ~In(dead', o)
  BY <1>2, EmptyIs
<1>4. Types' /\ Known' /\ Alone'
  BY <1>1, <1>2, <1>3 DEF Types, Known, Alone, Flushes
<1>5. Handled'
  BY <1>1, <1>2 DEF Handled, KnownTo, Entitled
<1>6. CutOffs' = CutOffs
  BY <1>2 DEF CutOffs
<1>7. ASSUME NEW o \in Ops \ (stale \cup CutOffs)' PROVE Place(o)'
  <2>1. Place(o)
    BY <1>2, <1>6, <1>7 DEF Inv
  <2>2. QED
    BY <1>2, <1>3, <2>1 DEF Place
<1>8. ASSUME NEW o \in (accepted \ (discarded \cup stale))' PROVE Somewhere(o)'
  <2>1. Somewhere(o) /\ ~In(dead, o)
    BY <1>2, <1>8 DEF Inv, In
  <2>2. QED
    BY <1>2, <1>3, <2>1 DEF Somewhere
<1>9. ASSUME NEW o \in Ops \ (stale \cup CutOffs \cup unanswered)' PROVE Carried(o)'
  <2>1. Carried(o)
    BY <1>2, <1>6, <1>9 DEF Inv
  <2>2. QED
    BY <1>2, <1>3, <2>1 DEF Carried, Done
<1>10. QED
  BY <1>4, <1>5, <1>7, <1>8, <1>9 DEF Inv, Base

-----------------------------------------------------------------------------
(* The steps that change an operation's place, or carry it out                  *)

LEMMA SucceededStep ==
    ASSUME Inv, NEW t \in Tasks, Succeeded(t) PROVE Inv'
<1>1. Types /\ Handled /\ Known /\ Alone
  BY DEF Inv, Base
<1>2. PICK c : c = task[t]
  OBVIOUS
<1>3. c \in Handler /\ HandlerOK(c) /\ KnownTo(c) /\ c.fetching
  BY <1>1, <1>2 DEF Handled, Types, Succeeded
<1>4. /\ c.fn = "none" /\ c.left # <<>> /\ c.left \in Seq(Ops) /\ c.op \in Ops
      /\ c.op = c.left[1] /\ Has(c, c.op)
  BY <1>3, FetchingIs
<1>5. PICK x : x = Calling(c.op, "dequeue", c.left)
  OBVIOUS
<1>6. Becomes(t, x)
  BY <1>2, <1>5 DEF Succeeded, Becomes
<1>7. /\ x \in Handler /\ HandlerOK(x) /\ x.fn = "dequeue" /\ x.op = c.op
      /\ x.left = c.left /\ x.q = <<>> /\ x.d = <<>>
      /\ \A p : ~Buries(x, p) /\ ~Requeues(x, p)
      /\ Notes(x, c.op)
  BY <1>4, <1>5, CallIs
<1>8. \A p : (Has(x, p) <=> Has(c, p)) /\ (Single(x, p) <=> Single(c, p))
  BY <1>7 DEF Has, Single
<1>9. \A p : ~Buries(c, p) /\ ~Requeues(c, p) /\ ~Notes(c, p)
  BY <1>4 DEF Buries, Requeues, Notes
<1>10. c.op \in accepted
  BY <1>3, <1>4 DEF KnownTo
<1>11. flushing = TRUE /\ Flushes(t)
  BY <1>1, <1>2, <1>4 DEF Alone, Flushes, Types
<1>12. /\ queue' = queue /\ dead' = dead /\ flushing' = flushing /\ accepted' = accepted
       /\ discarded' = discarded /\ unanswered' = unanswered /\ stale' = stale /\ cut' = cut
       /\ effects' = [effects EXCEPT ![c.op] = @ + 1]
  BY <1>2 DEF Succeeded, stored
<1>13. /\ effects' \in [Ops -> Nat] /\ effects'[c.op] = effects[c.op] + 1
       /\ \A o \in Ops : /\ effects[o] \in Nat /\ effects'[o] >= effects[o]
                         /\ o # c.op => effects'[o] = effects[o]
  BY <1>1, <1>4, <1>12 DEF Types
<1>14. Types'
  BY <1>1, <1>6, <1>7, <1>12, <1>13, BecomesIs DEF Types
<1>15. Handled'
  <2>1. KnownTo(x)'
    BY <1>3, <1>7, <1>8, <1>10, <1>12, EmptyIs DEF KnownTo
  <2>2. effects'[c.op] > 0
    BY <1>4, <1>13
  <2>3. Entitled(x)'
    BY <1>4, <1>7, <2>2 DEF Entitled
  <2>4. \A u \in Tasks : u # t /\ task[u].fn = "enqueue" => task[u].op \notin accepted'
    BY <1>1, <1>12 DEF Handled, KnownTo
  <2>5. QED
    BY <1>1, <1>6, <1>7, <1>12, <1>13, <2>1, <2>3, <2>4, HandledStep
<1>16. Known'
  BY <1>1, <1>10, <1>12, <1>13 DEF Known
<1>17. Alone'
  <2>1. x.left # <<>> /\ x.fn # "enqueue"
    BY <1>4, <1>7
  <2>2. QED
    BY <1>1, <1>6, <1>11, <1>12, <2>1, AloneStep
<1>18. CutOffs' = CutOffs
  BY <1>12 DEF CutOffs
<1>19. ASSUME NEW o \in Ops \ (stale \cup CutOffs)' PROVE Place(o)'
  <2>1. Place(o)
    BY <1>12, <1>18, <1>19 DEF Inv
  <2>2. Single(c, o) /\ (Has(c, o) => In(queue, o))
    BY <1>2, <2>1 DEF Place
  <2>3. QED
    BY <1>1, <1>2, <1>6, <1>7, <1>8, <1>9, <1>12, <2>1, <2>2, PlaceStep
<1>20. ASSUME NEW o \in (accepted \ (discarded \cup stale))' PROVE Somewhere(o)'
  <2>1. Somewhere(o) /\ o \in Ops
    BY <1>1, <1>12, <1>20 DEF Inv, Types
  <2>2. effects[o] > 0 => effects'[o] > 0
    BY <1>13, <2>1
  <2>3. QED
    BY <1>1, <1>2, <1>6, <1>7, <1>9, <1>12, <2>1, <2>2, SomewhereStep
<1>21. ASSUME NEW o \in Ops \ (stale \cup CutOffs \cup unanswered)' PROVE Carried(o)'
  <2>1. Carried(o)
    BY <1>12, <1>18, <1>21 DEF Inv
  <2>2. CASE o # c.op
    <3>1. effects'[o] = effects[o]
      BY <1>13, <2>2
    <3>2. QED
      BY <1>1, <1>2, <1>6, <1>7, <1>8, <1>9, <1>12, <2>1, <3>1, CarriedStep
  <2>3. CASE o = c.op
    <3>1. ~Done(o)
      BY <1>2, <1>4, <2>3 DEF Done
    <3>2. ASSUME NEW u \in Tasks, Notes(task[u], o) PROVE FALSE
      <4>1. Flushes(u)
        BY <3>2 DEF Notes, Flushes
      <4>2. u = t
        BY <1>1, <1>11, <4>1 DEF Alone
      <4>3. QED
        BY <1>2, <1>9, <3>2, <4>2
    <3>3. effects[o] = 0
      BY <2>1, <3>1, <3>2 DEF Carried
    <3>4. effects'[o] = 1 /\ Notes(task'[t], o)
      BY <1>1, <1>6, <1>7, <1>13, <2>3, <3>3, BecomesIs
    <3>5. QED
      BY <3>4 DEF Carried
  <2>4. QED
    BY <2>2, <2>3
<1>22. QED
  BY <1>14, <1>15, <1>16, <1>17, <1>19, <1>20, <1>21 DEF Inv, Base

\* A copy that is up to date with a key has the same operations, once each.
LEMMA CurrentIs ==
    ASSUME NEW s \in Seq(Entry), NEW r \in Seq(Entry), NEW o \in Ops, o \notin Outdated(s, r)
    PROVE  (In(s, o) <=> In(r, o)) /\ (Once(s, o) <=> Once(r, o))
<1>1. EntriesOf(s, o) = EntriesOf(r, o)
  BY DEF Outdated
<1>2. QED
  BY <1>1, SameEntries

LEMMA WriteDeadStep ==
    ASSUME Inv, NEW t \in Tasks, WriteDead(t) PROVE Inv'
<1>1. Types /\ Handled /\ Known /\ Alone
  BY DEF Inv, Base
<1>2. PICK c, p : c = task[t] /\ p = task[t].op
  OBVIOUS
<1>3. c \in Handler /\ HandlerOK(c) /\ KnownTo(c) /\ Entitled(c) /\ p = c.op
  BY <1>1, <1>2 DEF Handled, Types
<1>4. /\ AtStep(t, "writeDead")
      /\ dead' = IF c.fn = "requeue" THEN Without(c.d, p)
                 ELSE Append(c.d, Retried(FirstOf(c.q, p)))
      /\ stale' = stale \cup Shared(t) \cup Outdated(c.d, dead)
                    \cup (IF c.fn = "bury" THEN Outdated(c.q, queue) ELSE {})
      /\ task' = [task EXCEPT ![t].at = @ + 1]
      /\ queue' = queue /\ flushing' = flushing /\ accepted' = accepted
      /\ discarded' = discarded /\ effects' = effects /\ unanswered' = unanswered /\ cut' = cut
  BY <1>2 DEF WriteDead
<1>5. \/ c.fn = "bury" /\ c.at = 3
      \/ c.fn = "requeue" /\ c.at = 2
  BY <1>2, <1>3, <1>4, AtIs
<1>6. /\ p \in Ops /\ p \in accepted /\ ~c.fetching
      /\ c.fn = "requeue" => c.left = <<>> /\ In(c.d, p)
      /\ c.fn = "bury" => In(c.q, p)
      /\ c.q \in Seq(Entry) /\ c.d \in Seq(Entry)
      /\ queue \in Seq(Entry) /\ dead \in Seq(Entry)
  BY <1>1, <1>3, <1>5 DEF HandlerOK, KnownTo, Handler, Types
<1>7. PICK x : x = [c EXCEPT !.at = @ + 1]
  OBVIOUS
<1>8. Becomes(t, x)
  BY <1>2, <1>4, <1>7, Zenon DEF Becomes
<1>9. x = [fn |-> c.fn, op |-> c.op, at |-> c.at + 1, fetching |-> c.fetching,
           left |-> c.left, q |-> c.q, d |-> c.d]
  BY <1>3, <1>7 DEF Handler
<1>10. /\ x.fn = c.fn /\ x.op = p /\ x.at = c.at + 1 /\ x.fetching = c.fetching
       /\ x.left = c.left /\ x.q = c.q /\ x.d = c.d
  BY <1>3, <1>9
<1>11. x \in Handler
  BY <1>3, <1>5, <1>9 DEF Handler
<1>12. HandlerOK(x)
  <2>1. x.at \in 1 .. Len(StepsOf(x.fn))
    <3>1. x.fn \in {"bury", "requeue"} /\ x.at \in 1 .. 4
      BY <1>5, <1>10
    <3>2. QED
      BY <3>1, LengthIs
  <2>2. /\ x.fn # "none" /\ ~x.fetching /\ x.op \in Ops
        /\ x.left # <<>> => x.op = x.left[1] /\ x.fn \in {"none", "dequeue", "retry", "bury"}
    BY <1>3, <1>5, <1>6, <1>10 DEF HandlerOK
  <2>3. /\ x.fn = "bury" => x.at > 1 /\ In(x.q, x.op)
        /\ ~(x.fn = "requeue" /\ x.at = 2)
    BY <1>5, <1>6, <1>10
  <2>4. QED
    BY <2>1, <2>2, <2>3 DEF HandlerOK
<1>13. /\ \A o : (Has(x, o) <=> Has(c, o)) /\ (Single(x, o) <=> Single(c, o))
       /\ \A o : ~Buries(c, o) /\ ~Requeues(c, o) /\ ~Notes(c, o)
       /\ \A o : Buries(x, o) <=> o = p /\ c.fn = "bury"
       /\ \A o : Requeues(x, o) <=> o = p /\ c.fn = "requeue"
  <2>1. \A o : (Has(x, o) <=> Has(c, o)) /\ (Single(x, o) <=> Single(c, o))
    BY <1>10 DEF Has, Single
  <2>2. \A o : ~Buries(c, o) /\ ~Requeues(c, o) /\ ~Notes(c, o)
    BY <1>5 DEF Buries, Requeues, Notes
  <2>3. \A o : Buries(x, o) <=> o = p /\ c.fn = "bury"
    BY <1>5, <1>10 DEF Buries
  <2>4. \A o : Requeues(x, o) <=> o = p /\ c.fn = "requeue"
    BY <1>5, <1>10 DEF Requeues
  <2>5. QED
    BY <2>1, <2>2, <2>3, <2>4
<1>14. /\ dead' \in Seq(Entry)
       /\ \A o : o # p => (In(dead', o) <=> In(c.d, o))
       /\ c.fn = "requeue" => ~In(dead', p)
       /\ c.fn = "bury" => In(dead', p)
  <2>1. CASE c.fn = "requeue"
    BY <1>4, <1>6, <2>1, WithoutIs
  <2>2. CASE c.fn = "bury"
    <3>1. PICK e : e = Retried(FirstOf(c.q, p))
      OBVIOUS
    <3>2. e \in Entry /\ e.op = p
      BY <1>6, <2>2, <3>1, FirstIs, EntryIs
    <3>3. dead' = Append(c.d, e)
      BY <1>4, <2>2, <3>1
    <3>4. QED
      BY <1>6, <2>2, <3>2, <3>3, AppendIs
  <2>3. QED
    BY <1>5, <2>1, <2>2
<1>15. task'[t] = x /\ \A u \in Tasks : u # t => task'[u] = task[u]
  BY <1>1, <1>8, BecomesIs
<1>16. Types'
  BY <1>1, <1>4, <1>8, <1>11, <1>14, BecomesIs DEF Types
<1>17. Handled'
  <2>1. KnownTo(x)' /\ Entitled(x)'
    BY <1>3, <1>4, <1>5, <1>10, <1>13 DEF KnownTo, Entitled
  <2>2. \A u \in Tasks : u # t /\ task[u].fn = "enqueue" => task[u].op \notin accepted'
    BY <1>1, <1>4 DEF Handled, KnownTo
  <2>3. /\ effects' \in [Ops -> Nat]
        /\ \A o \in Ops : effects'[o] >= effects[o]
    BY <1>1, <1>4 DEF Types
  <2>4. QED
    BY <1>1, <1>4, <1>8, <1>12, <2>1, <2>2, <2>3, HandledStep
<1>18. Known'
  <2>1. \A o : In(dead', o) => o \in accepted
    BY <1>3, <1>6, <1>14 DEF KnownTo
  <2>2. QED
    BY <1>1, <1>4, <2>1 DEF Known
<1>19. Alone'
  <2>1. /\ x.left # <<>> => flushing = TRUE /\ Flushes(t)
        /\ x.left = <<>> => ~Flushes(t)
        /\ x.fn # "enqueue"
    BY <1>1, <1>2, <1>5, <1>10 DEF Alone, Flushes, Types
  <2>2. QED
    BY <1>1, <1>4, <1>8, <2>1, AloneStep
<1>20. CutOffs' = CutOffs
  BY <1>4 DEF CutOffs
\* Another operation, of which the copy is up to date.
<1>21. ASSUME NEW o \in Ops, o # p, o \notin stale' PROVE In(dead', o) <=> In(dead, o)
  BY <1>4, <1>6, <1>14, <1>21, CurrentIs
\* The handler's own, which no other handler is at.
<1>22. ASSUME p \notin stale'
       PROVE  /\ \A u \in Tasks : u # t =>
                     /\ ~Has(task'[u], p) /\ ~Buries(task'[u], p)
                     /\ ~Requeues(task'[u], p) /\ ~Notes(task'[u], p)
              /\ \A u \in Tasks : /\ ~Buries(task[u], p) /\ ~Requeues(task[u], p)
                                  /\ ~Notes(task[u], p)
              /\ c.fn = "requeue" => In(dead, p)
              /\ c.fn = "bury" => In(queue, p)
  <2>1. p \notin Shared(t) /\ p \notin Outdated(c.d, dead)
    BY <1>4, <1>22
  <2>2. \A u \in Tasks : u # t => /\ ~Has(task[u], p) /\ ~Buries(task[u], p)
                                  /\ ~Requeues(task[u], p) /\ ~Notes(task[u], p)
    BY <1>1, <1>2, <2>1, UnsharedIs
  <2>3. c.fn = "requeue" => In(dead, p)
    BY <1>6, <2>1, CurrentIs
  <2>4. c.fn = "bury" => In(queue, p)
    <3>1. c.fn = "bury" => p \notin Outdated(c.q, queue)
      BY <1>4, <1>22
    <3>2. QED
      BY <1>6, <3>1, CurrentIs
  <2>5. QED
    BY <1>2, <1>13, <1>15, <2>2, <2>3, <2>4
<1>23. ASSUME NEW o \in Ops \ (stale \cup CutOffs)' PROVE Place(o)'
  <2>1. Place(o)
    BY <1>4, <1>20, <1>23 DEF Inv
  <2>2. Single(c, o) /\ (Has(c, o) => In(queue, o))
    BY <1>2, <2>1 DEF Place
  <2>3. CASE o # p
    BY <1>1, <1>2, <1>4, <1>8, <1>13, <1>21, <1>23, <2>1, <2>2, <2>3, PlaceStep
  <2>4. CASE o = p
    <3>1. Once(queue', p) /\ \A u \in Tasks : Single(task'[u], p)
      BY <1>2, <1>4, <1>13, <1>15, <2>1, <2>4 DEF Place
    <3>2. CASE c.fn = "requeue"
      <4>1. ~In(queue, p)
        BY <1>22, <1>23, <2>1, <2>4, <3>2 DEF Place
      <4>2. \A u \in Tasks : ~Has(task'[u], p)
        BY <1>13, <1>15, <1>22, <1>23, <2>2, <2>4, <4>1
      <4>3. QED
        BY <1>4, <1>14, <2>4, <3>1, <3>2, <4>1, <4>2 DEF Place
    <3>3. CASE c.fn = "bury"
      <4>1. In(queue, p) /\ Buries(task'[t], p)
        BY <1>13, <1>15, <1>22, <1>23, <2>4, <3>3
      <4>2. \A u \in Tasks : ~Requeues(task'[u], p)
        BY <1>13, <1>15, <1>22, <1>23, <2>4, <3>3
      <4>3. QED
        BY <1>4, <2>4, <3>1, <4>1, <4>2 DEF Place
    <3>4. QED
      BY <1>5, <3>2, <3>3
  <2>5. QED
    BY <2>3, <2>4
<1>24. ASSUME NEW o \in (accepted \ (discarded \cup stale))' PROVE Somewhere(o)'
  <2>1. Somewhere(o) /\ o \in Ops
    BY <1>1, <1>4, <1>24 DEF Inv, Types
  <2>2. CASE o # p
    BY <1>1, <1>2, <1>4, <1>8, <1>13, <1>21, <1>24, <2>1, <2>2, SomewhereStep
  <2>3. CASE o = p
    <3>1. CASE c.fn = "requeue"
      <4>1. Requeues(task'[t], p) /\ \A u \in Tasks : ~Buries(task'[u], p)
        BY <1>13, <1>15, <1>22, <1>24, <2>3, <3>1
      <4>2. QED
        BY <2>3, <4>1 DEF Somewhere
    <3>2. CASE c.fn = "bury"
      BY <1>14, <2>3, <3>2 DEF Somewhere
    <3>3. QED
      BY <1>5, <3>1, <3>2
  <2>4. QED
    BY <2>2, <2>3
<1>25. ASSUME NEW o \in Ops \ (stale \cup CutOffs \cup unanswered)' PROVE Carried(o)'
  <2>1. Carried(o)
    BY <1>4, <1>20, <1>25 DEF Inv
  <2>2. CASE o # p
    BY <1>1, <1>2, <1>4, <1>8, <1>13, <1>21, <1>25, <2>1, <2>2, CarriedStep
  <2>3. CASE o = p
    <3>1. ~Done(p) /\ \A u \in Tasks : ~Notes(task[u], p)
      BY <1>5, <1>22, <1>25, <2>3 DEF Done
    <3>2. effects'[p] = 0
      BY <1>4, <2>1, <2>3, <3>1 DEF Carried
    <3>3. QED
      BY <2>3, <3>2 DEF Carried
  <2>4. QED
    BY <2>2, <2>3
<1>26. QED
  BY <1>16, <1>17, <1>18, <1>19, <1>23, <1>24, <1>25 DEF Inv, Base

LEMMA WriteQueueStep ==
    ASSUME Inv, NEW t \in Tasks, WriteQueue(t) PROVE Inv'
<1>1. Types /\ Handled /\ Known /\ Alone
  BY DEF Inv, Base
<1>2. PICK c, p : c = task[t] /\ p = task[t].op
  OBVIOUS
<1>3. c \in Handler /\ HandlerOK(c) /\ KnownTo(c) /\ Entitled(c) /\ p = c.op
  BY <1>1, <1>2 DEF Handled, Types
<1>4. /\ AtStep(t, "writeQueue")
      /\ queue' = Updated(c.fn, p, c.q)
      /\ stale' = stale \cup Shared(t) \cup Outdated(c.q, queue)
      /\ accepted' = IF c.fn = "enqueue" THEN accepted \cup {p} ELSE accepted
      /\ task' = [task EXCEPT ![t] = After(t)]
      /\ flushing' = StillFlushing(t)
      /\ dead' = dead /\ discarded' = discarded /\ effects' = effects
      /\ unanswered' = unanswered /\ cut' = cut
  BY <1>2 DEF WriteQueue
<1>5. \/ c.fn \in {"enqueue", "dequeue", "retry"} /\ c.at = 2
      \/ c.fn \in {"bury", "requeue"} /\ c.at = 4
  BY <1>2, <1>3, <1>4, AtIs
<1>6. /\ p \in Ops /\ c.fn \in Functions \ {"none"}
      /\ c.q \in Seq(Entry) /\ queue \in Seq(Entry) /\ dead \in Seq(Entry)
      /\ c.left # <<>> => c.fn \in {"dequeue", "retry", "bury"} /\ Has(c, p)
  <2>1. p \in Ops /\ c.fn \in Functions \ {"none"}
    BY <1>3, <1>5 DEF HandlerOK, Functions
  <2>2. c.q \in Seq(Entry) /\ queue \in Seq(Entry) /\ dead \in Seq(Entry) /\ c.left \in Seq(Ops)
    BY <1>1, <1>3 DEF Handler, Types
  <2>3. ASSUME c.left # <<>> PROVE c.fn \in {"dequeue", "retry", "bury"} /\ Has(c, p)
    <3>1. c.fn \in {"dequeue", "retry", "bury"} /\ p = c.left[1]
      BY <1>3, <1>5, <2>3 DEF HandlerOK
    <3>2. 1 \in DOMAIN c.left
      BY <2>2, <2>3
    <3>3. QED
      BY <3>1, <3>2 DEF Has
  <2>4. QED
    BY <2>1, <2>2, <2>3
<1>7. PICK x : x = After(t)
  OBVIOUS
<1>8. Becomes(t, x)
  BY <1>4, <1>7 DEF Becomes
<1>9. /\ x \in Handler /\ HandlerOK(x) /\ x.fn = "none"
      /\ x.left # <<>> <=> Len(c.left) > 1
      /\ x.q = <<>> /\ x.d = <<>>
      /\ \A o : Has(x, o) => Has(c, o)
      /\ \A o : Single(c, o) => Single(x, o) /\ (o = p => ~Has(x, o))
  BY <1>2, <1>3, <1>5, <1>7, AfterIs
<1>10. \A o : ~Buries(x, o) /\ ~Requeues(x, o) /\ ~Notes(x, o)
  BY <1>9 DEF Buries, Requeues, Notes
<1>11. /\ \A o : Buries(c, o) <=> o = p /\ c.fn = "bury"
       /\ \A o : Requeues(c, o) <=> o = p /\ c.fn = "requeue"
       /\ \A o : Notes(c, o) <=> o = p /\ c.fn = "dequeue" /\ c.left # <<>>
  BY <1>3, <1>5 DEF Buries, Requeues, Notes
<1>12. PICK r : r = queue' /\ r = Updated(c.fn, p, c.q)
  BY <1>4
<1>13. /\ r \in Seq(Entry)
       /\ \A o : o # p => /\ In(r, o) <=> In(c.q, o)
                          /\ Once(c.q, o) => Once(r, o)
       /\ c.fn \in {"enqueue", "requeue"} =>
              In(r, p) /\ (~In(c.q, p) => Once(r, p))
       /\ c.fn \in {"dequeue", "bury"} => ~In(r, p) /\ Once(r, p)
       /\ c.fn = "retry" => /\ In(r, p) <=> In(c.q, p)
                            /\ Once(c.q, p) => Once(r, p)
  BY <1>6, <1>12, UpdatedIs
<1>14. task'[t] = x /\ \A u \in Tasks : u # t => task'[u] = task[u]
  BY <1>1, <1>8, BecomesIs
<1>15. flushing' \in BOOLEAN
  BY <1>1, <1>2, <1>4, <1>9, StillIs
<1>16. Types'
  <2>1. accepted' \subseteq Ops
    BY <1>1, <1>4, <1>6 DEF Types
  <2>2. QED
    BY <1>1, <1>4, <1>8, <1>9, <1>12, <1>13, <1>15, <2>1, BecomesIs DEF Types
<1>17. Handled'
  <2>1. KnownTo(x)' /\ Entitled(x)'
    BY <1>3, <1>4, <1>9, EmptyIs DEF KnownTo, Entitled
  <2>2. ASSUME NEW u \in Tasks, u # t, task[u].fn = "enqueue" PROVE task[u].op \notin accepted'
    <3>1. task[u].op \notin accepted
      BY <1>1, <2>2 DEF Handled, KnownTo
    <3>2. c.fn = "enqueue" => task[u].op # p
      BY <1>1, <1>2, <2>2 DEF Alone
    <3>3. QED
      BY <1>4, <3>1, <3>2
  <2>3. /\ effects' \in [Ops -> Nat]
        /\ \A o \in Ops : effects'[o] >= effects[o]
    BY <1>1, <1>4 DEF Types
  <2>4. accepted \subseteq accepted' /\ discarded \subseteq discarded'
    BY <1>4
  <2>5. QED
    BY <1>1, <1>8, <1>9, <2>1, <2>2, <2>3, <2>4, HandledStep
<1>18. Known'
  <2>1. c.fn \in {"dequeue", "retry", "bury", "requeue"} => p \in accepted
    BY <1>3 DEF KnownTo
  <2>2. p \in accepted'
    BY <1>4, <1>5, <2>1
  <2>3. \A o : In(r, o) => o \in accepted'
    BY <1>3, <1>4, <1>13, <2>2 DEF KnownTo
  <2>4. QED
    BY <1>1, <1>4, <1>12, <2>3 DEF Known
<1>19. Alone'
  <2>1. x.fn # "enqueue"
    BY <1>9
  <2>2. \/ x.left # <<>> /\ flushing' = TRUE /\ (Flushes(t) \/ flushing = FALSE)
        \/ x.left = <<>> /\ Flushes(t) /\ flushing' = FALSE
        \/ x.left = <<>> /\ ~Flushes(t) /\ flushing' = flushing
    BY <1>1, <1>2, <1>4, <1>9, StillIs, Zenon
  <2>3. QED
    BY <1>1, <1>8, <2>1, <2>2, AloneStep
<1>20. CutOffs' = CutOffs
  BY <1>4 DEF CutOffs
\* Another operation, of which the copy is up to date.
<1>21. ASSUME NEW o \in Ops, o # p, o \notin stale'
       PROVE  (In(queue', o) <=> In(queue, o)) /\ (Once(queue, o) => Once(queue', o))
  <2>1. o \notin Outdated(c.q, queue)
    BY <1>4, <1>21
  <2>2. QED
    BY <1>6, <1>12, <1>13, <1>21, <2>1, CurrentIs
\* The handler's own, which no other handler is at.
<1>22. ASSUME p \notin stale'
       PROVE  /\ \A u \in Tasks : u # t =>
                     /\ ~Has(task[u], p) /\ ~Buries(task[u], p)
                     /\ ~Requeues(task[u], p) /\ ~Notes(task[u], p)
              /\ In(c.q, p) <=> In(queue, p)
              /\ Once(c.q, p) <=> Once(queue, p)
  <2>1. p \notin Shared(t) /\ p \notin Outdated(c.q, queue)
    BY <1>4, <1>22
  <2>2. (In(c.q, p) <=> In(queue, p)) /\ (Once(c.q, p) <=> Once(queue, p))
    BY <1>6, <2>1, CurrentIs
  <2>3. QED
    BY <1>1, <1>2, <2>1, <2>2, UnsharedIs
\* What becomes of it.
<1>23. ASSUME p \notin stale', p \notin CutOffs PROVE Place(p) /\ Place(p)'
  <2>1. Place(p)
    BY <1>4, <1>6, <1>23 DEF Inv
  <2>2. /\ Once(queue, p) /\ Single(c, p)
        /\ Has(c, p) => In(queue, p)
        /\ Requeues(c, p) => ~In(queue, p) /\ ~In(dead, p)
    BY <1>2, <2>1 DEF Place
  <2>3. \A u \in Tasks : Single(task'[u], p) /\ ~Has(task'[u], p) /\ ~Requeues(task'[u], p)
    BY <1>9, <1>10, <1>14, <1>22, <1>23, <2>1, <2>2 DEF Place
  <2>4. In(queue, p) /\ In(dead, p) => c.fn = "bury"
    BY <1>2, <1>11, <1>22, <1>23, <2>1 DEF Place
  <2>5. Once(queue', p) /\ ~(In(queue', p) /\ In(dead', p))
    <3>1. CASE c.fn = "enqueue"
      <4>1. p \notin accepted
        BY <1>3, <3>1 DEF KnownTo
      <4>2. ~In(queue, p) /\ ~In(dead, p)
        BY <1>1, <4>1 DEF Known
      <4>3. QED
        BY <1>4, <1>12, <1>13, <1>22, <1>23, <3>1, <4>2
    <3>2. CASE c.fn = "requeue"
      BY <1>4, <1>11, <1>12, <1>13, <1>22, <1>23, <2>2, <3>2
    <3>3. CASE c.fn \in {"dequeue", "bury"}
      BY <1>12, <1>13, <3>3
    <3>4. CASE c.fn = "retry"
      BY <1>4, <1>12, <1>13, <1>22, <1>23, <2>2, <2>4, <3>4
    <3>5. QED
      BY <1>5, <3>1, <3>2, <3>3, <3>4
  <2>6. Place(p)'
    BY <2>3, <2>5 DEF Place
  <2>7. QED
    BY <2>1, <2>6
<1>24. ASSUME NEW o \in Ops \ (stale \cup CutOffs)' PROVE Place(o)'
  <2>1. Place(o)
    BY <1>4, <1>20, <1>24 DEF Inv
  <2>2. Single(c, o) /\ (Has(c, o) => In(queue, o))
    BY <1>2, <2>1 DEF Place
  <2>3. CASE o # p
    BY <1>1, <1>2, <1>4, <1>8, <1>9, <1>10, <1>11, <1>21, <1>24, <2>1, <2>2, <2>3, PlaceStep
  <2>4. CASE o = p
    BY <1>20, <1>23, <1>24, <2>4
  <2>5. QED
    BY <2>3, <2>4
<1>25. ASSUME NEW o \in (accepted \ (discarded \cup stale))' PROVE Somewhere(o)'
  <2>1. CASE o # p
    <3>1. o \in accepted /\ o \notin discarded /\ o \notin stale
      BY <1>4, <1>25, <2>1
    <3>2. Somewhere(o) /\ o \in Ops
      BY <1>1, <3>1 DEF Inv, Types
    <3>3. In(queue', o) <=> In(queue, o)
      BY <1>21, <1>25, <2>1, <3>2
    <3>4. QED
      BY <1>1, <1>2, <1>4, <1>8, <1>10, <1>11, <2>1, <3>2, <3>3, SomewhereStep
  <2>2. CASE o = p
    <3>1. \A u \in Tasks : ~Buries(task'[u], p)
      BY <1>10, <1>14, <1>22, <1>25, <2>2
    <3>2. c.fn # "enqueue" => Somewhere(p)
      BY <1>4, <1>25, <2>2 DEF Inv
    <3>3. CASE c.fn \in {"enqueue", "requeue"}
      BY <1>12, <1>13, <2>2, <3>1, <3>3 DEF Somewhere
    <3>4. CASE c.fn = "dequeue"
      <4>1. effects[p] > 0
        BY <1>3, <1>4, <1>25, <2>2, <3>4 DEF Entitled
      <4>2. QED
        BY <1>4, <2>2, <3>1, <4>1 DEF Somewhere
    <3>5. CASE c.fn = "bury"
      <4>1. In(dead, p)
        BY <1>2, <1>11, <3>2, <3>5 DEF Somewhere
      <4>2. QED
        BY <1>4, <2>2, <3>1, <4>1 DEF Somewhere
    <3>6. CASE c.fn = "retry"
      <4>1. In(queue', p) <=> In(queue, p)
        BY <1>12, <1>13, <1>22, <1>25, <2>2, <3>6
      <4>2. \A u \in Tasks : ~Requeues(task[u], p)
        BY <1>2, <1>11, <1>22, <1>25, <2>2, <3>6
      <4>3. QED
        BY <1>4, <2>2, <3>1, <3>2, <3>6, <4>1, <4>2 DEF Somewhere
    <3>7. QED
      BY <1>5, <3>3, <3>4, <3>5, <3>6
  <2>3. QED
    BY <2>1, <2>2
<1>26. ASSUME NEW o \in Ops \ (stale \cup CutOffs \cup unanswered)' PROVE Carried(o)'
  <2>1. Carried(o)
    BY <1>4, <1>20, <1>26 DEF Inv
  <2>2. CASE o # p
    <3>1. In(queue', o) <=> In(queue, o)
      BY <1>21, <1>26, <2>2
    <3>2. QED
      BY <1>1, <1>2, <1>4, <1>8, <1>9, <1>10, <1>11, <2>1, <2>2, <3>1, CarriedStep
  <2>3. CASE o = p
    <3>1. Place(p) /\ Place(p)'
      BY <1>20, <1>23, <1>26, <2>3
    <3>2. CASE effects[p] = 0
      BY <1>4, <2>3, <3>2 DEF Carried
    <3>3. CASE effects[p] # 0
      <4>1. effects[p] = 1 /\ (Done(p) \/ \E u \in Tasks : Notes(task[u], p))
        BY <2>1, <2>3, <3>3 DEF Carried
      <4>2. p \in accepted
        BY <1>1, <1>6, <4>1 DEF Known
      <4>3. CASE Done(p)
        <5>1. c.fn # "enqueue" /\ c.fn # "requeue"
          BY <1>2, <1>3, <1>11, <4>2, <4>3 DEF KnownTo, Done
        <5>2. ~In(queue', p) /\ ~In(dead', p)
          BY <1>4, <1>5, <1>12, <1>13, <1>22, <1>26, <2>3, <4>3, <5>1 DEF Done
        <5>3. \A u \in Tasks : ~Has(task'[u], p) /\ ~Requeues(task'[u], p)
          BY <1>2, <1>9, <1>10, <1>14, <4>3 DEF Done
        <5>4. QED
          BY <1>4, <2>3, <4>1, <5>2, <5>3 DEF Carried, Done
      <4>4. CASE \E u \in Tasks : Notes(task[u], p)
        <5>1. Notes(c, p)
          BY <1>2, <1>22, <1>26, <2>3, <4>4
        <5>2. c.fn = "dequeue" /\ Has(c, p)
          BY <1>6, <1>11, <5>1
        <5>3. In(queue, p)
          BY <1>2, <3>1, <5>2 DEF Place
        <5>4. ~In(dead, p)
          BY <1>2, <1>11, <1>22, <1>26, <2>3, <3>1, <5>2, <5>3 DEF Place
        <5>5. ~In(queue', p) /\ ~In(dead', p)
          BY <1>4, <1>12, <1>13, <5>2, <5>4
        <5>6. \A u \in Tasks : ~Has(task'[u], p) /\ ~Requeues(task'[u], p)
          BY <1>10, <1>14, <1>22, <1>26, <2>3, <3>1, <5>5 DEF Place
        <5>7. QED
          BY <1>4, <2>3, <4>1, <5>5, <5>6 DEF Carried, Done
      <4>5. QED
        BY <4>1, <4>3, <4>4
    <3>4. QED
      BY <3>2, <3>3
  <2>4. QED
    BY <2>2, <2>3
<1>27. QED
  BY <1>16, <1>17, <1>18, <1>19, <1>24, <1>25, <1>26 DEF Inv, Base

-----------------------------------------------------------------------------
(* The theorems                                                                 *)

LEMMA InvStep == Inv /\ [Next]_vars => Inv'
<1> SUFFICES ASSUME Inv, [Next]_vars PROVE Inv'
  OBVIOUS
<1>1. ASSUME NEW t \in Tasks, Step(t) PROVE Inv'
  BY <1>1, ReadQueueStep, ReadDeadStep, WriteDeadStep, WriteQueueStep, SucceededStep,
     FailedStep, Zenon DEF Step
<1>2. ASSUME NEW t \in Tasks, WriteFails(t) PROVE Inv'
  BY <1>2, WriteFailsStep
<1>3. ASSUME NEW t \in Tasks, NEW waiting \in SUBSET Ops, Flush(t, waiting) PROVE Inv'
  BY <1>3, FlushStep
<1>4. ASSUME NEW t \in Tasks, NEW o \in Ops, Enqueue(t, o) PROVE Inv'
  BY <1>4, EnqueueStep
<1>5. ASSUME NEW t \in Tasks, NEW o \in Ops, NEW fn \in {"retry", "dequeue", "requeue"},
             Tap(t, o, fn)
      PROVE  Inv'
  BY <1>5, TapStep
<1>6. ASSUME ClearDead PROVE Inv'
  BY <1>6, ClearDeadStep
<1>7. ASSUME NEW applied \in SUBSET Ops, Restart(applied) PROVE Inv'
  BY <1>7, RestartStep
<1>8. ASSUME UNCHANGED vars PROVE Inv'
  <2>1. /\ queue' = queue /\ dead' = dead /\ flushing' = flushing /\ task' = task
        /\ accepted' = accepted /\ discarded' = discarded /\ effects' = effects
        /\ unanswered' = unanswered /\ stale' = stale /\ cut' = cut
    BY <1>8 DEF vars, stored, history
  <2>2. Base'
    BY <2>1 DEF Inv, Base, Types, Handled, HandlerOK, KnownTo, Entitled, Known, Alone, Flushes
  <2>3. \A o : (Place(o)' <=> Place(o)) /\ (Somewhere(o)' <=> Somewhere(o))
               /\ (Carried(o)' <=> Carried(o))
    BY <2>1 DEF Place, Somewhere, Carried, Done
  <2>4. CutOffs' = CutOffs
    BY <2>1 DEF CutOffs
  <2>5. QED
    BY <2>1, <2>2, <2>3, <2>4 DEF Inv
<1>9. QED
  BY <1>1, <1>2, <1>3, <1>4, <1>5, <1>6, <1>7, <1>8 DEF Next

\* Whatever handlers, taps, restarts and failures interleave: every operation that
\* was accepted has a place, and what a handler is about to write agrees with it,
\* with the exceptions that NothingLost and AppliedOnce name.
THEOREM QueueInvariant == Spec => []Inv
<1>1. QED
  BY InitInv, InvStep, PTL DEF Spec

\* What enqueue accepted is in one of the two queues, on its way back from the dead
\* letters, carried out or thrown away, unless an outdated copy was written over it
\* or a requeue was cut off, whatever handlers run between each other's storage calls.
THEOREM QueueLosesNothing == Spec => []NothingLost
<1>1. ASSUME Inv PROVE NothingLost
  <2>1. Types /\ Handled
    BY <1>1 DEF Inv, Base
  <2> SUFFICES ASSUME NEW o \in accepted \ (discarded \cup stale)
               PROVE  \/ o \in NamesIn(queue) \cup NamesIn(dead)
                      \/ effects[o] > 0
                      \/ <<"requeue", o>> \in cut
                      \/ \E t \in Tasks : task[t].fn = "requeue" /\ task[t].op = o /\ Midway(t)
    BY DEF NothingLost
  <2>2. Somewhere(o)
    BY <1>1 DEF Inv
  <2>3. ASSUME NEW t \in Tasks, Requeues(task[t], o)
        PROVE  task[t].fn = "requeue" /\ task[t].op = o /\ Midway(t)
    <3>1. task[t].fn = "requeue" /\ task[t].op = o
      BY <2>3 DEF Requeues
    <3>2. task[t] \in Handler /\ HandlerOK(task[t])
      BY <2>1 DEF Types, Handled
    <3>3. QED
      BY <2>3, <3>1, <3>2, MidwayIs
  <2>4. QED
    BY <2>2, <2>3 DEF Somewhere, In
<1>2. QED
  BY <1>1, QueueInvariant, PTL

\* The server carries an operation out once, unless an answer was lost or not noted,
\* a handler acted on an outdated entry or a move was cut off: a flush never replays
\* what another one has under way.
THEOREM QueueAppliesOnce == Spec => []AppliedOnce
<1>1. ASSUME Inv PROVE AppliedOnce
  <2> SUFFICES ASSUME NEW o \in Ops, effects[o] > 1, o \notin unanswered \cup stale
               PROVE  \E fn \in {"bury", "requeue"} : <<fn, o>> \in cut
    BY DEF AppliedOnce
  <2>1. ~Carried(o)
    BY DEF Carried
  <2>2. o \in CutOffs
    BY <1>1, <2>1 DEF Inv
  <2>3. QED
    BY <2>2 DEF CutOffs
<1>2. QED
  BY <1>1, QueueInvariant, PTL
=============================================================================
