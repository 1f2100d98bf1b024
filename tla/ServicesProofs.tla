---------------------------- MODULE ServicesProofs ----------------------------
(***************************************************************************)
(* The routes that resolve disputes, the escrows paid by card, the signaling   *)
(* server and the pool of RPC endpoints, proved for any number of requests,     *)
(* rows, sockets, calls and failures.  They share no state, so each is proved    *)
(* on its own, and what the run checks of the four together follows at the end.  *)
(***************************************************************************)
EXTENDS MCServices, SequenceTheorems, FiniteSetTheorems, TLAPS

-----------------------------------------------------------------------------
(* DISPUTES: a resolved dispute is recorded as what the contract did.           *)
(* What a request still has to do is first described by the value of its         *)
(* record, then the invariant of a dispute is shown to survive each change of it. *)

DisputesSpec == DisputesInit /\ [][DisputesNext]_disputesVars

\* A request that runs has disputes to resolve, each of them once.
Sound(x) ==
    /\ x \in Request
    /\ x.at = "idle" <=> x.todo = <<>>
    /\ x.at # "idle" => x.resolution \in Resolutions
    /\ \A i, j \in 1 .. Len(x.todo) : i # j => x.todo[i] # x.todo[j]
Has(x, d) == \E i \in 1 .. Len(x.todo) : x.todo[i] = d
IsAt(x, step, d) == x.at = step /\ Head(x.todo) = d

\* Once the row is written, or about to be, the contract was asked.
Asked(d) ==
    \/ dispute[d].state = "resolved"
    \/ \E r \in Requests : IsAt(request[r], "write", d) \/ IsAt(request[r], "audit", d)
    => chain[d] # NoResolution \/ d \in unreached

\* Of a dispute no two requests were at together: the request that has it will
\* find it open, and the row follows the contract - or an earlier request's end tore them.
Agreed(d) ==
    LET settled == {NoResolution} \cup torn[d]
    IN  /\ \A q, r \in Requests : Has(request[q], d) /\ Has(request[r], d) => q = r
        /\ \A r \in Requests : Has(request[r], d) =>
               IsAt(request[r], "audit", d) \/ dispute[d].state = "open"
        /\ \A r \in Requests : IsAt(request[r], "audit", d) => dispute[d].state = "resolved"
        /\ \/ dispute[d].state = "resolved" \/ chain[d] \in settled
           \/ \E r \in Requests :
                  IsAt(request[r], "write", d) /\ request[r].resolution = chain[d]
        /\ dispute[d].state = "resolved" => chain[d] \in settled \cup {dispute[d].reason}

DisputesInv ==
    /\ DisputesTypeOK
    /\ \A r \in Requests : Sound(request[r])
    /\ \A d \in DisputeIds : Logged(d) /\ Asked(d)
    /\ \A d \in DisputeIds \ contested : Agreed(d)

-----------------------------------------------------------------------------
(* What becomes of a request's record *)

LEMMA Idle == Sound(NoRequest) /\ \A d : ~Has(NoRequest, d)
BY DEF Sound, NoRequest, Request, Has

\* The one at hand is one of those a request has.
LEMMA HeadHeld ==
    ASSUME NEW x, Sound(x), x.at # "idle"
    PROVE  Head(x.todo) \in DisputeIds /\ Has(x, Head(x.todo))
<1>1. x.todo \in Seq(DisputeIds) /\ x.todo # <<>>
  BY DEF Sound, Request
<1>2. Head(x.todo) = x.todo[1] /\ 1 \in 1 .. Len(x.todo) /\ x.todo[1] \in DisputeIds
  BY <1>1
<1>3. QED
  BY <1>2 DEF Has

\* The next statement on the same dispute.
LEMMA Proceeds ==
    ASSUME NEW x, Sound(x), x.at # "idle", NEW s \in {"ask", "write", "audit"},
           NEW y, y = [x EXCEPT !.at = s]
    PROVE  /\ Sound(y) /\ y.at = s /\ y.todo = x.todo /\ y.resolution = x.resolution
           /\ y.resolution \in Resolutions
           /\ \A d : Has(y, d) <=> Has(x, d)
<1>1. x \in Request
  BY DEF Sound
<1>2. y \in Request /\ y.at = s /\ y.todo = x.todo /\ y.resolution = x.resolution
  BY <1>1 DEF Request
<1>3. QED
  BY <1>2 DEF Sound, Has

LEMMA TailNotEmpty ==
    ASSUME NEW S, NEW s \in Seq(S), Len(s) > 1
    PROVE  Tail(s) # <<>>
<1>1. Tail(s) \in Seq(S) /\ Len(Tail(s)) >= 1
  BY LenProperties, HeadTailProperties
<1>2. ASSUME NEW t \in Seq(S), Len(t) >= 1 PROVE t # <<>>
  BY <1>2
<1>3. QED
  BY <1>1, <1>2

\* The job goes on with the next dispute.
LEMMA GoesOn ==
    ASSUME NEW x, Sound(x), Len(x.todo) > 1,
           NEW y \in Request, y.at = "ask", y.todo = Tail(x.todo),
           y.resolution \in Resolutions
    PROVE  Sound(y) /\ y.at = "ask" /\ \A d : Has(y, d) <=> Has(x, d) /\ d # Head(x.todo)
<1>1. x \in Request /\ x.todo \in Seq(DisputeIds)
  BY DEF Sound, Request
<1>2. /\ Tail(x.todo) \in Seq(DisputeIds) /\ Len(Tail(x.todo)) = Len(x.todo) - 1
      /\ \A i \in 1 .. Len(x.todo) - 1 : Tail(x.todo)[i] = x.todo[i + 1]
      /\ Head(x.todo) = x.todo[1]
  BY <1>1, HeadTailProperties
<1>3. Sound(y)
  <2>1. y.todo # <<>>
    BY <1>1, TailNotEmpty, Zenon
  <2>2. \A i, j \in 1 .. Len(y.todo) : i # j => y.todo[i] # y.todo[j]
    BY <1>1, <1>2 DEF Sound
  <2>3. QED
    BY <2>1, <2>2 DEF Sound
<1>4. ASSUME NEW d PROVE Has(y, d) <=> Has(x, d) /\ d # Head(x.todo)
  <2>1. ASSUME Has(y, d) PROVE Has(x, d) /\ d # Head(x.todo)
    <3>1. PICK i \in 1 .. Len(x.todo) - 1 : x.todo[i + 1] = d
      BY <1>1, <1>2, <2>1 DEF Has
    <3>2. i + 1 \in 1 .. Len(x.todo) /\ i + 1 # 1 /\ 1 \in 1 .. Len(x.todo)
      BY <1>1
    <3>3. x.todo[i + 1] # x.todo[1]
      BY <3>2 DEF Sound
    <3>4. QED
      BY <1>2, <3>1, <3>2, <3>3 DEF Has
  <2>2. ASSUME Has(x, d), d # Head(x.todo) PROVE Has(y, d)
    <3>1. PICK i \in 1 .. Len(x.todo) : x.todo[i] = d
      BY <2>2 DEF Has
    <3>2. i # 1
      BY <1>2, <2>2, <3>1
    <3>3. i - 1 \in 1 .. Len(x.todo) - 1 /\ Tail(x.todo)[i - 1] = x.todo[(i - 1) + 1]
      BY <1>1, <1>2, <3>2
    <3>4. Len(y.todo) = Len(x.todo) - 1 /\ y.todo[i - 1] = d
      BY <1>1, <1>2, <3>1, <3>3
    <3>5. QED
      BY <3>3, <3>4 DEF Has
  <2>3. QED
    BY <2>1, <2>2
<1>5. QED
  BY <1>3, <1>4
-----------------------------------------------------------------------------
(* What becomes of a dispute *)

\* The step is about other disputes.
LEMMA AgreedElsewhere ==
    ASSUME NEW d, Agreed(d),
           dispute'[d] = dispute[d], chain'[d] = chain[d], torn[d] \subseteq torn'[d],
           \A q \in Requests : Has(request'[q], d) => Has(request[q], d),
           \A q \in Requests, s \in {"write", "audit"} :
               IsAt(request'[q], s, d) <=> IsAt(request[q], s, d),
           \A q \in Requests : IsAt(request[q], "write", d) =>
               request'[q].resolution = request[q].resolution
    PROVE  Agreed(d)'
<1>1. \A q \in Requests :
          /\ IsAt(request[q], "write", d)' <=> IsAt(request[q], "write", d)
          /\ IsAt(request[q], "audit", d)' <=> IsAt(request[q], "audit", d)
          /\ Has(request[q], d)' => Has(request[q], d)
  BY DEF IsAt, Has
<1>2. QED
  BY <1>1 DEF Agreed

\* One request changes, and it alone.
Changes(r, y) ==
    /\ Sound(y) /\ request' \in [Requests -> Request]
    /\ request'[r] = y /\ \A q \in Requests \ {r} : request'[q] = request[q]

LEMMA ChangesRecord ==
    ASSUME DisputesInv, NEW r \in Requests, NEW y, Sound(y),
           request' = [request EXCEPT ![r] = y]
    PROVE  Changes(r, y) /\ \A q \in Requests : Sound(request'[q])
<1>1. request \in [Requests -> Request] /\ y \in Request
  BY DEF DisputesInv, DisputesTypeOK, Sound
<1>2. Changes(r, y)
  BY <1>1 DEF Changes
<1>3. QED
  BY <1>2 DEF Changes, DisputesInv

\* What the row and the contract hold stays accounted for when the request puts what it
\* brought about into the log, or on record as lost.
LEMMA LoggedStep ==
    ASSUME DisputesInv, NEW r \in Requests, NEW y, Changes(r, y), NEW d \in DisputeIds,
           audited[d] \subseteq audited'[d], unlogged[d] \subseteq unlogged'[d],
           torn[d] \subseteq torn'[d],
           IsAt(request[r], "audit", d) =>
               request[r].resolution \in audited'[d] \cup unlogged'[d],
           IsAt(request[r], "write", d) =>
               \/ request[r].resolution # chain[d] \/ request[r].resolution \in torn'[d]
               \/ IsAt(y, "audit", d) /\ y.resolution = request[r].resolution,
           \/ dispute'[d].reason = dispute[d].reason
           \/ IsAt(y, "audit", d) /\ y.resolution = dispute'[d].reason,
           \/ chain'[d] = chain[d]
           \/ IsAt(y, "write", d) /\ y.resolution = chain'[d]
    PROVE  Logged(d)'
<1> DEFINE known == {NoResolution} \cup audited[d] \cup unlogged[d]
<1>1. /\ dispute[d].reason \in known \cup Underway(d, {"audit"})
      /\ chain[d] \in known \cup torn[d] \cup Underway(d, {"write", "audit"})
  BY DEF DisputesInv, Logged
<1>2. ASSUME NEW steps, NEW x PROVE x \in Underway(d, steps) <=>
          \E q \in Requests : /\ request[q].at \in steps /\ AtHand(q) = d
                              /\ request[q].resolution = x
  BY DEF Underway
<1>3. ASSUME NEW steps, NEW x PROVE x \in Underway(d, steps)' <=>
          \E q \in Requests : /\ request'[q].at \in steps /\ Head(request'[q].todo) = d
                              /\ request'[q].resolution = x
  BY DEF Underway, AtHand
<1>4. dispute'[d].reason \in known' \cup Underway(d, {"audit"})'
  <2>1. CASE IsAt(y, "audit", d) /\ y.resolution = dispute'[d].reason
    BY <1>3, <2>1 DEF Changes, IsAt
  <2>2. CASE dispute'[d].reason = dispute[d].reason /\ dispute[d].reason \in known
    BY <2>2
  <2>3. CASE /\ dispute'[d].reason = dispute[d].reason
             /\ dispute[d].reason \in Underway(d, {"audit"})
    <3>1. PICK q \in Requests : /\ request[q].at = "audit" /\ Head(request[q].todo) = d
                                /\ request[q].resolution = dispute[d].reason
      BY <1>2, <2>3 DEF AtHand
    <3>2. CASE q = r
      BY <2>3, <3>1, <3>2 DEF IsAt
    <3>3. CASE q # r
      BY <1>3, <2>3, <3>1, <3>3 DEF Changes
    <3>4. QED
      BY <3>2, <3>3
  <2>4. QED
    BY <1>1, <2>1, <2>2, <2>3
<1>5. chain'[d] \in (known \cup torn[d])' \cup Underway(d, {"write", "audit"})'
  <2>1. CASE IsAt(y, "write", d) /\ y.resolution = chain'[d]
    BY <1>3, <2>1 DEF Changes, IsAt
  <2>2. CASE chain'[d] = chain[d] /\ chain[d] \in known \cup torn[d]
    BY <2>2
  <2>3. CASE chain'[d] = chain[d] /\ chain[d] \in Underway(d, {"write", "audit"})
    <3>1. PICK q \in Requests :
              /\ request[q].at \in {"write", "audit"} /\ Head(request[q].todo) = d
              /\ request[q].resolution = chain[d]
      BY <1>2, <2>3 DEF AtHand
    <3>2. CASE q = r /\ request[q].at = "audit"
      BY <2>3, <3>1, <3>2 DEF IsAt
    <3>3. CASE q = r /\ request[q].at = "write"
      <4>1. \/ chain'[d] \in torn'[d]
            \/ IsAt(y, "audit", d) /\ y.resolution = chain'[d]
        BY <2>3, <3>1, <3>3 DEF IsAt
      <4>2. QED
        BY <1>3, <4>1 DEF Changes, IsAt
    <3>4. CASE q # r
      BY <1>3, <2>3, <3>1, <3>4 DEF Changes
    <3>5. QED
      BY <3>1, <3>2, <3>3, <3>4
  <2>4. QED
    BY <1>1, <2>1, <2>2, <2>3
<1>6. QED
  BY <1>4, <1>5 DEF Logged

\* The contract resolves an escrow once, and what a request was told stays told.
LEMMA AskedStep ==
    ASSUME DisputesInv, NEW r \in Requests, NEW y, Changes(r, y), NEW d \in DisputeIds,
           chain[d] # NoResolution => chain'[d] # NoResolution,
           d \in unreached => d \in unreached',
           dispute'[d].state = "resolved" =>
               dispute[d].state = "resolved" \/ IsAt(request[r], "write", d),
           IsAt(y, "write", d) \/ IsAt(y, "audit", d) =>
               \/ IsAt(request[r], "write", d) \/ IsAt(request[r], "audit", d)
               \/ chain'[d] # NoResolution \/ d \in unreached'
    PROVE  Asked(d)'
<1>1. Asked(d)
  BY DEF DisputesInv
<1>2. CASE chain[d] # NoResolution \/ d \in unreached
  BY <1>2 DEF Asked
<1>3. CASE ~(chain[d] # NoResolution \/ d \in unreached)
  <2>1. /\ dispute[d].state # "resolved"
        /\ \A q \in Requests : ~IsAt(request[q], "write", d) /\ ~IsAt(request[q], "audit", d)
    BY <1>1, <1>3 DEF Asked
  <2>2. CASE chain'[d] # NoResolution \/ d \in unreached'
    BY <2>2 DEF Asked
  <2>3. CASE ~(chain'[d] # NoResolution \/ d \in unreached')
    <3>1. ~IsAt(y, "write", d) /\ ~IsAt(y, "audit", d) /\ dispute'[d].state # "resolved"
      BY <2>1, <2>3
    <3>2. \A q \in Requests : /\ ~IsAt(request'[q], "write", d)
                              /\ ~IsAt(request'[q], "audit", d)
      BY <2>1, <3>1 DEF Changes
    <3>3. \A q \in Requests : ~IsAt(request[q], "write", d)' /\ ~IsAt(request[q], "audit", d)'
      BY <3>2 DEF IsAt
    <3>4. QED
      BY <3>1, <3>3 DEF Asked
  <2>4. QED
    BY <2>2, <2>3
<1>4. QED
  BY <1>2, <1>3

\* A request that gives up or goes on to another dispute, or asks nothing of d.
LEMMA AgreedAside ==
    ASSUME DisputesInv, NEW r \in Requests, NEW y, Changes(r, y),
           NEW d \in DisputeIds, Agreed(d), request[r].at = "idle" \/ Head(request[r].todo) # d,
           Has(y, d) => Has(request[r], d),
           y.at = "idle" \/ y.at = "ask" \/ y.todo = request[r].todo,
           dispute'[d] = dispute[d], chain'[d] = chain[d], torn[d] \subseteq torn'[d]
    PROVE  Agreed(d)'
<1>1. \A s \in {"write", "audit"} : ~IsAt(request[r], s, d) /\ ~IsAt(y, s, d)
  BY DEF IsAt, DisputesInv, Sound, Changes
<1>2. QED
  BY <1>1, AgreedElsewhere DEF Changes

LEMMA OthersKept ==
    ASSUME DisputesInv, NEW r \in Requests, NEW y, Changes(r, y),
           NEW d \in DisputeIds, request[r].at = "idle" \/ Head(request[r].todo) # d,
           y.at = "idle" \/ y.at = "ask" \/ y.todo = request[r].todo,
           dispute'[d] = dispute[d], chain'[d] = chain[d],
           d \in unreached => d \in unreached',
           audited[d] \subseteq audited'[d], unlogged[d] \subseteq unlogged'[d],
           torn[d] \subseteq torn'[d]
    PROVE  Logged(d)' /\ Asked(d)'
<1>1. \A s \in {"write", "audit"} : ~IsAt(request[r], s, d) /\ ~IsAt(y, s, d)
  BY DEF IsAt, DisputesInv, Sound, Changes
<1>2. Logged(d)'
  BY <1>1, LoggedStep
<1>3. Asked(d)'
  BY <1>1, AskedStep
<1>4. QED
  BY <1>2, <1>3

-----------------------------------------------------------------------------
(* The steps *)

LEMMA DisputesInitInv == DisputesInit => DisputesInv
<1> SUFFICES ASSUME DisputesInit PROVE DisputesInv
  OBVIOUS
<1>1. \A r \in Requests : request[r] = NoRequest
  BY DEF DisputesInit
<1>2. \A d \in DisputeIds : Agreed(d)
  BY <1>1, Idle DEF DisputesInit, Agreed, IsAt, NoRequest, Unopened
<1>3. DisputesTypeOK
  <2>1. NoRequest \in Request
    BY Idle DEF Sound
  <2>2. Unopened \in Dispute
    BY DEF Unopened, Dispute
  <2>3. QED
    BY <2>1, <2>2, DisputesAssumption DEF DisputesInit, DisputesTypeOK
<1>4. \A d \in DisputeIds : Logged(d) /\ Asked(d)
  BY <1>1 DEF DisputesInit, Logged, Asked, IsAt, NoRequest, Unopened
<1>5. QED
  BY <1>1, <1>2, <1>3, <1>4, Idle DEF DisputesInv

LEMMA OpenStep ==
    ASSUME DisputesInv, NEW e \in DisputeIds, NEW due \in BOOLEAN, Open(e, due)
    PROVE  DisputesInv'
<1> DEFINE row == [Unopened EXCEPT !.state = "open", !.due = due]
<1>1. row \in Dispute /\ row.state = "open" /\ row.reason = Unopened.reason
  BY DEF Unopened, Dispute
<1>2. /\ dispute[e] = Unopened /\ dispute' = [dispute EXCEPT ![e] = row]
      /\ UNCHANGED <<chain, request, audited, contested, unreached, torn, unlogged,
                     requests, failures>>
  BY DEF Open, histories
<1> HIDE DEF row
<1>3. dispute' \in [DisputeIds -> Dispute]
  BY <1>1, <1>2 DEF DisputesInv, DisputesTypeOK
<1>4. DisputesTypeOK' /\ \A r \in Requests : Sound(request[r])'
  BY <1>2, <1>3 DEF DisputesInv, DisputesTypeOK, Sound
<1>5. ASSUME NEW d \in DisputeIds \ contested, Agreed(d) PROVE Agreed(d)'
  <2>1. CASE d = e
    <3>1. \A r \in Requests : ~Has(request[r], d)
      BY <1>2, <1>5, <2>1 DEF Agreed, Unopened
    <3>2. \A r \in Requests, s \in {"write", "audit"} : ~IsAt(request[r], s, d)
      BY <3>1, HeadHeld DEF DisputesInv, IsAt
    <3>3. dispute'[d].state = "open" /\ dispute[d].state # "resolved"
      BY <1>1, <1>2, <2>1 DEF DisputesInv, DisputesTypeOK, Unopened
    <3>4. request' = request
      BY <1>2
    <3>5. \A r \in Requests : ~Has(request[r], d)' /\ ~IsAt(request[r], "write", d)'
                                 /\ ~IsAt(request[r], "audit", d)'
      BY <3>1, <3>2, <3>4 DEF Has, IsAt
    <3>6. chain[d] \in {NoResolution} \cup torn[d]
      BY <1>5, <3>2, <3>3 DEF Agreed
    <3>7. chain'[d] \in {NoResolution} \cup torn'[d]
      BY <1>2, <3>6
    <3>8. QED
      BY <3>3, <3>5, <3>7 DEF Agreed
  <2>2. CASE d # e
    BY <1>2, <1>5, <2>2, AgreedElsewhere DEF DisputesInv, DisputesTypeOK
  <2>3. QED
    BY <2>1, <2>2
<1>6. ASSUME NEW d \in DisputeIds PROVE Logged(d)' /\ Asked(d)'
  <2>1. /\ dispute'[d].reason = dispute[d].reason
        /\ dispute'[d].state = "resolved" => dispute[d].state = "resolved"
    BY <1>1, <1>2 DEF DisputesInv, DisputesTypeOK
  <2>2. Logged(d) /\ Asked(d)
    BY DEF DisputesInv
  <2>3. Logged(d)'
    BY <1>2, <2>1, <2>2 DEF Logged, Underway, AtHand
  <2>4. Asked(d)'
    BY <1>2, <2>1, <2>2 DEF Asked, IsAt
  <2>5. QED
    BY <2>3, <2>4
<1>7. QED
  BY <1>2, <1>4, <1>5, <1>6 DEF DisputesInv

\* A request that begins has disputes that are open, each once.
LEMMA TakesStep ==
    ASSUME DisputesInv, NEW r \in Requests, NEW todo \in Seq(DisputeIds), todo # <<>>,
           \A i, j \in 1 .. Len(todo) : i # j => todo[i] # todo[j],
           \A i \in 1 .. Len(todo) : dispute[todo[i]].state = "open",
           NEW resolution \in Resolutions, NEW nobody \in BOOLEAN,
           Takes(r, todo, resolution, nobody)
    PROVE  DisputesInv'
<1> DEFINE y == [todo |-> todo, resolution |-> resolution, nobody |-> nobody, at |-> "ask"]
           others == UNION {ToSet(request[q].todo) : q \in Requests}
<1>1. y \in Request /\ y.at = "ask" /\ y.todo = todo /\ y.resolution \in Resolutions
  BY DEF Request
<1>2. /\ request[r] = NoRequest /\ request' = [request EXCEPT ![r] = y]
      /\ contested' = contested \cup (ToSet(todo) \cap others)
      /\ UNCHANGED <<dispute, chain, audited, unreached, torn, unlogged, failures>>
      /\ requests < MaxRequests /\ requests' = requests + 1
  BY DEF Takes
<1> HIDE DEF y
<1>3. Sound(y)
  BY <1>1 DEF Sound
<1>4. Changes(r, y) /\ \A q \in Requests : Sound(request'[q])
  BY <1>2, <1>3, ChangesRecord
<1>5. request[r].at = "idle" /\ \A d : ~Has(request[r], d)
  <2>1. NoRequest.at = "idle"
    BY DEF NoRequest
  <2>2. QED
    BY <1>2, <2>1, Idle
<1>6. \A q \in Requests : request[q].todo \in Seq(DisputeIds)
  BY DEF DisputesInv, DisputesTypeOK, Request
<1>7. ASSUME NEW d, NEW q \in Requests, Has(request[q], d) PROVE d \in others
  BY <1>6, <1>7 DEF Has, ToSet
<1>8. ASSUME NEW d, Has(y, d) PROVE d \in ToSet(todo)
  BY <1>1, <1>8 DEF Has, ToSet
<1> HIDE DEF others
<1>9. contested' \subseteq DisputeIds
  BY <1>2 DEF ToSet, DisputesInv, DisputesTypeOK
<1>10. DisputesTypeOK'
  BY <1>2, <1>4, <1>9, DisputesAssumption DEF Changes, DisputesInv, DisputesTypeOK
<1>11. ASSUME NEW d \in DisputeIds \ contested' PROVE Agreed(d)'
  <2>1. Agreed(d)
    BY <1>2 DEF DisputesInv
  <2>2. CASE ~Has(y, d)
    BY <1>1, <1>2, <1>4, <1>5, <2>1, <2>2, AgreedAside
  <2>3. CASE Has(y, d)
    <3>1. \A q \in Requests : ~Has(request[q], d)
      BY <1>2, <1>7, <1>8, <2>3
    <3>2. \A q \in Requests, s \in {"write", "audit"} : ~IsAt(request[q], s, d)
      BY <3>1, HeadHeld DEF DisputesInv, IsAt
    <3>3. dispute[d].state = "open"
      BY <1>1, <2>3 DEF Has
    <3>4. \A q \in Requests : /\ Has(request[q], d)' => q = r
                              /\ ~IsAt(request[q], "write", d)'
                              /\ ~IsAt(request[q], "audit", d)'
      BY <1>1, <1>4, <3>1, <3>2 DEF Changes, Has, IsAt
    <3>5. QED
      <4>1. chain[d] \in {NoResolution} \cup torn[d]
        BY <2>1, <3>2, <3>3 DEF Agreed
      <4>2. dispute'[d].state = "open" /\ chain'[d] \in {NoResolution} \cup torn'[d]
        BY <1>2, <3>3, <4>1
      <4>3. QED
        BY <3>4, <4>2 DEF Agreed
  <2>4. QED
    BY <2>2, <2>3
<1>12. \A d \in DisputeIds : Logged(d)' /\ Asked(d)'
  BY <1>1, <1>2, <1>4, <1>5, OthersKept
<1>13. QED
  BY <1>4, <1>10, <1>11, <1>12 DEF DisputesInv, Sound

LEMMA AskStep ==
    ASSUME DisputesInv, NEW r \in Requests, NEW reached \in BOOLEAN, Ask(r, reached),
           NEW e, e = AtHand(r)
    PROVE  DisputesInv'
<1> DEFINE y == [request[r] EXCEPT !.at = "write"]
<1>1. /\ request[r].at = "ask" /\ request' = [request EXCEPT ![r] = y]
      /\ chain' = IF reached /\ chain[e] = NoResolution
                  THEN [chain EXCEPT ![e] = request[r].resolution] ELSE chain
      /\ unreached' = IF reached THEN unreached ELSE unreached \cup {e}
      /\ ~reached => failures < MaxFailures
      /\ failures' = IF reached THEN failures ELSE failures + 1
      /\ UNCHANGED <<dispute, audited, contested, torn, unlogged, requests>>
  BY DEF Ask
<1>2. Sound(request[r]) /\ e \in DisputeIds /\ Has(request[r], e)
  BY <1>1, HeadHeld DEF DisputesInv, AtHand
<1>3. /\ Sound(y) /\ y.at = "write" /\ y.todo = request[r].todo
      /\ y.resolution = request[r].resolution
      /\ \A d : Has(y, d) <=> Has(request[r], d)
  BY <1>1, <1>2, Proceeds
<1>4. e = Head(request[r].todo)
  BY DEF AtHand
<1> HIDE DEF y
<1>5. Changes(r, y) /\ \A q \in Requests : Sound(request'[q])
  BY <1>1, <1>3, ChangesRecord
<1>6. DisputesTypeOK'
  <2>1. chain' \in [DisputeIds -> Resolutions \cup {NoResolution}]
    BY <1>1, <1>2 DEF DisputesInv, DisputesTypeOK, Sound, Request
  <2>2. unreached' \subseteq DisputeIds
    BY <1>1, <1>2 DEF DisputesInv, DisputesTypeOK
  <2>3. failures' \in 0 .. MaxFailures
    BY <1>1, DisputesAssumption DEF DisputesInv, DisputesTypeOK
  <2>4. QED
    BY <1>1, <1>5, <2>1, <2>2, <2>3 DEF Changes, DisputesInv, DisputesTypeOK
<1>7. ASSUME NEW d \in DisputeIds \ contested, d # e PROVE Agreed(d)'
  <2>1. Agreed(d)
    BY DEF DisputesInv
  <2>2. chain'[d] = chain[d] /\ unreached \subseteq unreached'
    BY <1>1, <1>7 DEF DisputesInv, DisputesTypeOK
  <2>3. QED
    BY <1>1, <1>3, <1>4, <1>5, <1>7, <2>1, <2>2, AgreedAside
<1>8. ASSUME e \notin contested PROVE Agreed(e)'
  <2>1. Agreed(e)
    BY <1>2, <1>8 DEF DisputesInv
  <2>2. \A q \in Requests : Has(request[q], e) => q = r
    BY <1>2, <2>1 DEF Agreed
  <2>3. \A q \in Requests, s \in {"write", "audit"} : ~IsAt(request[q], s, e)
    BY <1>1, <2>2, HeadHeld DEF DisputesInv, IsAt
  <2>4. dispute[e].state = "open"
    BY <1>1, <1>2, <2>1, <2>3 DEF Agreed
  <2>5. chain[e] \in {NoResolution} \cup torn[e]
    BY <2>1, <2>3, <2>4 DEF Agreed
  <2>6. chain'[e] \in {NoResolution, request[r].resolution} \cup torn'[e]
    BY <1>1, <1>2, <2>5 DEF DisputesInv, DisputesTypeOK
  <2>7. IsAt(request'[r], "write", e) /\ request'[r].resolution = request[r].resolution
    BY <1>3, <1>4, <1>5 DEF Changes, IsAt
  <2>8. \A q \in Requests : /\ Has(request'[q], e) => q = r
                            /\ IsAt(request'[q], "write", e) => q = r
                            /\ ~IsAt(request'[q], "audit", e)
    BY <1>3, <1>5, <2>2, <2>3 DEF Changes, IsAt
  <2>9. QED
    <3>1. dispute'[e].state = "open"
      BY <1>1, <2>4
    <3>2. /\ \A q \in Requests : Has(request[q], e)' => q = r
          /\ \A q \in Requests : IsAt(request[q], "write", e)' <=> q = r
          /\ \A q \in Requests : ~IsAt(request[q], "audit", e)'
      BY <2>7, <2>8
    <3>3. \/ chain'[e] \in {NoResolution} \cup torn'[e]
          \/ IsAt(request'[r], "write", e) /\ request'[r].resolution = chain'[e]
      BY <2>6, <2>7
    <3>4. QED
      BY <3>1, <3>2, <3>3 DEF Agreed
<1>9. \A d \in DisputeIds \ {e} : Logged(d)' /\ Asked(d)'
  <2>1. ASSUME NEW d \in DisputeIds, d # e
        PROVE  chain'[d] = chain[d] /\ (d \in unreached => d \in unreached')
    BY <1>1, <1>2, <2>1 DEF DisputesInv, DisputesTypeOK
  <2>2. QED
    BY <1>1, <1>3, <1>4, <1>5, <2>1, OthersKept
<1>10. Logged(e)' /\ Asked(e)'
  <2>1. /\ ~IsAt(request[r], "audit", e) /\ ~IsAt(request[r], "write", e)
        /\ IsAt(y, "write", e)
    BY <1>1, <1>3, <1>4 DEF IsAt
  <2>2. /\ chain'[e] = chain[e] \/ y.resolution = chain'[e]
        /\ chain'[e] # NoResolution \/ e \in unreached'
        /\ chain[e] # NoResolution => chain'[e] # NoResolution
        /\ e \in unreached => e \in unreached'
    <3>1. chain \in [DisputeIds -> Resolutions \cup {NoResolution}]
      BY DEF DisputesInv, DisputesTypeOK
    <3>2. request[r].resolution # NoResolution
      <4>1. NoResolution \notin Resolutions
        BY DEF Resolutions, NoResolution
      <4>2. QED
        BY <1>1, <1>2, <4>1 DEF Sound
    <3>3. CASE ~reached
      BY <1>1, <3>3
    <3>4. CASE reached /\ chain[e] = NoResolution
      BY <1>1, <1>2, <1>3, <3>1, <3>2, <3>4
    <3>5. CASE reached /\ chain[e] # NoResolution
      BY <1>1, <3>5
    <3>6. QED
      BY <3>3, <3>4, <3>5
  <2>3. Logged(e)'
    BY <1>1, <1>2, <1>5, <2>1, <2>2, LoggedStep
  <2>4. Asked(e)'
    BY <1>1, <1>2, <1>5, <2>1, <2>2, AskedStep
  <2>5. QED
    BY <2>3, <2>4
<1>11. QED
  BY <1>1, <1>5, <1>6, <1>7, <1>8, <1>9, <1>10 DEF DisputesInv, Sound

\* The row follows the contract, if it got the request.
LEMMA WriteStep ==
    ASSUME DisputesInv, NEW r \in Requests, WriteDispute(r), NEW e, e = AtHand(r)
    PROVE  DisputesInv'
<1> DEFINE y == [request[r] EXCEPT !.at = "audit"]
<1>1. /\ request[r].at = "write" /\ request' = [request EXCEPT ![r] = y]
      /\ dispute' = [dispute EXCEPT ![e].state = "resolved",
                                    ![e].reason = request[r].resolution]
      /\ UNCHANGED <<chain, audited, contested, unreached, torn, unlogged, requests,
                     failures>>
  BY DEF WriteDispute, histories
<1>2. Sound(request[r]) /\ e \in DisputeIds /\ Has(request[r], e)
  BY <1>1, HeadHeld DEF DisputesInv, AtHand
<1>3. /\ Sound(y) /\ y.at = "audit" /\ y.todo = request[r].todo
      /\ y.resolution = request[r].resolution
      /\ \A d : Has(y, d) <=> Has(request[r], d)
  BY <1>1, <1>2, Proceeds
<1>4. e = Head(request[r].todo)
  BY DEF AtHand
<1> HIDE DEF y
<1>5. Changes(r, y) /\ \A q \in Requests : Sound(request'[q])
  BY <1>1, <1>3, ChangesRecord
<1>6. /\ dispute' \in [DisputeIds -> Dispute]
      /\ dispute'[e].state = "resolved" /\ dispute'[e].reason = request[r].resolution
      /\ \A d \in DisputeIds \ {e} : dispute'[d] = dispute[d]
  <2>1. dispute \in [DisputeIds -> Dispute]
    BY DEF DisputesInv, DisputesTypeOK
  <2>2. request[r].resolution \in Resolutions \cup {NoResolution}
    BY <1>2 DEF Sound, Request
  <2> DEFINE t == [dispute EXCEPT ![e].state = "resolved"]
  <2>3. /\ t \in [DisputeIds -> Dispute] /\ t[e].state = "resolved"
        /\ \A d \in DisputeIds \ {e} : t[d] = dispute[d]
    BY <1>2, <2>1 DEF Dispute
  <2>4. dispute' = [t EXCEPT ![e].reason = request[r].resolution]
    BY <1>1
  <2> HIDE DEF t
  <2>5. QED
    BY <1>2, <2>2, <2>3, <2>4 DEF Dispute
<1>7. DisputesTypeOK'
  BY <1>1, <1>5, <1>6, SMTT(30) DEF Changes, DisputesInv, DisputesTypeOK
<1>8. ASSUME NEW d \in DisputeIds \ contested, d # e PROVE Agreed(d)'
  <2>1. Agreed(d)
    BY DEF DisputesInv
  <2>2. QED
    BY <1>1, <1>3, <1>4, <1>5, <1>6, <1>8, <2>1, AgreedAside
<1>9. ASSUME e \notin contested PROVE Agreed(e)'
  <2>1. Agreed(e)
    BY <1>2, <1>9 DEF DisputesInv
  <2>2. \A q \in Requests : Has(request[q], e) => q = r
    BY <1>2, <2>1 DEF Agreed
  <2>3. \A q \in Requests, s \in {"write", "audit"} : IsAt(request[q], s, e) => q = r
    BY <2>2, HeadHeld DEF DisputesInv, IsAt
  <2>4. chain[e] \in {NoResolution, request[r].resolution} \cup torn[e]
    <3>1. IsAt(request[r], "write", e) /\ dispute[e].state = "open"
      BY <1>1, <1>2, <1>4, <2>1 DEF Agreed, IsAt
    <3>2. QED
      BY <2>1, <2>3, <3>1, SMTT(30) DEF Agreed
  <2>5. IsAt(request'[r], "audit", e) /\ ~IsAt(request'[r], "write", e)
    BY <1>3, <1>4, <1>5 DEF Changes, IsAt
  <2>6. request'[r].resolution = request[r].resolution
    BY <1>3, <1>5 DEF Changes
  <2>7. \A q \in Requests : /\ Has(request'[q], e) => q = r
                            /\ ~IsAt(request'[q], "write", e)
    BY <1>3, <1>5, <2>2, <2>3, <2>5 DEF Changes
  <2>8. /\ dispute'[e].state = "resolved"
        /\ chain'[e] \in {NoResolution} \cup torn'[e] \cup {dispute'[e].reason}
    BY <1>1, <1>6, <2>4
  <2>9. \A q, s \in Requests : Has(request[q], e)' /\ Has(request[s], e)' => q = s
    BY <2>7, Zenon
  <2>10. \A q \in Requests : Has(request[q], e)' => IsAt(request[q], "audit", e)'
    BY <2>5, <2>7, SMTT(30)
  <2>11. QED
    BY <2>8, <2>9, <2>10 DEF Agreed
<1>10. \A d \in DisputeIds \ {e} : Logged(d)' /\ Asked(d)'
  BY <1>1, <1>3, <1>4, <1>5, <1>6, OthersKept
<1>11. Logged(e)' /\ Asked(e)'
  <2>1. IsAt(y, "audit", e) /\ IsAt(request[r], "write", e) /\ ~IsAt(request[r], "audit", e)
    BY <1>1, <1>3, <1>4 DEF IsAt
  <2>2. Logged(e)'
    BY <1>1, <1>2, <1>3, <1>5, <1>6, <2>1, LoggedStep
  <2>3. Asked(e)'
    BY <1>1, <1>2, <1>3, <1>5, <1>6, <2>1, AskedStep
  <2>4. QED
    BY <2>2, <2>3
<1>12. QED
  BY <1>1, <1>5, <1>7, <1>8, <1>9, <1>10, <1>11 DEF DisputesInv, Sound

\* A request that is done with the one at hand, or gives up: what it leaves of it is
\* in the log, or on record as lost.
LEMMA LeavesStep ==
    ASSUME DisputesInv, NEW r \in Requests, request[r].at # "idle",
           NEW e, e = AtHand(r), NEW y, Sound(y), y.at = "idle" \/ y.at = "ask",
           \A d : Has(y, d) => Has(request[r], d) /\ d # e,
           request' = [request EXCEPT ![r] = y],
           UNCHANGED <<dispute, chain, contested, unreached, requests>>,
           failures' \in 0 .. MaxFailures,
           {audited', torn', unlogged'} \subseteq [DisputeIds -> SUBSET Resolutions],
           \A d \in DisputeIds : /\ audited[d] \subseteq audited'[d]
                                 /\ torn[d] \subseteq torn'[d]
                                 /\ unlogged[d] \subseteq unlogged'[d],
           request[r].at = "write" /\ chain[e] = request[r].resolution =>
               request[r].resolution \in torn'[e],
           request[r].at = "audit" => request[r].resolution \in audited'[e] \cup unlogged'[e]
    PROVE  DisputesInv'
<1>1. e = Head(request[r].todo) /\ Sound(request[r])
  BY DEF AtHand, DisputesInv
<1>2. e \in DisputeIds /\ Has(request[r], e)
  BY <1>1, HeadHeld
<1>3. Changes(r, y) /\ \A q \in Requests : Sound(request'[q])
  BY ChangesRecord
<1>4. DisputesTypeOK'
  BY <1>3 DEF Changes, DisputesInv, DisputesTypeOK
<1>5. ASSUME NEW d \in DisputeIds \ contested, d # e PROVE Agreed(d)'
  <2>1. Agreed(d)
    BY DEF DisputesInv
  <2>2. QED
    BY <1>1, <1>3, <1>5, <2>1, AgreedAside
<1>6. ASSUME e \notin contested PROVE Agreed(e)'
  <2>1. Agreed(e)
    BY <1>2, <1>6 DEF DisputesInv
  <2>2. \A q \in Requests : Has(request[q], e) => q = r
    BY <1>2, <2>1 DEF Agreed
  <2>3. \A q \in Requests, s \in {"write", "audit"} : IsAt(request[q], s, e) => q = r
    BY <2>2, HeadHeld DEF DisputesInv, IsAt
  <2>4. \A q \in Requests : ~Has(request'[q], e)
    BY <1>3, <2>2, <2>3 DEF Changes
  <2>5. \A q \in Requests : ~Has(request[q], e)' /\ ~IsAt(request[q], "audit", e)'
    <3>1. \A q \in Requests : ~IsAt(request'[q], "audit", e)
      BY <1>3, <2>3 DEF Changes, IsAt
    <3>2. QED
      BY <2>4, <3>1 DEF Has, IsAt
  <2>6. \/ dispute'[e].state = "resolved" \/ chain'[e] \in {NoResolution} \cup torn'[e]
    <3>1. CASE request[r].at = "audit"
      BY <1>1, <1>2, <2>1, <2>3, <3>1, SMTT(30) DEF Agreed, IsAt
    <3>2. CASE request[r].at # "audit"
      BY <1>1, <1>2, <2>1, <2>3, <3>2, SMTT(30) DEF Agreed, IsAt
    <3>3. QED
      BY <3>1, <3>2, Zenon
  <2>7. dispute'[e].state = "resolved" =>
            chain'[e] \in {NoResolution} \cup torn'[e] \cup {dispute'[e].reason}
    BY <1>2, <2>1 DEF Agreed
  <2>8. QED
    BY <2>5, <2>6, <2>7 DEF Agreed
<1>7. \A d \in DisputeIds \ {e} : Logged(d)' /\ Asked(d)'
  BY <1>1, <1>3, OthersKept
<1>8. Logged(e)' /\ Asked(e)'
  <2>1. /\ IsAt(request[r], "audit", e) => request[r].at = "audit"
        /\ IsAt(request[r], "write", e) => request[r].at = "write"
        /\ ~IsAt(y, "write", e) /\ ~IsAt(y, "audit", e)
    BY DEF IsAt
  <2>2. Logged(e)'
    BY <1>2, <1>3, <2>1, LoggedStep
  <2>3. Asked(e)'
    BY <1>2, <1>3, <2>1, AskedStep
  <2>4. QED
    BY <2>2, <2>3
<1>9. QED
  BY <1>3, <1>4, <1>5, <1>6, <1>7, <1>8 DEF DisputesInv, Sound

\* The entry of the audit log, or its failure, which ends the job.
LEMMA AuditStep ==
    ASSUME DisputesInv, NEW r \in Requests, Audit(r), NEW e, e = AtHand(r)
    PROVE  DisputesInv'
<1> DEFINE x == request[r].resolution
           y == IF request[r].nobody THEN NoRequest ELSE Rest(r)
<1>1. /\ request[r].at = "audit" /\ request' = [request EXCEPT ![r] = y]
      /\ audited' = IF request[r].nobody THEN audited
                    ELSE [audited EXCEPT ![e] = @ \cup {x}]
      /\ unlogged' = IF request[r].nobody THEN [unlogged EXCEPT ![e] = @ \cup {x}]
                     ELSE unlogged
      /\ UNCHANGED <<dispute, chain, contested, unreached, torn, requests, failures>>
  BY DEF Audit, Noted
<1>2. e = Head(request[r].todo) /\ Sound(request[r])
  BY DEF AtHand, DisputesInv
<1>3. e \in DisputeIds /\ x \in Resolutions
  BY <1>1, <1>2, HeadHeld DEF Sound
<1>4. /\ Sound(y) /\ (y.at = "idle" \/ y.at = "ask")
      /\ \A d : Has(y, d) => Has(request[r], d) /\ d # e
  <2>1. CASE y = NoRequest
    <3>1. NoRequest.at = "idle"
      BY DEF NoRequest
    <3>2. QED
      BY <2>1, <3>1, Idle
  <2>2. CASE y # NoRequest
    <3>1. Len(request[r].todo) > 1 /\ y = [request[r] EXCEPT !.todo = Tail(@), !.at = "ask"]
      BY <2>2 DEF Rest
    <3>2. /\ request[r] \in Request /\ Tail(request[r].todo) \in Seq(DisputeIds)
      BY <1>2, <3>1, HeadTailProperties DEF Sound, Request
    <3> HIDE DEF y
    <3>3. /\ y \in Request /\ y.at = "ask" /\ y.todo = Tail(request[r].todo)
          /\ y.resolution \in Resolutions
      <4> DEFINE t == [request[r] EXCEPT !.todo = Tail(@)]
      <4>1. t \in Request /\ t.todo = Tail(request[r].todo) /\ t.resolution = x
        BY <3>2 DEF Request
      <4>2. y = [t EXCEPT !.at = "ask"]
        BY <3>1
      <4> HIDE DEF t
      <4>3. QED
        BY <1>3, <4>1, <4>2 DEF Request
    <3>4. Len(request[r].todo) > 1
      BY <3>1
    <3>5. QED
      BY <1>2, <3>3, <3>4, GoesOn
  <2>3. QED
    BY <2>1, <2>2
<1> HIDE DEF y, x
<1>5. /\ {audited', unlogged'} \subseteq [DisputeIds -> SUBSET Resolutions]
      /\ \A d \in DisputeIds : /\ audited[d] \subseteq audited'[d]
                               /\ unlogged[d] \subseteq unlogged'[d]
      /\ x \in audited'[e] \cup unlogged'[e]
  <2>1. {audited, unlogged} \subseteq [DisputeIds -> SUBSET Resolutions]
    BY DEF DisputesInv, DisputesTypeOK
  <2>2. CASE request[r].nobody
    BY <1>1, <1>3, <2>1, <2>2
  <2>3. CASE ~request[r].nobody
    BY <1>1, <1>3, <2>1, <2>3
  <2>4. QED
    BY <2>2, <2>3
<1>6. /\ request[r].at = "audit" /\ request' = [request EXCEPT ![r] = y]
      /\ UNCHANGED <<dispute, chain, contested, unreached, requests>>
      /\ failures' \in 0 .. MaxFailures
      /\ torn' = torn /\ torn \in [DisputeIds -> SUBSET Resolutions]
  BY <1>1 DEF DisputesInv, DisputesTypeOK
<1>7. QED
  BY <1>4, <1>5, <1>6, LeavesStep DEF x

LEMMA RequestFailsStep ==
    ASSUME DisputesInv, NEW r \in Requests, RequestFails(r), NEW e, e = AtHand(r)
    PROVE  DisputesInv'
<1> DEFINE x == request[r].resolution
<1>1. /\ request[r].at # "idle" /\ request' = [request EXCEPT ![r] = NoRequest]
      /\ failures < MaxFailures /\ failures' = failures + 1
      /\ torn' = IF request[r].at = "write" /\ chain[e] = x
                 THEN [torn EXCEPT ![e] = @ \cup {x}] ELSE torn
      /\ unlogged' = IF request[r].at = "audit"
                     THEN [unlogged EXCEPT ![e] = @ \cup {x}] ELSE unlogged
      /\ UNCHANGED <<dispute, chain, audited, contested, unreached, requests>>
  BY DEF RequestFails, Noted
<1>2. e \in DisputeIds /\ x \in Resolutions
  BY <1>1, HeadHeld DEF AtHand, DisputesInv, Sound
<1> HIDE DEF x
<1>3. {audited, torn, unlogged} \subseteq [DisputeIds -> SUBSET Resolutions]
  BY DEF DisputesInv, DisputesTypeOK
<1>4. /\ torn' \in [DisputeIds -> SUBSET Resolutions]
      /\ \A d \in DisputeIds : torn[d] \subseteq torn'[d]
      /\ request[r].at = "write" /\ chain[e] = x => x \in torn'[e]
  BY <1>1, <1>2, <1>3
<1>5. /\ unlogged' \in [DisputeIds -> SUBSET Resolutions]
      /\ \A d \in DisputeIds : unlogged[d] \subseteq unlogged'[d]
      /\ request[r].at = "audit" => x \in unlogged'[e]
  BY <1>1, <1>2, <1>3
<1>6. failures' \in 0 .. MaxFailures
  BY <1>1, DisputesAssumption DEF DisputesInv, DisputesTypeOK
<1>7. NoRequest.at = "idle"
  BY DEF NoRequest
<1>8. /\ \A d \in DisputeIds : /\ audited[d] \subseteq audited'[d]
                               /\ torn[d] \subseteq torn'[d]
                               /\ unlogged[d] \subseteq unlogged'[d]
      /\ {audited', torn', unlogged'} \subseteq [DisputeIds -> SUBSET Resolutions]
      /\ UNCHANGED <<dispute, chain, contested, unreached, requests>>
  BY <1>1, <1>3, <1>4, <1>5
<1>9. Sound(NoRequest) /\ \A d : Has(NoRequest, d) => Has(request[r], d) /\ d # e
  BY Idle
<1>10. QED
  BY <1>1, <1>4, <1>5, <1>6, <1>7, <1>8, <1>9, LeavesStep, ZenonT(60) DEF x

\* The disputes that are due, in some order, are a sequence of them without repetition.
LEMMA Ordered ==
    ASSUME NEW S \in SUBSET DisputeIds, S # {}, NEW todo \in SetToSeqs(S)
    PROVE  /\ todo \in Seq(DisputeIds) /\ todo # <<>>
           /\ \A i \in 1 .. Len(todo) : todo[i] \in S
           /\ \A i, j \in 1 .. Len(todo) : i # j => todo[i] # todo[j]
<1>1. IsFiniteSet(S)
  BY DisputesAssumption, FS_Subset
<1>2. Cardinality(S) \in Nat
  BY <1>1, FS_CardinalityType
<1>3. Cardinality(S) >= 1
  BY <1>1, <1>2, FS_EmptySet
<1> DEFINE n == Cardinality(S)
<1>4. /\ todo \in [1 .. n -> S]
      /\ \A i, j \in 1 .. n : i # j => todo[i] # todo[j]
  BY DEF SetToSeqs
<1> HIDE DEF n
<1>5. n \in Nat /\ n >= 1
  BY <1>2, <1>3 DEF n
<1>6. todo \in Seq(S) /\ Len(todo) = n
  BY <1>4, <1>5
<1>7. todo # <<>>
  BY <1>5, <1>6
<1>8. QED
  BY <1>4, <1>5, <1>6, <1>7

LEMMA DisputesNextInv == DisputesInv /\ [DisputesNext]_disputesVars => DisputesInv'
<1> SUFFICES ASSUME DisputesInv, [DisputesNext]_disputesVars PROVE DisputesInv'
  OBVIOUS
<1>1. CASE \E d \in DisputeIds, due \in BOOLEAN : Open(d, due)
  BY <1>1, OpenStep
<1>2. ASSUME NEW r \in Requests, RequestStep(r) \/ RequestFails(r) PROVE DisputesInv'
  BY <1>2, AskStep, WriteStep, AuditStep, RequestFailsStep DEF RequestStep
<1>3. ASSUME NEW r \in Requests, NEW d \in DisputeIds, NEW x \in Resolutions,
             AdminResolves(r, d, x)
      PROVE  DisputesInv'
  <2>1. /\ <<d>> \in Seq(DisputeIds) /\ <<d>> # <<>> /\ Len(<<d>>) = 1
        /\ \A i \in 1 .. 1 : <<d>>[i] = d
    OBVIOUS
  <2>2. Takes(r, <<d>>, x, FALSE) /\ dispute[d].state = "open"
    BY <1>3 DEF AdminResolves, MayResolve
  <2>3. /\ \A i \in 1 .. Len(<<d>>) : dispute[<<d>>[i]].state = "open"
        /\ \A i, j \in 1 .. Len(<<d>>) : i # j => <<d>>[i] # <<d>>[j]
    BY <2>1, <2>2
  <2>4. FALSE \in BOOLEAN
    OBVIOUS
  <2>5. QED
    BY <2>1, <2>2, <2>3, <2>4, TakesStep, Zenon
<1>4. ASSUME NEW r \in Requests, NEW nobody \in BOOLEAN, DeadlineJob(r, nobody)
      PROVE  DisputesInv'
  <2> DEFINE due == {d \in DisputeIds : dispute[d].state = "open" /\ dispute[d].due}
  <2>1. PICK todo \in SetToSeqs(due) : Takes(r, todo, "split_50_50", nobody)
    BY <1>4 DEF DeadlineJob
  <2>2. due # {} /\ due \in SUBSET DisputeIds
    BY <1>4 DEF DeadlineJob
  <2>3. /\ todo \in Seq(DisputeIds) /\ todo # <<>>
        /\ \A i \in 1 .. Len(todo) : todo[i] \in due
        /\ \A i, j \in 1 .. Len(todo) : i # j => todo[i] # todo[j]
    BY <2>1, <2>2, Ordered
  <2>4. "split_50_50" \in Resolutions
    BY DEF Resolutions
  <2>5. QED
    BY <2>1, <2>3, <2>4, TakesStep
<1>5. CASE UNCHANGED disputesVars
  <2>1. UNCHANGED <<dispute, chain, request, audited, contested, unreached, torn, unlogged,
                    requests, failures>>
    BY <1>5 DEF disputesVars, histories
  <2>2. \A d \in DisputeIds \ contested : Agreed(d)'
    BY <2>1, AgreedElsewhere DEF DisputesInv
  <2>3. \A d \in DisputeIds : Logged(d)' /\ Asked(d)'
    BY <2>1 DEF DisputesInv, Logged, Underway, AtHand, Asked, IsAt
  <2>4. QED
    BY <2>1, <2>2, <2>3 DEF DisputesInv, DisputesTypeOK, Sound
<1>6. QED
  BY <1>1, <1>2, <1>3, <1>4, <1>5 DEF DisputesNext

\* Whatever requests come and fail, in whatever order: what the row and the contract
\* hold is in the audit log or on record as lost, and a resolved dispute is recorded
\* as what the contract did - but where no request reached it, two requests were at
\* the dispute at one time, or an earlier one ended between the contract and the row.
THEOREM DisputesCorrect == DisputesSpec => []ResolutionAgrees
<1>1. DisputesInv => ResolutionAgrees
  <2> SUFFICES ASSUME DisputesInv, NEW d \in DisputeIds PROVE Logged(d) /\ Matches(d)
    BY DEF ResolutionAgrees
  <2>1. Logged(d) /\ Asked(d) /\ (d \notin contested => Agreed(d))
    BY DEF DisputesInv
  <2>2. dispute[d].state = "resolved" /\ chain[d] = NoResolution => d \in unreached
    BY <2>1 DEF Asked
  <2>3. dispute[d].state = "resolved" /\ d \notin contested =>
            chain[d] \in {NoResolution, dispute[d].reason} \cup torn[d]
    BY <2>1 DEF Agreed
  <2>4. QED
    BY <2>1, <2>2, <2>3 DEF Matches
<1>2. QED
  BY DisputesInitInv, DisputesNextInv, <1>1, PTL DEF DisputesSpec

\* Every reachable state of the routes is well typed.
THEOREM DisputesTypeCorrect == DisputesSpec => []DisputesTypeOK
<1>1. DisputesInv => DisputesTypeOK
  BY DEF DisputesInv
<1>2. QED
  BY DisputesInitInv, DisputesNextInv, <1>1, PTL DEF DisputesSpec

-----------------------------------------------------------------------------
(* CARD ESCROWS: one payment per key, and records that follow the money.        *)

CardSpec == CardInit /\ [][CardNext]_cardVars

\* Where a request is says what it has.
Creating == {"intent", "answer", "store"}
PostOK(x) ==
    /\ x.at = "idle" => x = NoPost
    /\ x.at \in Creating \cup {"create"} <=> x.key \in Keys
    /\ x.at \notin {"idle", "create"} <=> x.escrow \in CardEscrows
AtIntent == {"capture", "release", "retrieve", "cancel", "giveBack"}
Post == [at : PostSteps, key : Keys \cup {"none"}, escrow : CardEscrows \cup {"none"}]

\* Requests are at records that exist, those that speak to Stripe at records with
\* an intent, and only such an intent has been captured.
Placed ==
    /\ \A r \in Posts :
           /\ PostOK(post[r])
           /\ post[r].escrow \in CardEscrows => record[post[r].escrow] # "absent"
           /\ post[r].at \in AtIntent => post[r].escrow \in attached
           /\ post[r].at \in {"answer", "store"} => intent[post[r].escrow] # "none"
    /\ \A e \in CardEscrows :
           /\ record[e] = "absent" => intent[e] = "none"
           /\ e \in attached => intent[e] # "none"
           /\ e \notin attached => intent[e] \notin {"succeeded", "refunded"}

\* A record belongs to the key that created it, and is paid by who has its secret.
Owned ==
    /\ \A k \in Keys : \A e \in created[k] : record[e] # "absent"
    /\ \A j, k \in Keys : \A e \in created[j] : e \in created[k] => j = k
    /\ \A r \in Posts : post[r].at \in Creating => post[r].escrow \in created[post[r].key]
    /\ \A e \in payable : record[e] # "absent"
    /\ Paid \subseteq payable

\* Of a key that did not clash: nothing of its one request is cached or payable yet,
\* and what becomes payable is cached before the request ends.
KeyOnce(k) ==
    /\ \A q, r \in Posts : post[q].key = k /\ post[r].key = k => q = r
    /\ \A r \in Posts : post[r].key = k => k \notin cached
    /\ \A e \in payable \cap created[k] : k \in cached
    /\ \A e, f \in payable \cap created[k] : e = f

\* Of an escrow that did not stray: only between Stripe's answer to a refund and
\* the mark on the record may the two differ.
Agrees(e) ==
    /\ record[e] = "released" => intent[e] = "succeeded"
    /\ record[e] = "refunded" => intent[e] \in {"canceled", "refunded"} \/ e \in early
GivesBack(e) == \E r \in Posts : post[r].escrow = e /\ post[r].at = "refund"
Follows(e) ==
    /\ \A q, r \in Posts : post[q].escrow = e /\ post[r].escrow = e => q = r
    /\ Agrees(e) \/ GivesBack(e)
    /\ \A r \in Posts : post[r].escrow = e =>
           /\ post[r].at = "intent" => intent[e] = "none"
           /\ post[r].at = "release" => intent[e] = "succeeded"
           /\ post[r].at = "refund" => intent[e] # "succeeded"

CardInv ==
    /\ CardTypeOK /\ Placed /\ Owned
    /\ \A k \in Keys \ clashed : KeyOnce(k)
    /\ \A e \in CardEscrows \ strayed : Follows(e)

LEMMA CardInitInv == CardInit => CardInv
<1> SUFFICES ASSUME CardInit PROVE CardInv
  OBVIOUS
<1>1. NoPost \in Post /\ PostOK(NoPost) /\ NoPost.escrow = "none" /\ NoPost.key = "none"
  BY CardAssumption DEF NoPost, Post, PostSteps, PostOK, Creating
<1>2. CardTypeOK
  BY <1>1, CardAssumption DEF CardInit, CardTypeOK, RecordStates, IntentStates, Post
<1>3. Placed
  BY <1>1, CardAssumption DEF CardInit, Placed, AtIntent, NoPost
<1>4. \A k \in Keys : KeyOnce(k)
  BY <1>1, CardAssumption DEF CardInit, KeyOnce
<1>5. \A e \in CardEscrows : Follows(e)
  BY <1>1, CardAssumption DEF CardInit, Follows, Agrees, GivesBack
<1>6. Owned
  BY <1>1 DEF CardInit, Owned, Paid, Creating, NoPost
<1>7. QED
  BY <1>2, <1>3, <1>4, <1>5, <1>6 DEF CardInv

-----------------------------------------------------------------------------
(* The shapes of a step *)

\* One request becomes y, the others stay.
Becoming(r, y) ==
    /\ y \in Post /\ post' \in [Posts -> Post] /\ post'[r] = y
    /\ \A q \in Posts \ {r} : post'[q] = post[q]

LEMMA BecomingPost ==
    ASSUME CardTypeOK, NEW r \in Posts, NEW y \in Post, post' = [post EXCEPT ![r] = y]
    PROVE  Becoming(r, y)
BY DEF CardTypeOK, Becoming, Post

LEMMA GotoPost ==
    ASSUME CardTypeOK, NEW r \in Posts, NEW s \in PostSteps, Goto(r, s)
    PROVE  LET y == [post[r] EXCEPT !.at = s]
           IN  /\ Becoming(r, y) /\ y.at = s
               /\ y.key = post[r].key /\ y.escrow = post[r].escrow
BY DEF CardTypeOK, Becoming, Post, Goto

LEMMA EndsPost ==
    ASSUME CardTypeOK, NEW r \in Posts, Ends(r)
    PROVE  /\ Becoming(r, NoPost) /\ PostOK(NoPost)
           /\ NoPost.at = "idle" /\ NoPost.key = "none" /\ NoPost.escrow = "none"
<1>1. NoPost \in Post
  BY DEF NoPost, Post, PostSteps
<1>2. QED
  BY <1>1, BecomingPost, CardAssumption DEF Ends, NoPost, PostOK, Creating

\* No request of the key changes, and what it created is not touched.
LEMMA KeyAside ==
    ASSUME NEW k \in Keys, KeyOnce(k), k \in cached <=> k \in cached',
           payable' \cap created'[k] = payable \cap created[k],
           NEW r \in Posts, NEW y, Becoming(r, y), post[r].key # k, y.key # k
    PROVE  KeyOnce(k)'
<1>1. \A q \in Posts : /\ post'[q].key = k <=> post[q].key = k
                       /\ post[q].key = k => post'[q] = post[q]
  BY DEF Becoming
<1>2. QED
  BY <1>1 DEF KeyOnce

\* No request at the escrow changes, nor what is known of it.
LEMMA FollowsAside ==
    ASSUME NEW e \in CardEscrows, Follows(e),
           record'[e] = record[e], intent'[e] = intent[e], early \subseteq early',
           NEW r \in Posts, NEW y, Becoming(r, y), post[r].escrow # e, y.escrow # e
    PROVE  Follows(e)'
<1>1. \A q \in Posts : /\ post'[q].escrow = e <=> post[q].escrow = e
                       /\ post[q].escrow = e => post'[q] = post[q]
  BY DEF Becoming
<1>2. GivesBack(e) => GivesBack(e)'
  BY <1>1 DEF GivesBack
<1>3. Agrees(e) => Agrees(e)'
  BY DEF Agrees
<1>4. QED
  BY <1>1, <1>2, <1>3 DEF Follows

\* The only request at the escrow becomes y.
LEMMA FollowsStep ==
    ASSUME NEW e \in CardEscrows, NEW r \in Posts, NEW y, Becoming(r, y),
           \A q \in Posts \ {r} : post[q].escrow # e,
           Agrees(e)' \/ (y.escrow = e /\ y.at = "refund"),
           y.escrow = e /\ y.at = "intent" => intent'[e] = "none",
           y.escrow = e /\ y.at = "release" => intent'[e] = "succeeded",
           y.escrow = e /\ y.at = "refund" => intent'[e] # "succeeded"
    PROVE  Follows(e)'
<1>1. \A q \in Posts : post'[q].escrow = e => q = r /\ post'[q] = y
  BY DEF Becoming
<1>2. y.escrow = e /\ y.at = "refund" => GivesBack(e)'
  BY DEF GivesBack, Becoming
<1>3. QED
  BY <1>1, <1>2 DEF Follows

\* Requests stay where they are while Stripe or the webhook changes something.
LEMMA FollowsStill ==
    ASSUME NEW e \in CardEscrows, Follows(e), post' = post,
           Agrees(e) => Agrees(e)',
           intent[e] = "succeeded" <=> intent'[e] = "succeeded",
           intent[e] = "none" => intent'[e] = "none"
    PROVE  Follows(e)'
<1>1. GivesBack(e) => GivesBack(e)'
  BY DEF GivesBack
<1>2. QED
  BY <1>1 DEF Follows

LEMMA KeyStill ==
    ASSUME NEW k \in Keys, KeyOnce(k), post' = post, k \in cached <=> k \in cached',
           payable' = payable, created' = created
    PROVE  KeyOnce(k)'
BY DEF KeyOnce

\* Nobody becomes an owner, and nobody pays without the secret.
LEMMA OwnedStep ==
    ASSUME Owned, NEW r \in Posts, NEW y, Becoming(r, y),
           y.at \in Creating =>
               post[r].at \in Creating /\ y.escrow = post[r].escrow /\ y.key = post[r].key,
           created' = created, payable' = payable, Paid' \subseteq payable,
           CardTypeOK, \A e \in CardEscrows : record[e] # "absent" => record'[e] # "absent"
    PROVE  Owned'
<1>1. ASSUME NEW q \in Posts, post'[q].at \in Creating
      PROVE  post'[q].escrow \in created[post'[q].key]
  <2>1. CASE q = r
    BY <1>1, <2>1 DEF Becoming, Owned
  <2>2. CASE q # r
    BY <1>1, <2>2 DEF Becoming, Owned
  <2>3. QED
    BY <2>1, <2>2
<1>2. /\ \A k \in Keys : \A e \in created[k] : record'[e] # "absent"
      /\ \A e \in payable : record'[e] # "absent"
  BY DEF Owned, CardTypeOK
<1>3. /\ \A q \in Posts : (post[q].at \in Creating)' =>
             post'[q].escrow \in created'[post'[q].key]
      /\ \A j, k \in Keys : \A e \in created'[j] : e \in created'[k] => j = k
  BY <1>1 DEF Owned, Creating
<1>4. QED
  BY <1>2, <1>3 DEF Owned, Creating

LEMMA OwnedStill ==
    ASSUME Owned, post' = post, created' = created, payable' = payable,
           Paid' \subseteq payable, CardTypeOK,
           \A e \in CardEscrows : record[e] # "absent" => record'[e] # "absent"
    PROVE  Owned'
BY DEF Owned, CardTypeOK, Creating

\* The rows stay, except that a record may become present or attached.
LEMMA PlacedStep ==
    ASSUME Placed, NEW r \in Posts, NEW y, Becoming(r, y), PostOK(y),
           y.escrow \in CardEscrows => record'[y.escrow] # "absent",
           y.at \in AtIntent => y.escrow \in attached',
           attached \subseteq attached',
           y.at \in {"answer", "store"} => intent'[y.escrow] # "none",
           \A e \in CardEscrows : record[e] # "absent" => record'[e] # "absent",
           \A e \in CardEscrows : intent[e] # "none" => intent'[e] # "none",
           \A e \in CardEscrows :
               /\ record'[e] = "absent" => intent'[e] = "none"
               /\ e \in attached' => intent'[e] # "none"
               /\ e \notin attached' => intent'[e] \notin {"succeeded", "refunded"}
    PROVE  Placed'
<1>1. ASSUME NEW q \in Posts
      PROVE  /\ PostOK(post'[q])
             /\ post'[q].escrow \in CardEscrows => record'[post'[q].escrow] # "absent"
             /\ post'[q].at \in AtIntent => post'[q].escrow \in attached'
             /\ post'[q].at \in {"answer", "store"} => intent'[post'[q].escrow] # "none"
  <2>1. CASE q = r
    BY <2>1 DEF Becoming
  <2>2. CASE q # r
    <3>1. PostOK(post[q]) /\ (post[q].at \in {"answer", "store"} =>
                                  post[q].escrow \in CardEscrows)
      BY DEF Placed, PostOK
    <3>2. QED
      BY <2>2, <3>1 DEF Becoming, Placed
  <2>3. QED
    BY <2>1, <2>2
<1>2. QED
  BY <1>1 DEF Placed, PostOK, Creating

\* What is known of a request that runs.
LEMMA PostFacts ==
    ASSUME CardInv, NEW r \in Posts
    PROVE  /\ post[r] \in Post /\ PostOK(post[r])
           /\ post[r].at \in Creating \cup {"create"} => post[r].key \in Keys
           /\ post[r].at \notin Creating \cup {"create"} => post[r].key = "none"
           /\ post[r].at \notin {"idle", "create"} =>
                  post[r].escrow \in CardEscrows /\ record[post[r].escrow] # "absent"
           /\ post[r].at \in {"idle", "create"} => post[r].escrow = "none"
           /\ post[r].at \in AtIntent =>
                  post[r].escrow \in attached /\ intent[post[r].escrow] # "none"
           /\ post[r].at \in {"answer", "store"} => intent[post[r].escrow] # "none"
           /\ post[r].at \in Creating => post[r].escrow \in created[post[r].key]
<1>1. post[r].at \in AtIntent => post[r].escrow \in CardEscrows
  BY DEF CardInv, Placed, PostOK, AtIntent
<1>2. QED
  BY <1>1 DEF CardInv, CardTypeOK, Post, Placed, PostOK, Owned

LEMMA PostCreateStep ==
    ASSUME CardInv, NEW r \in Posts, NEW k \in Keys, PostCreate(r, k)
    PROVE  CardInv'
<1> DEFINE y == [NoPost EXCEPT !.at = "create", !.key = k]
<1>1. /\ post[r] = NoPost /\ k \notin cached /\ post' = [post EXCEPT ![r] = y]
      /\ clashed' = IF \E q \in Posts : post[q].key = k THEN clashed \cup {k} ELSE clashed
      /\ UNCHANGED <<record, attached, intent, emitted, cached, created, payable, strayed,
                     early, lost>>
  BY DEF PostCreate, NotCached
<1>2. y = [at |-> "create", key |-> k, escrow |-> "none"]
  <2> DEFINE t == [NoPost EXCEPT !.at = "create"]
  <2>1. t = [at |-> "create", key |-> "none", escrow |-> "none"]
    BY DEF NoPost
  <2>2. y = [t EXCEPT !.key = k]
    OBVIOUS
  <2> HIDE DEF t
  <2>3. QED
    BY <2>1, <2>2
<1>3. post[r].key = "none" /\ post[r].escrow = "none"
  BY <1>1 DEF NoPost
<1> HIDE DEF y
<1>4. y \in Post /\ PostOK(y) /\ y.key = k /\ y.at = "create" /\ y.escrow = "none"
  BY <1>2, CardAssumption DEF Post, PostSteps, PostOK, Creating
<1>5. CardTypeOK
  BY DEF CardInv
<1>6. Becoming(r, y)
  BY <1>1, <1>4, <1>5, BecomingPost
<1>7. CardTypeOK'
  BY <1>1, <1>5, <1>6 DEF CardTypeOK, Becoming, Post
<1>8. Placed'
  BY <1>1, <1>4, <1>6, PlacedStep, CardAssumption DEF CardInv, Placed, AtIntent
<1>9. ASSUME NEW j \in Keys \ clashed' PROVE KeyOnce(j)'
  <2>1. KeyOnce(j)
    BY <1>1 DEF CardInv
  <2>2. CASE j # k
    BY <1>1, <1>3, <1>4, <1>6, <2>1, <2>2, KeyAside, CardAssumption
  <2>3. CASE j = k
    <3>1. \A q \in Posts : post[q].key # k
      BY <1>1, <2>3
    <3>2. \A q \in Posts : post'[q].key = k => q = r
      BY <1>6, <3>1 DEF Becoming
    <3>3. QED
      BY <1>1, <2>1, <2>3, <3>2 DEF KeyOnce
  <2>4. QED
    BY <2>2, <2>3
<1>10. ASSUME NEW e \in CardEscrows \ strayed' PROVE Follows(e)'
  BY <1>1, <1>3, <1>4, <1>6, FollowsAside, CardAssumption DEF CardInv
<1>11. Owned'
  <2>1. Paid' \subseteq payable
    BY <1>1 DEF CardInv, Owned, Paid
  <2>2. QED
    BY <1>1, <1>4, <1>5, <1>6, <2>1, OwnedStep DEF CardInv, Creating
<1>12. QED
  BY <1>7, <1>8, <1>9, <1>10, <1>11 DEF CardInv

LEMMA CreateEscrowStep ==
    ASSUME CardInv, NEW r \in Posts, CreateEscrow(r)
    PROVE  CardInv'
<1>1. PICK n \in CardEscrows : n = NewId /\ record[n] = "absent"
  BY DEF CreateEscrow, NewId, FreeIds
<1>2. PICK k \in Keys : k = post[r].key
  BY PostFacts DEF CreateEscrow
<1> DEFINE t == [post[r] EXCEPT !.at = "intent"]
           y == [t EXCEPT !.escrow = n]
<1>3. /\ post[r].at = "create" /\ post' = [post EXCEPT ![r] = y]
      /\ record' = [record EXCEPT ![n] = "pending_funding"]
      /\ created' = [created EXCEPT ![k] = @ \cup {n}]
      /\ UNCHANGED <<attached, intent, emitted, cached, payable, clashed, strayed, early,
                     lost>>
  BY <1>1, <1>2 DEF CreateEscrow
<1>4. CardTypeOK /\ post[r] \in Post /\ PostOK(post[r]) /\ post[r].escrow = "none"
  BY <1>3, PostFacts DEF CardInv
<1>5. t \in Post /\ t.at = "intent" /\ t.key = k
  BY <1>2, <1>4 DEF Post, PostSteps
<1> HIDE DEF t
<1>6. y \in Post /\ y.at = "intent" /\ y.key = k /\ y.escrow = n
  BY <1>5 DEF Post
<1> HIDE DEF y
<1>7. PostOK(y)
  BY <1>6 DEF PostOK, Creating
<1>8. Becoming(r, y)
  BY <1>3, <1>4, <1>6, BecomingPost
<1>9. CardTypeOK'
  BY <1>3, <1>4, <1>8 DEF CardTypeOK, Becoming, Post, RecordStates
<1>10. \A e \in CardEscrows : record'[e] = IF e = n THEN "pending_funding" ELSE record[e]
  BY <1>3, <1>4 DEF CardTypeOK
<1>11. Placed'
  BY <1>1, <1>3, <1>6, <1>7, <1>8, <1>10, PlacedStep DEF CardInv, Placed, AtIntent
<1>12. /\ \A j \in Keys : created'[j] = IF j = k THEN created[k] \cup {n} ELSE created[j]
       /\ \A j \in Keys : n \notin created[j]
       /\ n \notin payable
  BY <1>1, <1>3, <1>4 DEF CardTypeOK, CardInv, Owned
<1>13. ASSUME NEW j \in Keys \ clashed' PROVE KeyOnce(j)'
  <2>1. KeyOnce(j)
    BY <1>3 DEF CardInv
  <2>2. payable' \cap created'[j] = payable \cap created[j]
    BY <1>3, <1>12
  <2>3. CASE j # k
    BY <1>2, <1>3, <1>6, <1>8, <2>1, <2>2, <2>3, KeyAside
  <2>4. CASE j = k
    <3>1. \A q \in Posts : post'[q].key = k <=> post[q].key = k
      BY <1>2, <1>6, <1>8 DEF Becoming
    <3>2. QED
      BY <1>3, <2>1, <2>2, <2>4, <3>1 DEF KeyOnce
  <2>5. QED
    BY <2>3, <2>4
<1>14. ASSUME NEW e \in CardEscrows \ strayed' PROVE Follows(e)'
  <2>1. CASE e # n
    <3>1. record'[e] = record[e] /\ intent'[e] = intent[e]
      BY <1>3, <1>10, <2>1
    <3>2. QED
      BY <1>3, <1>4, <1>6, <1>8, <2>1, <3>1, FollowsAside, CardAssumption DEF CardInv
  <2>2. CASE e = n
    <3>1. (\A q \in Posts : post[q].escrow # n) /\ intent'[n] = "none"
      BY <1>1, <1>3, <2>2 DEF CardInv, Placed
    <3>2. Agrees(e)'
      BY <1>10, <2>2 DEF Agrees
    <3>3. QED
      BY <1>6, <1>8, <2>2, <3>1, <3>2, FollowsStep
  <2>3. QED
    BY <2>1, <2>2
<1>15. Owned'
  <2>1. \A j \in Keys : \A e \in created'[j] : record'[e] # "absent"
    BY <1>4, <1>10, <1>12 DEF CardInv, Owned, CardTypeOK
  <2>2. \A i, j \in Keys : \A e \in created'[i] : e \in created'[j] => i = j
    BY <1>12 DEF CardInv, Owned
  <2>3. \A e \in payable : record'[e] # "absent"
    BY <1>4, <1>10 DEF CardInv, Owned, CardTypeOK
  <2>4. \A q \in Posts :
            post'[q].at \in Creating => post'[q].escrow \in created'[post'[q].key]
    <3>1. post'[r].escrow \in created'[post'[r].key]
      BY <1>6, <1>8, <1>12 DEF Becoming
    <3>2. ASSUME NEW q \in Posts \ {r}, post[q].at \in Creating
          PROVE  post[q].escrow \in created'[post[q].key]
      BY <1>12, <3>2, PostFacts
    <3>3. QED
      BY <1>8, <3>1, <3>2 DEF Becoming
  <2>5. Paid' \subseteq payable
    BY <1>3 DEF CardInv, Owned, Paid
  <2>6. payable' = payable
    BY <1>3
  <2>7. QED
    BY <2>1, <2>2, <2>3, <2>4, <2>5, <2>6 DEF Owned, Creating
<1>16. QED
  BY <1>9, <1>11, <1>13, <1>14, <1>15 DEF CardInv

\* Stripe creates an intent for a record that had none.
LEMMA CreateIntentStep ==
    ASSUME CardInv, NEW r \in Posts, CreateIntent(r)
    PROVE  CardInv'
<1>1. PICK n \in CardEscrows : n = post[r].escrow
  BY PostFacts DEF CreateIntent
<1>2. /\ post[r].at = "intent" /\ intent' = [intent EXCEPT ![n] = "unpaid"]
      /\ Goto(r, "answer") /\ "answer" \in PostSteps
      /\ UNCHANGED <<record, attached, emitted, cached, payable, created, clashed, strayed,
                     early, lost>>
  BY <1>1 DEF CreateIntent, keyVars, PostSteps
<1>3. CardTypeOK /\ PostOK(post[r]) /\ record[n] # "absent" /\ post[r].key \in Keys
  BY <1>1, <1>2, PostFacts DEF CardInv, Creating
<1> DEFINE y == [post[r] EXCEPT !.at = "answer"]
<1>4. Becoming(r, y) /\ y.at = "answer" /\ y.key = post[r].key /\ y.escrow = n
  BY <1>1, <1>2, <1>3, GotoPost
<1> HIDE DEF y
<1>5. PostOK(y)
  BY <1>3, <1>4 DEF PostOK, Creating
<1>6. \A e \in CardEscrows : intent'[e] = IF e = n THEN "unpaid" ELSE intent[e]
  BY <1>2, <1>3 DEF CardTypeOK
<1>7. CardTypeOK'
  BY <1>2, <1>3, <1>4 DEF CardTypeOK, Becoming, Post, IntentStates
<1>8. Placed'
  BY <1>2, <1>3, <1>4, <1>5, <1>6, PlacedStep DEF CardInv, Placed, AtIntent
<1>9. Owned'
  <2>1. Paid' \subseteq payable
    BY <1>2 DEF CardInv, Owned, Paid
  <2>2. post[r].at \in Creating /\ y.escrow = post[r].escrow
    BY <1>1, <1>2, <1>4 DEF Creating
  <2>3. QED
    BY <1>2, <1>3, <1>4, <2>1, <2>2, OwnedStep DEF CardInv
<1>10. ASSUME NEW k \in Keys \ clashed' PROVE KeyOnce(k)'
  <2>1. \A q \in Posts : post'[q].key = post[q].key
    BY <1>4 DEF Becoming
  <2>2. KeyOnce(k)
    BY <1>2 DEF CardInv
  <2>3. QED
    BY <1>2, <2>1, <2>2 DEF KeyOnce
<1>11. ASSUME NEW e \in CardEscrows \ strayed' PROVE Follows(e)'
  <2>1. Follows(e)
    BY <1>2 DEF CardInv
  <2>2. CASE e # n
    BY <1>1, <1>2, <1>4, <1>6, <2>1, <2>2, FollowsAside
  <2>3. CASE e = n
    <3>1. (\A q \in Posts \ {r} : post[q].escrow # e) /\ intent[e] = "none"
      BY <1>1, <1>2, <2>1, <2>3 DEF Follows
    <3>2. Agrees(e)
      BY <1>1, <1>2, <2>1, <2>3, <3>1 DEF Follows, GivesBack
    <3>3. Agrees(e)'
      BY <1>2, <3>1, <3>2 DEF Agrees
    <3>4. QED
      BY <1>4, <3>1, <3>3, FollowsStep
  <2>4. QED
    BY <2>2, <2>3
<1>12. QED
  BY <1>7, <1>8, <1>9, <1>10, <1>11 DEF CardInv

\* The request that creates fails, goes on, or ends: no row changes.
LEMMA CreationStep ==
    ASSUME CardInv, NEW r \in Posts, CreateFails(r) \/ AttachIntent(r) \/ StoreResponse(r)
    PROVE  CardInv'
<1>1. PICK k \in Keys, n \in CardEscrows : k = post[r].key /\ n = post[r].escrow
  BY PostFacts DEF CreateFails, AttachIntent, StoreResponse, Creating
<1>2. /\ post[r].at \in Creating
      /\ UNCHANGED <<record, intent, emitted, created, clashed, strayed, early>>
      /\ cached' = cached \/ cached' = cached \cup {k}
      /\ payable' = payable \/ (payable' = payable \cup {n} /\ cached' = cached \cup {k})
  BY <1>1 DEF CreateFails, AttachIntent, StoreResponse, keyVars, Creating
<1>3. /\ CardTypeOK /\ Placed /\ Owned /\ PostOK(post[r]) /\ post[r] \in Post
      /\ n \in created[k] /\ record[n] # "absent"
      /\ post[r].at \in {"answer", "store"} => intent[n] # "none"
  BY <1>1, <1>2, PostFacts DEF CardInv, Creating
<1>4. PICK y : /\ Becoming(r, y) /\ PostOK(y)
               /\ \/ y = NoPost
                  \/ /\ y.at = "store" /\ y.key = k /\ y.escrow = n /\ n \in attached'
                     /\ cached' = cached /\ payable' = payable
  <2>1. CASE CreateFails(r)
    BY <1>1, <1>3, <2>1, EndsPost DEF CreateFails
  <2>2. CASE StoreResponse(r)
    BY <1>1, <1>3, <2>2, EndsPost DEF StoreResponse
  <2>3. CASE AttachIntent(r)
    <3> DEFINE y == [post[r] EXCEPT !.at = "store"]
    <3>1. Becoming(r, y) /\ y.at = "store" /\ y.key = k /\ y.escrow = n
      BY <1>1, <1>3, <2>3, GotoPost DEF AttachIntent, PostSteps
    <3>2. n \in attached' /\ cached' = cached /\ payable' = payable
      BY <1>1, <2>3 DEF AttachIntent, keyVars
    <3> HIDE DEF y
    <3>3. QED
      BY <3>1, <3>2 DEF PostOK, Creating
  <2>4. QED
    BY <2>1, <2>2, <2>3
<1>5. NoPost.key = "none" /\ NoPost.escrow = "none" /\ NoPost.at = "idle"
  BY DEF NoPost
<1>6. /\ attached' = attached \/ attached' = attached \cup {n}
      /\ attached' # attached => post[r].at = "answer"
      /\ y.at = "store" => intent[n] # "none"
  <2>1. CASE CreateFails(r) \/ StoreResponse(r)
    <3>1. Ends(r) /\ attached' = attached
      BY <2>1 DEF CreateFails, StoreResponse
    <3>2. y.at = "idle"
      BY <1>3, <1>4, <1>5, <3>1, EndsPost DEF Becoming
    <3>3. QED
      BY <3>1, <3>2
  <2>2. CASE AttachIntent(r)
    BY <1>1, <1>3, <2>2 DEF AttachIntent
  <2>3. QED
    BY <2>1, <2>2
<1>7. CardTypeOK'
  <2>1. lost' \in 0 .. MaxLost
    BY <1>3, CardAssumption DEF CreateFails, AttachIntent, StoreResponse, CardTypeOK
  <2>2. /\ attached' \subseteq CardEscrows /\ payable' \subseteq CardEscrows
        /\ cached' \subseteq Keys
    BY <1>2, <1>3, <1>6 DEF CardTypeOK
  <2>3. QED
    BY <1>2, <1>3, <1>4, <2>1, <2>2 DEF CardTypeOK, Becoming, Post
<1>8. Placed'
  <2>1. \A e \in CardEscrows : e \in attached' => intent[e] # "none"
    BY <1>3, <1>6 DEF Placed
  <2>2. \A e \in CardEscrows : e \notin attached' => e \notin attached
    BY <1>6
  <2>3. /\ y.escrow \in CardEscrows => record[y.escrow] # "absent"
        /\ y.at \notin AtIntent
        /\ y.at \in {"answer", "store"} => intent[y.escrow] # "none"
    BY <1>3, <1>4, <1>5, <1>6, CardAssumption DEF AtIntent
  <2>4. attached \subseteq attached'
    BY <1>6
  <2>5. QED
    BY <1>2, <1>3, <1>4, <2>1, <2>2, <2>3, <2>4, PlacedStep DEF Placed
<1>9. Owned'
  <2>1. \A e \in payable' : record'[e] # "absent"
    BY <1>2, <1>3 DEF Owned
  <2>2. Paid' \subseteq payable'
    BY <1>2, <1>3 DEF Owned, Paid
  <2>3. ASSUME NEW q \in Posts, post'[q].at \in Creating
        PROVE  post'[q].escrow \in created[post'[q].key]
    <3>1. CASE q = r
      BY <1>3, <1>4, <1>5, <2>3, <3>1 DEF Becoming, Creating
    <3>2. CASE q # r
      BY <1>3, <1>4, <2>3, <3>2 DEF Becoming, Owned
    <3>3. QED
      BY <3>1, <3>2
  <2>4. QED
    BY <1>2, <1>3, <2>1, <2>2, <2>3 DEF Owned, Creating
<1>10. ASSUME NEW j \in Keys \ clashed' PROVE KeyOnce(j)'
  <2>1. KeyOnce(j)
    BY <1>2 DEF CardInv
  <2>2. CASE j # k
    <3>1. n \notin created[j]
      BY <1>3, <2>2 DEF Owned
    <3>2. /\ payable' \cap created'[j] = payable \cap created[j]
          /\ j \in cached <=> j \in cached'
      BY <1>2, <2>2, <3>1
    <3>3. post[r].key # j /\ y.key # j
      BY <1>1, <1>4, <1>5, <2>2, CardAssumption
    <3>4. QED
      BY <1>4, <2>1, <3>2, <3>3, KeyAside
  <2>3. CASE j = k
    <3>1. (\A q \in Posts : post[q].key = k => q = r) /\ k \notin cached
      BY <1>1, <2>1, <2>3 DEF KeyOnce
    <3>2. \A q \in Posts : post'[q].key = k => q = r
      BY <1>4, <3>1 DEF Becoming
    <3>3. post'[r] = y
      BY <1>4 DEF Becoming
    <3>4. payable \cap created[k] = {}
      BY <2>1, <2>3, <3>1 DEF KeyOnce
    <3>5. \A q \in Posts : post'[q].key = k => k \notin cached'
      BY <1>2, <1>4, <1>5, <3>1, <3>2, <3>3, CardAssumption
    <3>6. \A e \in payable' \cap created'[k] : e = n /\ k \in cached'
      BY <1>2, <3>4
    <3>7. QED
      BY <2>3, <3>2, <3>5, <3>6 DEF KeyOnce
  <2>4. QED
    BY <2>2, <2>3
<1>11. ASSUME NEW e \in CardEscrows \ strayed' PROVE Follows(e)'
  <2>1. Follows(e)
    BY <1>2 DEF CardInv
  <2>2. CASE e # n
    BY <1>1, <1>2, <1>4, <1>5, <2>1, <2>2, FollowsAside, CardAssumption
  <2>3. CASE e = n
    <3>1. \A q \in Posts \ {r} : post[q].escrow # e
      BY <1>1, <2>1, <2>3 DEF Follows
    <3>2. Agrees(e)
      BY <1>1, <1>2, <2>1, <2>3, <3>1 DEF Follows, GivesBack, Creating
    <3>3. Agrees(e)'
      BY <1>2, <3>2 DEF Agrees
    <3>4. QED
      BY <1>4, <1>5, <3>1, <3>3, FollowsStep
  <2>4. QED
    BY <2>2, <2>3
<1>12. QED
  BY <1>7, <1>8, <1>9, <1>10, <1>11 DEF CardInv

\* A day later the entry of a key is gone, and with it what was known of the key.
LEMMA EntryExpiresStep ==
    ASSUME CardInv, NEW k \in Keys, EntryExpires(k)
    PROVE  CardInv'
<1>1. /\ cached' = cached \ {k} /\ clashed' = clashed \cup {k}
      /\ UNCHANGED <<record, attached, intent, emitted, post, payable, created, strayed,
                     early, lost>>
  BY DEF EntryExpires
<1>2. CardTypeOK'
  BY <1>1 DEF CardInv, CardTypeOK
<1>3. Placed'
  BY <1>1 DEF CardInv, Placed
<1>4. Owned'
  BY <1>1, OwnedStill DEF CardInv, Owned, Paid
<1>5. ASSUME NEW j \in Keys \ clashed' PROVE KeyOnce(j)'
  BY <1>1, KeyStill DEF CardInv
<1>6. ASSUME NEW e \in CardEscrows \ strayed' PROVE Follows(e)'
  BY <1>1, FollowsStill DEF CardInv, Agrees
<1>7. QED
  BY <1>2, <1>3, <1>4, <1>5, <1>6 DEF CardInv

\* A step of a request without a key, at e before or after it.
LEMMA SettlingStep ==
    ASSUME CardInv, NEW r \in Posts, NEW y, Becoming(r, y), PostOK(y),
           post[r].key = "none", y.key = "none", NEW e \in CardEscrows,
           post[r].escrow \in {e, "none"}, y.escrow \in {e, "none"},
           y.escrow = e => record[e] # "absent", y.at \in AtIntent => e \in attached,
           UNCHANGED <<attached, cached, payable, created, clashed>>, Paid' \subseteq Paid,
           record' \in [CardEscrows -> RecordStates],
           intent' \in [CardEscrows -> IntentStates],
           emitted' \in [CardEscrows -> SUBSET Events],
           strayed \subseteq strayed', strayed' \subseteq CardEscrows,
           early \subseteq early', early' \subseteq CardEscrows,
           lost' \in 0 .. MaxLost,
           \A f \in CardEscrows \ {e} : record'[f] = record[f] /\ intent'[f] = intent[f],
           record[e] # "absent" => record'[e] # "absent",
           intent[e] # "none" => intent'[e] # "none",
           record'[e] = "absent" => intent'[e] = "none",
           e \notin attached => intent'[e] \notin {"succeeded", "refunded"},
           e \notin strayed' => Follows(e)'
    PROVE  CardInv'
<1>1. CardTypeOK'
  BY DEF CardInv, CardTypeOK, Becoming, Post
<1>2. Placed'
  <2>1. y.escrow \in CardEscrows => y.escrow = e
    BY CardAssumption
  <2>2. y.at \in AtIntent => y.escrow = e
    BY <2>1 DEF PostOK, AtIntent
  <2>3. \A f \in CardEscrows :
            /\ record'[f] = "absent" => intent'[f] = "none"
            /\ intent[f] # "none" => intent'[f] # "none"
            /\ f \in attached' => intent'[f] # "none"
            /\ f \notin attached' => intent'[f] \notin {"succeeded", "refunded"}
            /\ record[f] # "absent" => record'[f] # "absent"
    BY DEF CardInv, Placed
  <2>4. y.at \notin Creating
    BY CardAssumption DEF PostOK
  <2>5. QED
    BY <2>1, <2>2, <2>3, <2>4, PlacedStep DEF CardInv, Creating
<1>3. \A k \in Keys \ clashed' : KeyOnce(k)'
  BY KeyAside, CardAssumption DEF CardInv
<1>4. ASSUME NEW f \in CardEscrows \ strayed' PROVE Follows(f)'
  <2>1. CASE f = e
    BY <2>1
  <2>2. CASE f # e
    <3>1. post[r].escrow # f /\ y.escrow # f /\ Follows(f)
      BY <2>2, CardAssumption DEF CardInv
    <3>2. QED
      BY <2>2, <3>1, FollowsAside
  <2>3. QED
    BY <2>1, <2>2
<1>5. Owned'
  <2>1. y.at \notin Creating
    BY CardAssumption DEF PostOK
  <2>2. Paid' \subseteq payable /\ \A f \in CardEscrows : record[f] # "absent" =>
                                                         record'[f] # "absent"
    BY DEF CardInv, Owned
  <2>3. QED
    BY <2>1, <2>2, OwnedStep DEF CardInv
<1>6. QED
  BY <1>1, <1>2, <1>3, <1>4, <1>5 DEF CardInv

\* A release or a refund is asked for.
LEMMA SettleStarts ==
    ASSUME CardInv, NEW r \in Posts, NEW e \in CardEscrows,
           PostRelease(r, e) \/ PostRefund(r, e)
    PROVE  CardInv'
<1>1. /\ post[r] = NoPost /\ record[e] # "absent" /\ strayed' = Crossing(e)
      /\ UNCHANGED <<record, attached, intent, emitted, cached, payable, created, clashed,
                     early, lost>>
  BY DEF PostRelease, PostRefund, keyVars
<1>2. PICK s \in {"capture", "retrieve", "refund"} :
         /\ post' = [post EXCEPT ![r] = [NoPost EXCEPT !.at = s, !.escrow = e]]
         /\ s # "refund" <=> e \in attached
  BY DEF PostRelease, PostRefund
<1> DEFINE y == [at |-> s, key |-> "none", escrow |-> e]
<1>3. [NoPost EXCEPT !.at = s, !.escrow = e] = y
  <2> DEFINE t == [NoPost EXCEPT !.at = s]
  <2>1. t = [at |-> s, key |-> "none", escrow |-> "none"]
    BY DEF NoPost
  <2>2. [NoPost EXCEPT !.at = s, !.escrow = e] = [t EXCEPT !.escrow = e]
    OBVIOUS
  <2> HIDE DEF t
  <2>3. QED
    BY <2>1, <2>2
<1>4. post' = [post EXCEPT ![r] = y]
  BY <1>2, <1>3, Zenon
<1>5. y \in Post /\ y.at = s /\ y.key = "none" /\ y.escrow = e
  BY DEF Post, PostSteps
<1> HIDE DEF y
<1>6. PostOK(y)
  BY <1>5, CardAssumption DEF PostOK, Creating
<1>7. Becoming(r, y)
  BY <1>4, <1>5, BecomingPost DEF CardInv
<1>8. post[r].key = "none" /\ post[r].escrow = "none"
  BY <1>1 DEF NoPost
<1>9. strayed \subseteq strayed' /\ strayed' \subseteq CardEscrows
  BY <1>1 DEF Crossing, CardInv, CardTypeOK
<1>10. /\ record[e] = "absent" => intent[e] = "none"
       /\ e \notin attached => intent[e] \notin {"succeeded", "refunded"}
  BY DEF CardInv, Placed
<1>11. ASSUME e \notin strayed' PROVE Follows(e)'
  <2>1. \A q \in Posts : post[q].escrow # e
    BY <1>1, <1>11 DEF Crossing, Busy
  <2>2. Follows(e)
    BY <1>9, <1>11 DEF CardInv
  <2>3. Agrees(e)
    BY <2>1, <2>2 DEF Follows, GivesBack
  <2>4. Agrees(e)'
    BY <1>1, <2>3 DEF Agrees
  <2>5. s = "refund" => intent'[e] # "succeeded"
    BY <1>1, <1>2, <1>10
  <2>6. QED
    BY <1>5, <1>7, <2>1, <2>4, <2>5, FollowsStep
<1>12. QED
  BY <1>1, <1>2, <1>5, <1>6, <1>7, <1>8, <1>9, <1>10, <1>11, SettlingStep
     DEF CardInv, CardTypeOK, AtIntent, Paid

\* The request at an escrow that did not stray is alone, and has not changed anything yet.
LEMMA Alone ==
    ASSUME CardInv, NEW r \in Posts, NEW e \in CardEscrows \ strayed, post[r].escrow = e
    PROVE  /\ \A q \in Posts \ {r} : post[q].escrow # e
           /\ post[r].at # "refund" => Agrees(e)
           /\ post[r].at = "release" => intent[e] = "succeeded"
           /\ post[r].at = "refund" => intent[e] # "succeeded"
BY DEF CardInv, Follows, GivesBack

\* A request to Stripe: what it changes, and what the caller hears of it.
LEMMA StripeStep ==
    ASSUME CardInv, NEW r \in Posts, NEW answered \in BOOLEAN,
           post[r].at \in {"capture", "cancel", "giveBack"}, NEW e, e = post[r].escrow,
           NEW before, NEW after \in {"succeeded", "canceled", "refunded"},
           NEW event \in SUBSET (Events \ {"amount_capturable_updated"}),
           NEW step \in {"release", "refund"},
           Stripe(r, before, after, event, step, answered),
           before \in {"requires_capture", "succeeded"},
           step = "release" <=> after = "succeeded",
           strayed \subseteq strayed', strayed' \subseteq CardEscrows,
           e \notin strayed' /\ intent[e] = before /\ Agrees(e) /\ intent'[e] = after =>
               Agrees(e)' \/ (answered /\ step = "refund")
    PROVE  CardInv'
<1>1. /\ e \in CardEscrows /\ record[e] # "absent" /\ e \in attached /\ intent[e] # "none"
      /\ post[r] \in Post /\ PostOK(post[r]) /\ post[r].key = "none"
  BY PostFacts DEF AtIntent, Creating
<1>2. /\ ~answered => lost < MaxLost /\ intent[e] = before
      /\ lost' = IF answered THEN lost ELSE lost + 1
      /\ intent' = IF intent[e] = before THEN [intent EXCEPT ![e] = after] ELSE intent
      /\ emitted' = IF intent[e] = before THEN [emitted EXCEPT ![e] = @ \cup event]
                    ELSE emitted
      /\ IF intent[e] = before /\ answered THEN Goto(r, step) ELSE Ends(r)
      /\ UNCHANGED <<record, attached, cached, payable, created, clashed, early>>
  BY DEF Stripe, keyVars
<1>3. /\ intent \in [CardEscrows -> IntentStates]
      /\ emitted \in [CardEscrows -> SUBSET Events]
      /\ lost \in 0 .. MaxLost /\ record \in [CardEscrows -> RecordStates] /\ CardTypeOK
  BY DEF CardInv, CardTypeOK
<1>4. /\ intent' \in [CardEscrows -> IntentStates]
      /\ emitted' \in [CardEscrows -> SUBSET Events]
      /\ lost' \in 0 .. MaxLost
      /\ \A f \in CardEscrows \ {e} : intent'[f] = intent[f]
      /\ intent'[e] = IF intent[e] = before THEN after ELSE intent[e]
      /\ intent[e] # "none" /\ intent'[e] # "none" /\ Paid' \subseteq Paid
  <2>1. lost' \in 0 .. MaxLost
    BY <1>2, <1>3, CardAssumption
  <2>2. CASE intent[e] = before
    <3>1. emitted' = [emitted EXCEPT ![e] = @ \cup event]
      BY <1>2, <2>2
    <3>2. emitted' \in [CardEscrows -> SUBSET Events] /\ Paid' \subseteq Paid
      BY <1>1, <1>3, <3>1 DEF Paid
    <3>3. QED
      BY <1>1, <1>2, <1>3, <2>1, <2>2, <3>2 DEF IntentStates
  <2>3. CASE intent[e] # before
    <3>1. intent' = intent /\ emitted' = emitted
      BY <1>2, <2>3
    <3>2. QED
      BY <1>1, <1>3, <2>1, <2>3, <3>1 DEF Paid
  <2>4. QED
    BY <2>2, <2>3
<1>5. PICK y : /\ Becoming(r, y) /\ PostOK(y) /\ y.key = "none"
               /\ \/ y.escrow = "none" /\ y.at = "idle" /\ ~(intent[e] = before /\ answered)
                  \/ /\ y.escrow = e /\ y.at = step
                     /\ intent[e] = before /\ answered
  <2>1. CASE intent[e] = before /\ answered
    <3> DEFINE y == [post[r] EXCEPT !.at = step]
    <3>a. Goto(r, step) /\ step \in PostSteps
      BY <1>2, <2>1 DEF PostSteps
    <3>b. Becoming(r, y) /\ y.at = step /\ y.key = post[r].key /\ y.escrow = post[r].escrow
      BY <1>3, <3>a, GotoPost
    <3>1. Becoming(r, y) /\ y.at = step /\ y.key = "none" /\ y.escrow = e
      BY <1>1, <3>b
    <3> HIDE DEF y
    <3>2. PostOK(y)
      BY <1>1, <3>1, CardAssumption DEF PostOK, Creating
    <3>3. QED
      BY <2>1, <3>1, <3>2
  <2>2. CASE ~(intent[e] = before /\ answered)
    BY <1>2, <1>3, <2>2, EndsPost
  <2>3. QED
    BY <2>1, <2>2
<1>6. ASSUME e \notin strayed' PROVE Follows(e)'
  <2>1. (\A q \in Posts \ {r} : post[q].escrow # e) /\ Agrees(e)
    BY <1>1, <1>6, Alone
  <2>2. CASE intent[e] = before
    <3>1. Agrees(e)' \/ (answered /\ step = "refund")
      BY <1>4, <1>6, <2>1, <2>2
    <3>2. QED
      BY <1>1, <1>4, <1>5, <2>1, <2>2, <3>1, FollowsStep
  <2>3. CASE intent[e] # before
    <3>1. Agrees(e)'
      BY <1>2, <2>1, <2>3 DEF Agrees
    <3>2. QED
      BY <1>1, <1>5, <2>1, <2>3, <3>1, FollowsStep, CardAssumption
  <2>4. QED
    BY <2>2, <2>3
<1>7. early' \subseteq CardEscrows /\ record' \in [CardEscrows -> RecordStates]
  BY <1>2 DEF CardInv, CardTypeOK
<1>8. UNCHANGED <<attached, cached, payable, created, clashed>>
  BY <1>2
<1>9. y.escrow \in {e, "none"} /\ post[r].escrow \in {e, "none"}
      /\ record' = record /\ early' = early
  BY <1>2, <1>5
<1>10. QED
  BY <1>1, <1>4, <1>5, <1>6, <1>7, <1>8, <1>9, SettlingStep DEF AtIntent

LEMMA CaptureStep ==
    ASSUME CardInv, NEW r \in Posts, NEW answered \in BOOLEAN,
           Capture(r, answered) \/ Cancel(r, answered) \/ GiveBack(r, answered)
    PROVE  CardInv'
<1>1. PICK e \in CardEscrows : e = post[r].escrow
  BY PostFacts DEF Capture, Cancel, GiveBack
<1>2. CASE Capture(r, answered)
  <2>1. /\ post[r].at = "capture" /\ strayed' = strayed /\ strayed \subseteq CardEscrows
        /\ Stripe(r, "requires_capture", "succeeded", {"succeeded"}, "release", answered)
    BY <1>2 DEF Capture, CardInv, CardTypeOK
  <2>2. /\ record' = record /\ early' = early
        /\ {"succeeded"} \in SUBSET (Events \ {"amount_capturable_updated"})
    BY <2>1 DEF Stripe, Events
  <2>3. intent[e] = "requires_capture" /\ Agrees(e) /\ intent'[e] = "succeeded" => Agrees(e)'
    BY <2>2 DEF Agrees
  <2>4. QED
    BY <1>1, <2>1, <2>2, <2>3, StripeStep
<1>3. CASE Cancel(r, answered)
  <2>1. /\ post[r].at = "cancel" /\ strayed' = strayed /\ strayed \subseteq CardEscrows
        /\ Stripe(r, "requires_capture", "canceled", {"canceled"}, "refund", answered)
    BY <1>3 DEF Cancel, CardInv, CardTypeOK
  <2>2. /\ record' = record /\ early' = early
        /\ {"canceled"} \in SUBSET (Events \ {"amount_capturable_updated"})
    BY <2>1 DEF Stripe, Events
  <2>3. intent[e] = "requires_capture" /\ Agrees(e) /\ intent'[e] = "canceled" => Agrees(e)'
    BY <2>2 DEF Agrees
  <2>4. QED
    BY <1>1, <2>1, <2>2, <2>3, StripeStep
<1>4. CASE GiveBack(r, answered)
  <2>1. /\ post[r].at = "giveBack"
        /\ strayed' = IF ~answered /\ record[e] = "released" THEN strayed \cup {e} ELSE strayed
        /\ Stripe(r, "succeeded", "refunded", {}, "refund", answered)
    BY <1>1, <1>4 DEF GiveBack
  <2>2. /\ record' = record /\ early' = early
        /\ {} \in SUBSET (Events \ {"amount_capturable_updated"})
    BY <2>1 DEF Stripe
  <2>3. e \notin strayed' /\ Agrees(e) /\ intent'[e] = "refunded" => Agrees(e)' \/ answered
    BY <2>1, <2>2 DEF Agrees
  <2>4. strayed \subseteq strayed' /\ strayed' \subseteq CardEscrows
    BY <1>1, <2>1 DEF CardInv, CardTypeOK
  <2>5. QED
    BY <1>1, <2>1, <2>2, <2>3, <2>4, StripeStep
<1>5. QED
  BY <1>2, <1>3, <1>4

LEMMA RetrieveStep == ASSUME CardInv, NEW r \in Posts, Retrieve(r) PROVE CardInv'
<1>1. PICK e \in CardEscrows : e = post[r].escrow
  BY PostFacts DEF Retrieve
<1>2. /\ post[r] \in Post /\ PostOK(post[r]) /\ post[r].key = "none"
      /\ post[r].at = "retrieve" /\ e \in attached /\ record[e] # "absent"
  BY <1>1, PostFacts DEF Retrieve, AtIntent, Creating
<1>3. PICK s \in {"cancel", "giveBack", "refund"} :
          /\ Goto(r, s) /\ s \in PostSteps
          /\ s = "refund" => intent[e] # "succeeded"
  BY <1>1 DEF Retrieve, AfterRetrieve, PostSteps
<1>4. UNCHANGED <<record, attached, intent, emitted, cached, payable, created, clashed,
                  strayed, early, lost>>
  BY DEF Retrieve, keyVars
<1> DEFINE y == [post[r] EXCEPT !.at = s]
<1>5. Becoming(r, y) /\ y.at = s /\ y.key = "none" /\ y.escrow = e
  BY <1>1, <1>2, <1>3, GotoPost DEF CardInv
<1> HIDE DEF y
<1>6. PostOK(y)
  BY <1>2, <1>5, CardAssumption DEF PostOK, Creating
<1>7. ASSUME e \notin strayed' PROVE Follows(e)'
  <2>1. (\A q \in Posts \ {r} : post[q].escrow # e) /\ Agrees(e)
    BY <1>1, <1>2, <1>4, <1>7, Alone
  <2>2. Agrees(e)'
    BY <1>4, <2>1 DEF Agrees
  <2>3. QED
    BY <1>3, <1>4, <1>5, <2>1, <2>2, FollowsStep
<1>8. /\ record[e] = "absent" => intent[e] = "none"
      /\ Paid' \subseteq Paid
  BY <1>4 DEF CardInv, Placed, Paid
<1>9. QED
  BY <1>1, <1>2, <1>4, <1>5, <1>6, <1>7, <1>8, SettlingStep DEF CardInv, CardTypeOK

\* The mark makes the record say what Stripe did, or what was not paid yet.
LEMMA MarkStep == ASSUME CardInv, NEW r \in Posts, Mark(r) PROVE CardInv'
<1>1. PICK e \in CardEscrows : e = post[r].escrow
  BY PostFacts DEF Mark
<1>2. /\ post[r].key = "none" /\ record[e] # "absent" /\ post[r].at \in {"release", "refund"}
  BY <1>1, PostFacts DEF Mark, Creating
<1>3. /\ record' = [record EXCEPT ![e] = IF post[r].at = "release" THEN "released"
                                         ELSE "refunded"]
      /\ early' = IF /\ post[r].at = "refund"
                     /\ intent[e] \in {"none", "unpaid", "requires_capture"}
                  THEN early \cup {e} ELSE early
      /\ Ends(r)
      /\ UNCHANGED <<attached, intent, emitted, cached, payable, created, clashed, strayed,
                     lost>>
  BY <1>1 DEF Mark, keyVars
<1>4. /\ Becoming(r, NoPost) /\ PostOK(NoPost)
      /\ NoPost.at = "idle" /\ NoPost.key = "none" /\ NoPost.escrow = "none"
  BY <1>3, EndsPost DEF CardInv
<1>5. /\ record' \in [CardEscrows -> RecordStates]
      /\ \A f \in CardEscrows \ {e} : record'[f] = record[f]
      /\ record'[e] = IF post[r].at = "release" THEN "released" ELSE "refunded"
      /\ early \subseteq early' /\ early' \subseteq CardEscrows
      /\ intent[e] \in IntentStates
      /\ e \notin attached => intent[e] \notin {"succeeded", "refunded"}
  BY <1>2, <1>3 DEF CardInv, CardTypeOK, RecordStates, Placed
<1>6. ASSUME e \notin strayed' PROVE Follows(e)'
  <2>1. /\ \A q \in Posts \ {r} : post[q].escrow # e
        /\ post[r].at = "release" => intent[e] = "succeeded"
        /\ post[r].at = "refund" => intent[e] # "succeeded"
    BY <1>1, <1>3, <1>6, Alone
  <2>2. Agrees(e)'
    BY <1>2, <1>3, <1>5, <2>1 DEF Agrees, IntentStates
  <2>3. QED
    BY <1>4, <2>1, <2>2, FollowsStep, CardAssumption
<1>7. record'[e] # "absent" /\ Paid' \subseteq Paid
  BY <1>3, <1>5 DEF Paid
<1>8. QED
  BY <1>1, <1>2, <1>3, <1>4, <1>5, <1>6, <1>7, SettlingStep DEF CardInv, CardTypeOK, AtIntent

\* The customer moves the intent: never to or from where it was captured.
LEMMA CustomerStep ==
    ASSUME CardInv, NEW e \in CardEscrows, NEW before \in {"unpaid", "requires_capture"},
           NEW after \in {"unpaid", "requires_capture", "canceled"}, NEW event \in Events,
           event = "amount_capturable_updated" => e \in payable,
           Customer(e, before, after, event)
    PROVE  CardInv'
<1>1. /\ intent[e] = before /\ intent' = [intent EXCEPT ![e] = after]
      /\ emitted' = [emitted EXCEPT ![e] = @ \cup {event}]
      /\ UNCHANGED <<record, attached, post, cached, payable, created, clashed, strayed,
                     early, lost>>
  BY DEF Customer, keyVars
<1>2. CardTypeOK'
  BY <1>1 DEF CardInv, CardTypeOK, IntentStates
<1>3. \A f \in CardEscrows : intent'[f] = IF f = e THEN after ELSE intent[f]
  BY <1>1 DEF CardInv, CardTypeOK
<1>4. Placed'
  BY <1>1, <1>3 DEF CardInv, Placed
<1>5. \A k \in Keys \ clashed' : KeyOnce(k)'
  BY <1>1, KeyStill DEF CardInv
<1>6. ASSUME NEW f \in CardEscrows \ strayed' PROVE Follows(f)'
  <2>1. Follows(f)
    BY <1>1 DEF CardInv
  <2>2. Agrees(f) => Agrees(f)'
    BY <1>1, <1>3 DEF Agrees
  <2>3. intent[f] = "succeeded" <=> intent'[f] = "succeeded"
    BY <1>1, <1>3
  <2>4. intent[f] = "none" => intent'[f] = "none"
    BY <1>1, <1>3
  <2>5. QED
    BY <1>1, <2>1, <2>2, <2>3, <2>4, FollowsStill
<1>7. Owned'
  <2>1. Paid' \subseteq payable
    BY <1>1 DEF CardInv, CardTypeOK, Owned, Paid
  <2>2. QED
    BY <1>1, <2>1, OwnedStill DEF CardInv
<1>8. QED
  BY <1>2, <1>4, <1>5, <1>6, <1>7 DEF CardInv

\* An event that is not outdated marks the record as what Stripe did.
LEMMA DeliverStep ==
    ASSUME CardInv, NEW e \in CardEscrows, NEW event \in Events, Deliver(e, event)
    PROVE  CardInv'
<1>1. /\ record[e] # "absent" /\ record' = [record EXCEPT ![e] = MarkedBy[event]]
      /\ strayed' = IF intent[e] # SentWhen[event] THEN strayed \cup {e} ELSE strayed
      /\ UNCHANGED <<attached, intent, emitted, post, cached, payable, created, clashed,
                     early, lost>>
  BY DEF Deliver, keyVars
<1>2. /\ MarkedBy[event] \in RecordStates \ {"absent"}
      /\ MarkedBy[event] = "released" => SentWhen[event] = "succeeded"
      /\ MarkedBy[event] = "refunded" => SentWhen[event] = "canceled"
  BY DEF MarkedBy, SentWhen, Events, RecordStates
<1>3. CardTypeOK'
  BY <1>1, <1>2 DEF CardInv, CardTypeOK
<1>4. \A f \in CardEscrows : record'[f] = IF f = e THEN MarkedBy[event] ELSE record[f]
  BY <1>1 DEF CardInv, CardTypeOK
<1>5. Placed'
  BY <1>1, <1>2, <1>4 DEF CardInv, Placed
<1>6. \A k \in Keys \ clashed' : KeyOnce(k)'
  BY <1>1, KeyStill DEF CardInv
<1>7. ASSUME NEW f \in CardEscrows \ strayed' PROVE Follows(f)'
  <2>1. Follows(f)
    BY <1>1 DEF CardInv
  <2>2. Agrees(f) => Agrees(f)'
    BY <1>1, <1>2, <1>4 DEF Agrees
  <2>3. QED
    BY <1>1, <2>1, <2>2, FollowsStill
<1>8. Owned'
  <2>1. \A f \in CardEscrows : record[f] # "absent" => record'[f] # "absent"
    BY <1>2, <1>4
  <2>2. Paid' \subseteq payable
    BY <1>1 DEF CardInv, Owned, Paid
  <2>3. QED
    BY <1>1, <2>1, <2>2, OwnedStill DEF CardInv
<1>9. QED
  BY <1>3, <1>5, <1>6, <1>7, <1>8 DEF CardInv

LEMMA CardNextInv == CardInv /\ [CardNext]_cardVars => CardInv'
<1> SUFFICES ASSUME CardInv, [CardNext]_cardVars PROVE CardInv'
  OBVIOUS
<1>1. ASSUME NEW r \in Posts, NEW k \in Keys, PostCreate(r, k) PROVE CardInv'
  BY <1>1, PostCreateStep
<1>2. ASSUME NEW r \in Posts, NEW e \in CardEscrows, PostRelease(r, e) \/ PostRefund(r, e)
      PROVE  CardInv'
  BY <1>2, SettleStarts
<1>3. ASSUME NEW r \in Posts,
             \/ CreateEscrow(r) \/ CreateIntent(r) \/ CreateFails(r)
             \/ AttachIntent(r) \/ StoreResponse(r) \/ Retrieve(r) \/ Mark(r)
      PROVE  CardInv'
  BY <1>3, CreateEscrowStep, CreateIntentStep, CreationStep, RetrieveStep, MarkStep
<1>4. ASSUME NEW r \in Posts, NEW answered \in BOOLEAN,
             Capture(r, answered) \/ Cancel(r, answered) \/ GiveBack(r, answered)
      PROVE  CardInv'
  BY <1>4, CaptureStep
<1>5. ASSUME NEW e \in CardEscrows, Authorise(e) \/ PaymentFails(e) \/ Expire(e)
      PROVE  CardInv'
  BY <1>5, CustomerStep DEF Authorise, PaymentFails, Expire, Events
<1>6. ASSUME NEW e \in CardEscrows, NEW event \in Events, Deliver(e, event) PROVE CardInv'
  BY <1>6, DeliverStep
<1>7. CASE UNCHANGED cardVars
  <2>1. UNCHANGED <<record, attached, intent, emitted, post, cached, payable, created,
                    clashed, strayed, early, lost>>
    BY <1>7 DEF cardVars, keyVars
  <2>2. CardTypeOK'
    BY <2>1 DEF CardInv, CardTypeOK
  <2>3. Placed'
    BY <2>1 DEF CardInv, Placed
  <2>4. \A k \in Keys \ clashed' : KeyOnce(k)'
    BY <2>1, KeyStill DEF CardInv
  <2>5. \A e \in CardEscrows \ strayed' : Follows(e)'
    BY <2>1, FollowsStill DEF CardInv, Agrees
  <2>6. Owned'
    BY <2>1, OwnedStill DEF CardInv, Owned, Paid
  <2>7. QED
    BY <2>2, <2>3, <2>4, <2>5, <2>6 DEF CardInv
<1>8. ASSUME NEW k \in Keys, EntryExpires(k) PROVE CardInv'
  BY <1>8, EntryExpiresStep
<1>9. QED
  BY <1>1, <1>2, <1>3, <1>4, <1>5, <1>6, <1>7, <1>8 DEF CardNext

\* A record no request is at says where the money is, for any number of requests,
\* lost answers and events, outside the four crossings the property names.
THEOREM RecordsCorrect == CardSpec => []RecordAgreesWithStripe
<1>1. CardInv => RecordAgreesWithStripe
  BY DEF CardInv, Follows, Agrees, GivesBack, Busy, RecordAgreesWithStripe
<1>2. QED
  BY CardInitInv, CardNextInv, <1>1, PTL DEF CardSpec

\* The customer pays once for one Idempotency-Key, for any number of requests, refusals
\* and lost answers, if the requests of the key do not overlap and its entry is there.
THEOREM OnePaymentCorrect == CardSpec => []OnePaymentPerKey
<1>1. CardInv => OnePaymentPerKey
  <2> SUFFICES ASSUME CardInv, NEW k \in Keys \ clashed
               PROVE  Cardinality(created[k] \cap Paid) <= 1
    BY DEF OnePaymentPerKey
  <2> DEFINE S == created[k] \cap Paid
  <2>1. \A e, f \in S : e = f
    BY DEF CardInv, Owned, KeyOnce
  <2> HIDE DEF S
  <2>2. CASE S = {}
    BY <2>2, FS_EmptySet DEF S
  <2>3. ASSUME NEW e, e \in S PROVE Cardinality(S) <= 1
    <3>1. S = {e}
      BY <2>1, <2>3
    <3>2. Cardinality({e}) = 1
      BY FS_Singleton
    <3>3. QED
      BY <3>1, <3>2
  <2>4. QED
    BY <2>2, <2>3 DEF S
<1>2. QED
  BY CardInitInv, CardNextInv, <1>1, PTL DEF CardSpec

\* Every reachable state of the records is well typed.
THEOREM CardTypeCorrect == CardSpec => []CardTypeOK
<1>1. CardInv => CardTypeOK
  BY DEF CardInv
<1>2. QED
  BY CardInitInv, CardNextInv, <1>1, PTL DEF CardSpec

-----------------------------------------------------------------------------
(* SIGNALING: the views of the members agree with the room, and the heartbeat   *)
(* collects sockets whose other end is gone.                                   *)

SignalingSpec == SignalingInit /\ [][SignalingNext]_signalingVars

\* A socket that was opened belongs to a peer.
ClientEnds ==
    /\ owner \in [Links -> Peers \cup {"none"}]
    /\ near \in [Links -> {"unused", "connecting", "open", "aborted", "closed"}]
    /\ upward \in [Links -> Seq({"join", "leave"})]
    /\ current \in [Peers -> Links \cup {0}]
    /\ tries \in [Peers -> 0 .. MaxAttempts] /\ pending \in [Peers -> Nat]
    /\ \A c \in Links : near[c] # "unused" => owner[c] \in Peers
Flags ==
    /\ retried \in [Links -> BOOLEAN] /\ cut \in [Links -> BOOLEAN]
    /\ awaiting \in [Links -> BOOLEAN]
    /\ polling \in [Peers -> BOOLEAN] /\ disposed \in [Peers -> BOOLEAN]
Members ==
    /\ far \in [Links -> {"none", "known", "gone"}]
    /\ room \subseteq Links /\ Cardinality(room) <= RoomSize /\ retold \subseteq room
    /\ told \in [Links -> Int]
    /\ breakdowns \in 0 .. MaxBreakdowns
    /\ ViewsAgree

\* A socket that missed a ping is dead, and the server waits for its answer.
Silent ==
    /\ missed \in [Links -> 0 .. 1]
    /\ \A c \in Links : missed[c] = 1 => Dead(c) /\ awaiting[c] /\ far[c] = "known"

SignalingInv == ClientEnds /\ Flags /\ Members /\ Silent

LEMMA SignalingInitInv == SignalingInit => SignalingInv
<1> SUFFICES ASSUME SignalingInit PROVE SignalingInv
  OBVIOUS
<1>1. ClientEnds
  BY SignalingAssumption DEF SignalingInit, ClientEnds
<1>2. Flags
  BY Zenon DEF SignalingInit, Flags
<1>3. Cardinality({}) = 0
  BY FS_EmptySet
<1>4. Members
  BY <1>3, SignalingAssumption DEF SignalingInit, Members, ViewsAgree
<1>5. Silent
  BY DEF SignalingInit, Silent
<1>6. QED
  BY <1>1, <1>2, <1>4, <1>5 DEF SignalingInv

-----------------------------------------------------------------------------
(* The ends of the sockets at the clients *)

\* The least of a set of numbers is one of them.
LEMMA LeastIs ==
    ASSUME NEW S \in SUBSET Nat, S # {}
    PROVE  Min(S) \in S /\ \A y \in S : Min(S) <= y
<1>1. IsWellFoundedOn(OpToRel(<, Nat), Nat)
  BY NatLessThanWellFounded
<1>2. PICK x \in S : \A y \in S : ~(<<y, x>> \in OpToRel(<, Nat))
  BY <1>1, WFMin
<1>3. \A y \in Nat : <<y, x>> \in OpToRel(<, Nat) <=> y < x
  BY DEF OpToRel
<1>4. \A y \in S : ~(y < x)
  BY <1>2, <1>3, Zenon
<1>5. \A y \in S : x <= y
  BY <1>4
<1>6. QED
  BY <1>5 DEF Min

LEMMA LessOf == \A a, b \in Int : Min({a, b}) = IF a <= b THEN a ELSE b
<1> SUFFICES ASSUME NEW a \in Int, NEW b \in Int
             PROVE  Min({a, b}) = IF a <= b THEN a ELSE b
  OBVIOUS
<1> DEFINE m == IF a <= b THEN a ELSE b
<1>1. m \in {a, b} /\ \A y \in {a, b} : m <= y
  OBVIOUS
<1>2. \A x \in {a, b} : (\A y \in {a, b} : x <= y) => x = m
  OBVIOUS
<1> HIDE DEF m
<1>3. Min({a, b}) = m
  BY <1>1, <1>2 DEF Min
<1>4. QED
  BY <1>3 DEF m

LEMMA MoreOf == \A a \in Int : Max({0, a}) \in Nat
<1> SUFFICES ASSUME NEW a \in Int PROVE Max({0, a}) \in Nat
  OBVIOUS
<1> DEFINE m == IF a <= 0 THEN 0 ELSE a
<1>1. m \in {0, a} /\ (\A y \in {0, a} : m >= y) /\ m \in Nat
  OBVIOUS
<1>2. \A x \in {0, a} : (\A y \in {0, a} : x >= y) => x = m
  OBVIOUS
<1> HIDE DEF m
<1>3. Max({0, a}) = m
  BY <1>1, <1>2 DEF Max
<1>4. QED
  BY <1>1, <1>3

\* scheduleReconnect never counts beyond maxReconnectAttempts.
LEMMA ScheduledTypes ==
    ASSUME ClientEnds, NEW p \in Peers, NEW n \in Nat, Scheduled(p, n)
    PROVE  tries' \in [Peers -> 0 .. MaxAttempts] /\ pending' \in [Peers -> Nat]
<1> DEFINE more == Min({n, MaxAttempts - tries[p]})
<1>1. MaxAttempts \in Nat /\ tries[p] \in 0 .. MaxAttempts /\ pending[p] \in Nat
  BY SignalingAssumption DEF ClientEnds
<1>2. MaxAttempts - tries[p] \in Nat
  BY <1>1
<1>3. more \in Nat /\ more <= MaxAttempts - tries[p]
  <2>1. more = IF n <= MaxAttempts - tries[p] THEN n ELSE MaxAttempts - tries[p]
    BY <1>2, LessOf
  <2>2. QED
    BY <1>2, <2>1
<1>4. /\ tries' = [tries EXCEPT ![p] = @ + more] /\ pending' = [pending EXCEPT ![p] = @ + more]
  BY DEF Scheduled
<1> HIDE DEF more
<1>5. tries[p] + more \in 0 .. MaxAttempts /\ pending[p] + more \in Nat
  BY <1>1, <1>3
<1>6. QED
  BY <1>4, <1>5 DEF ClientEnds

LEMMA DialEnds ==
    ASSUME ClientEnds, NEW p \in Peers, NEW byTimer \in BOOLEAN, Dial(p, byTimer),
           tries' = tries, pending' \in [Peers -> Nat]
    PROVE  ClientEnds'
<1>1. Unused \in SUBSET Nat /\ Unused # {} /\ Unused \subseteq Links
  BY SignalingAssumption DEF Dial, Unused, Links
<1>2. PICK c \in Links : c = Min(Unused)
  BY <1>1, LeastIs
<1>3. /\ owner' = [owner EXCEPT ![c] = p] /\ near' = [near EXCEPT ![c] = "connecting"]
      /\ current' = [current EXCEPT ![p] = c] /\ upward' = upward
  BY <1>2 DEF Dial
<1>4. QED
  BY <1>3 DEF ClientEnds

LEMMA StartsEnds ==
    ASSUME ClientEnds, Flags, NEW p \in Peers,
           StartsOrReconnects(p) \/ TimerFires(p)
    PROVE  ClientEnds'
<1>1. CASE StartsOrReconnects(p)
  <2>1. /\ Dial(p, FALSE) /\ tries' = tries /\ pending' = pending
    BY <1>1 DEF StartsOrReconnects
  <2>2. QED
    BY <2>1, DialEnds DEF ClientEnds
<1>2. CASE TimerFires(p)
  <2>1. /\ pending[p] \in Nat /\ pending[p] > 0
        /\ pending' = [pending EXCEPT ![p] = @ - 1] /\ tries' = tries
    BY <1>2 DEF TimerFires, ClientEnds
  <2>2. pending' \in [Peers -> Nat]
    BY <2>1 DEF ClientEnds
  <2>3. CASE disposed[p]
    BY <1>2, <2>1, <2>2, <2>3 DEF TimerFires, ClientEnds, linkVars
  <2>4. CASE ~disposed[p]
    BY <1>2, <2>1, <2>2, <2>4, DialEnds DEF TimerFires
  <2>5. QED
    BY <2>3, <2>4
<1>3. QED
  BY <1>1, <1>2

\* Appending a message, or taking one, leaves a sequence of messages.
LEMMA Mailed ==
    ASSUME ClientEnds, NEW c \in Links, NEW m \in {"join", "leave"}
    PROVE  [upward EXCEPT ![c] = Append(@, m)] \in [Links -> Seq({"join", "leave"})]
BY DEF ClientEnds

LEMMA SocketEnds ==
    ASSUME ClientEnds, Flags, NEW c \in Links, Opened(c) \/ Failed(c) \/ Dropped(c)
    PROVE  ClientEnds'
<1>1. near[c] # "unused" /\ owner[c] \in Peers
  BY DEF ClientEnds, Opened, Failed, Dropped
<1>2. CASE Opened(c)
  <2> DEFINE ws == current[owner[c]]
  <2>1. ws \in Links \cup {0}
    BY <1>1 DEF ClientEnds
  <2>2. ws # 0 => ws \in Links
    BY <2>1
  <2>3. upward' \in [Links -> Seq({"join", "leave"})]
    <3>1. upward' = upward \/ (ws # 0 /\ upward' = [upward EXCEPT ![ws] = Append(@, "join")])
      BY <1>2 DEF Opened
    <3>2. QED
      BY <3>1, <2>2, Mailed DEF ClientEnds
  <2>4. /\ near' = [near EXCEPT ![c] = "open"] /\ tries' = [tries EXCEPT ![owner[c]] = 0]
        /\ UNCHANGED <<owner, current, pending>>
    BY <1>2 DEF Opened
  <2>5. tries' \in [Peers -> 0 .. MaxAttempts]
    BY <1>1, <2>4, SignalingAssumption DEF ClientEnds
  <2>6. QED
    BY <1>1, <2>3, <2>4, <2>5 DEF ClientEnds
<1>3. CASE Failed(c)
  <2>1. PICK n \in Nat : Scheduled(owner[c], n)
    BY <1>3 DEF Failed
  <2>2. tries' \in [Peers -> 0 .. MaxAttempts] /\ pending' \in [Peers -> Nat]
    BY <1>1, <2>1, ScheduledTypes
  <2>3. near' = [near EXCEPT ![c] = "closed"] /\ UNCHANGED <<owner, upward, current>>
    BY <1>3 DEF Failed
  <2>4. QED
    BY <1>1, <2>2, <2>3 DEF ClientEnds
<1>4. CASE Dropped(c)
  <2>1. PICK n \in Nat : Scheduled(owner[c], n)
    BY <1>4 DEF Dropped
  <2>2. tries' \in [Peers -> 0 .. MaxAttempts] /\ pending' \in [Peers -> Nat]
    BY <1>1, <2>1, ScheduledTypes
  <2>3. /\ near' = [near EXCEPT ![c] = "closed"] /\ UNCHANGED <<owner, current>>
        /\ upward' = [upward EXCEPT ![c] = <<>>]
    BY <1>4 DEF Dropped
  <2>4. QED
    BY <1>1, <2>2, <2>3 DEF ClientEnds
<1>5. QED
  BY <1>2, <1>3, <1>4

LEMMA DisconnectEnds ==
    ASSUME ClientEnds, NEW p \in Peers, DisconnectClient(p)
    PROVE  ClientEnds'
<1> DEFINE ws == current[p]
           left == CASE near[ws] = "open" -> "closed"
                     [] near[ws] = "connecting" -> "aborted"
                     [] OTHER -> near[ws]
<1>1. ws \in Links
  BY DEF DisconnectClient, ClientEnds
<1>2. near' = [near EXCEPT ![ws] = left]
  BY DEF DisconnectClient
<1>3. /\ left \in {"unused", "connecting", "open", "aborted", "closed"}
      /\ left # "unused" => near[ws] # "unused"
  BY <1>1 DEF ClientEnds
<1>4. upward' \in [Links -> Seq({"join", "leave"})]
  <2>1. upward' = upward \/ upward' = [upward EXCEPT ![ws] = Append(@, "leave")]
    BY DEF DisconnectClient
  <2>2. QED
    BY <1>1, <2>1, Mailed DEF ClientEnds
<1>5. pending' \in [Peers -> Nat]
  <2>1. pending[p] - 1 \in Int /\ pending' = [pending EXCEPT ![p] = Max({0, pending[p] - 1})]
    BY DEF ClientEnds, DisconnectClient
  <2>2. Max({0, pending[p] - 1}) \in Nat
    BY <2>1, MoreOf
  <2>3. QED
    BY <2>1, <2>2 DEF ClientEnds
<1>6. /\ current' = [current EXCEPT ![p] = 0] /\ tries' = tries /\ owner' = owner
  BY DEF DisconnectClient
<1> HIDE DEF left
<1>7. QED
  BY <1>1, <1>2, <1>3, <1>4, <1>5, <1>6 DEF ClientEnds

\* Of the steps of the server only the receipt of a message changes that end.
LEMMA ServerEnds ==
    ASSUME ClientEnds,
           \/ \E c \in Links : \/ Receives(c) \/ Accepts(c) \/ SeesClose(c) \/ Pong(c)
                               \/ PongDeadline(c) \/ Cut(c)
           \/ HeartbeatLoop \/ Restart \/ UNCHANGED signalingVars
    PROVE  ClientEnds'
<1>1. ASSUME NEW c \in Links, Receives(c) PROVE ClientEnds'
  <2>1. /\ upward[c] # <<>> /\ upward' = [upward EXCEPT ![c] = Tail(@)]
        /\ UNCHANGED <<owner, near, current, tries, pending>>
    BY <1>1 DEF Receives, clientVars
  <2>2. Tail(upward[c]) \in Seq({"join", "leave"})
    BY <2>1 DEF ClientEnds
  <2>3. QED
    BY <2>1, <2>2 DEF ClientEnds
<1>2. CASE UNCHANGED <<owner, near, upward, current, tries, pending>>
  BY <1>2 DEF ClientEnds
<1>3. QED
  BY <1>1, <1>2 DEF Accepts, SeesClose, Pong, PongDeadline, Cut, HeartbeatLoop, Restart,
     signalingVars, linkVars, clientVars

LEMMA ClientEndsNext ==
    ASSUME ClientEnds, Flags, [SignalingNext]_signalingVars
    PROVE  ClientEnds'
BY StartsEnds, DisconnectEnds, SocketEnds, ServerEnds DEF SignalingNext

\* Every flag stays one of the two truth values.
LEMMA FlagsNext ==
    ASSUME Flags, [SignalingNext]_signalingVars
    PROVE  Flags'
<1>1. ASSUME NEW p \in Peers, NEW byTimer \in BOOLEAN, Dial(p, byTimer),
             UNCHANGED <<polling, disposed>>
      PROVE  Flags'
  BY <1>1, Zenon DEF Dial, Flags, serverVars
<1>2. ASSUME NEW p \in Peers, StartsOrReconnects(p) \/ TimerFires(p)
      PROVE  Flags'
  <2>1. CASE StartsOrReconnects(p)
    BY <1>1, <2>1, Zenon DEF StartsOrReconnects
  <2>2. CASE TimerFires(p) /\ ~disposed[p]
    BY <1>1, <2>2, Zenon DEF TimerFires
  <2>3. CASE TimerFires(p) /\ disposed[p]
    BY <2>3, Zenon DEF TimerFires, Flags, linkVars, serverVars
  <2>4. QED
    BY <1>2, <2>1, <2>2, <2>3
<1>3. ASSUME NEW p \in Peers, DisconnectClient(p) PROVE Flags'
  BY <1>3, Zenon DEF DisconnectClient, Flags, serverVars
<1>4. ASSUME NEW c \in Links, Opened(c) PROVE Flags'
  BY <1>4, Zenon DEF Opened, Flags, serverVars
<1>5. ASSUME NEW p, NEW n, Scheduled(p, n), UNCHANGED <<retried, cut, serverVars, disposed>>
      PROVE  Flags'
  BY <1>5, Zenon DEF Scheduled, Flags, serverVars
<1>6. ASSUME NEW c \in Links, Failed(c) \/ Dropped(c) PROVE Flags'
  BY <1>5, <1>6, Zenon DEF Failed, Dropped
<1>7. ASSUME NEW c \in Links, Terminated(c), UNCHANGED <<retried, cut, polling, disposed>>
      PROVE  Flags'
  BY <1>7, Zenon DEF Terminated, Flags
<1>8. ASSUME NEW c \in Links, Receives(c) PROVE Flags'
  <2>1. UNCHANGED <<retried, cut, polling, disposed>>
    BY <1>8, Zenon DEF Receives, clientVars
  <2>2. Terminated(c) \/ awaiting' = awaiting
    BY <1>8, Zenon DEF Receives, HandleJoin, serverVars
  <2>3. QED
    BY <1>7, <2>1, <2>2, Zenon DEF Flags
<1>9. ASSUME NEW c \in Links, SeesClose(c) \/ PongDeadline(c) PROVE Flags'
  BY <1>7, <1>9, Zenon DEF SeesClose, PongDeadline, linkVars, clientVars
<1>10. ASSUME NEW c \in Links, Accepts(c) \/ Pong(c) \/ Cut(c) PROVE Flags'
  BY <1>10, Zenon DEF Accepts, Pong, Cut, Flags, linkVars, clientVars
<1>11. CASE HeartbeatLoop
  <2> DEFINE pinged == Known \ Zombies
  <2>1. awaiting' = [c \in Links |-> c \in pinged]
    BY <1>11, Zenon DEF HeartbeatLoop
  <2>2. UNCHANGED <<retried, cut, polling, disposed>>
    BY <1>11, Zenon DEF HeartbeatLoop, linkVars, clientVars
  <2> HIDE DEF pinged
  <2>3. \A c \in Links : (c \in pinged) \in BOOLEAN
    OBVIOUS
  <2>4. awaiting' \in [Links -> BOOLEAN]
    BY <2>1, <2>3, Zenon
  <2>5. QED
    BY <2>2, <2>4, Zenon DEF Flags
<1>12. CASE Restart
  BY <1>12, Zenon DEF Restart, Flags, linkVars, clientVars
<1>13. CASE UNCHANGED signalingVars
  BY <1>13, Zenon DEF signalingVars, linkVars, serverVars, clientVars, Flags
<1>14. QED
  BY <1>2, <1>3, <1>4, <1>6, <1>8, <1>9, <1>10, <1>11, <1>12, <1>13 DEF SignalingNext

-----------------------------------------------------------------------------
(* The room and the views of its members *)

LEMMA RoomFinite == ASSUME Members PROVE IsFiniteSet(room) /\ Cardinality(room) \in Nat
<1>1. IsFiniteSet(Links)
  BY FS_Interval, SignalingAssumption DEF Links
<1>2. QED
  BY <1>1, FS_Subset, FS_CardinalityType DEF Members

\* Whoever stays is told of each that leaves.
LEMMA LeaveStep ==
    ASSUME Members, NEW S \in SUBSET Links,
           far' \in [Links -> {"none", "known", "gone"}],
           \A c \in Links \ S : far'[c] = far[c],
           room' = room \ S, told' = Parted(S), retold' = retold \ S,
           breakdowns' = breakdowns
    PROVE  Members'
<1>1. IsFiniteSet(room) /\ Cardinality(room) \in Nat
  BY RoomFinite
<1>2. IsFiniteSet(room \ S) /\ Cardinality(room \ S) <= Cardinality(room)
  BY <1>1, FS_Subset
<1>3. IsFiniteSet(room \cap S) /\ Cardinality(room \cap S) \in Nat
  BY <1>1, FS_Subset, FS_CardinalityType
<1>4. Cardinality(room') <= RoomSize
  BY <1>1, <1>2, FS_CardinalityType, SignalingAssumption DEF Members
<1>5. told' \in [Links -> Int]
  BY <1>3 DEF Members, Parted
<1>6. ASSUME NEW c \in room' \ retold' PROVE told'[c] = Cardinality(room' \ {c})
  <2>1. c \in room \ retold /\ c \notin S /\ c \in Links
    BY <1>6 DEF Members
  <2>2. told'[c] = Cardinality(room \ {c}) - Cardinality(room \cap S)
    BY <2>1 DEF Parted, Members, ViewsAgree
  <2>3. IsFiniteSet(room \ {c})
    BY <1>1, FS_RemoveElement
  <2>4. Cardinality((room \ {c}) \ S) = Cardinality(room \ {c}) - Cardinality((room \ {c}) \cap S)
    BY <2>3, FS_Difference
  <2>5. (room \ {c}) \ S = room' \ {c} /\ (room \ {c}) \cap S = room \cap S
    BY <2>1
  <2>6. QED
    BY <2>2, <2>4, <2>5
<1>7. ViewsAgree'
  BY <1>6 DEF Members, ViewsAgree
<1>8. QED
  BY <1>4, <1>5, <1>7 DEF Members

LEMMA TerminatedMembers ==
    ASSUME Members, NEW c \in Links, Terminated(c), breakdowns' = breakdowns
    PROVE  Members'
<1>1. /\ far' \in [Links -> {"none", "known", "gone"}]
      /\ \A d \in Links \ {c} : far'[d] = far[d]
  BY DEF Terminated, Members
<1>2. room' = room \ {c} /\ told' = Parted({c}) /\ retold' = retold \ {c}
  BY DEF Terminated
<1>3. QED
  BY <1>1, <1>2, LeaveStep

\* An arrival is told how many are there, and the others are told of one more.
LEMMA JoinMembers ==
    ASSUME Members, NEW c \in Links, far[c] = "known", HandleJoin(c)
    PROVE  Members'
<1>1. IsFiniteSet(room) /\ Cardinality(room) \in Nat
  BY RoomFinite
<1>2. CASE Full
  BY <1>2 DEF HandleJoin, serverVars, Members, ViewsAgree
<1>3. CASE ~Full
  <2>1. /\ room' = room \cup {c}
        /\ told' = [d \in Links |-> IF d = c THEN Cardinality(room \ {c})
                                    ELSE IF d \in room THEN told[d] + 1 ELSE told[d]]
        /\ retold' = (IF c \in room THEN retold \cup room ELSE retold) \ {c}
        /\ UNCHANGED <<far, awaiting, missed, breakdowns>>
    BY <1>3 DEF HandleJoin
  <2>2. Cardinality(room) + 1 <= RoomSize /\ RoomSize \in Nat
    BY <1>1, <1>3, SignalingAssumption DEF Full
  <2>3. Cardinality(room') <= RoomSize
    <3>1. \/ Cardinality(room \cup {c}) = Cardinality(room)
          \/ Cardinality(room \cup {c}) = Cardinality(room) + 1
      BY <1>1, FS_AddElement
    <3>2. QED
      BY <1>1, <2>1, <2>2, <3>1
  <2>4. Cardinality(room \ {c}) \in Nat
    BY <1>1, FS_RemoveElement, FS_CardinalityType
  <2>5. told' \in [Links -> Int]
    BY <2>1, <2>4 DEF Members
  <2>6. ASSUME NEW d \in room' \ retold' PROVE told'[d] = Cardinality(room' \ {d})
    <3>1. CASE d = c
      <4>1. room' \ {c} = room \ {c}
        BY <2>1
      <4>2. QED
        BY <2>1, <3>1, <4>1
    <3>2. CASE d # c
      <4>1. d \in room \ retold /\ c \notin room /\ d \in Links
        BY <2>1, <2>6, <3>2 DEF Members
      <4>2. told'[d] = Cardinality(room \ {d}) + 1
        BY <2>1, <3>2, <4>1 DEF Members, ViewsAgree
      <4>3. room' \ {d} = (room \ {d}) \cup {c} /\ c \notin room \ {d}
        BY <2>1, <3>2, <4>1
      <4>4. IsFiniteSet(room \ {d})
        BY <1>1, FS_RemoveElement
      <4>5. Cardinality((room \ {d}) \cup {c}) = Cardinality(room \ {d}) + 1
        BY <4>3, <4>4, FS_AddElement
      <4>6. QED
        BY <4>2, <4>3, <4>5
    <3>3. QED
      BY <3>1, <3>2
  <2>7. ASSUME RoomSize <= 2 PROVE retold' = {}
    <3>1. retold = {}
      BY <2>7 DEF Members, ViewsAgree
    <3>2. CASE c \notin room
      BY <2>1, <3>1, <3>2
    <3>3. CASE c \in room
      <4>1. {c} \in SUBSET room /\ Cardinality({c}) = 1
        BY <3>3, FS_Singleton
      <4>2. 1 <= Cardinality(room) /\ Cardinality(room) <= 1
        BY <1>1, <2>2, <2>7, <4>1, FS_Subset
      <4>3. room = {c}
        BY <1>1, <4>1, <4>2, FS_Subset
      <4>4. QED
        BY <2>1, <3>1, <4>3
    <3>4. QED
      BY <3>2, <3>3
  <2>8. ViewsAgree'
    BY <2>1, <2>6, <2>7 DEF ViewsAgree, Members
  <2>9. QED
    BY <2>1, <2>3, <2>5, <2>8 DEF Members
<1>4. QED
  BY <1>2, <1>3

LEMMA MembersNext ==
    ASSUME Members, [SignalingNext]_signalingVars
    PROVE  Members'
<1>1. ASSUME UNCHANGED <<far, room, told, retold, breakdowns>> PROVE Members'
  BY <1>1 DEF Members, ViewsAgree
<1>2. ASSUME NEW c \in Links, Receives(c) PROVE Members'
  <2>1. far[c] = "known" /\ (HandleJoin(c) \/ (Terminated(c) /\ breakdowns' = breakdowns))
    BY <1>2 DEF Receives
  <2>2. QED
    BY <2>1, JoinMembers, TerminatedMembers
<1>3. ASSUME NEW c \in Links, SeesClose(c) \/ PongDeadline(c) PROVE Members'
  BY <1>3, TerminatedMembers DEF SeesClose, PongDeadline
<1>4. ASSUME NEW c \in Links, Accepts(c) PROVE Members'
  <2>1. /\ far[c] = "none" /\ far' = [far EXCEPT ![c] = "known"]
        /\ UNCHANGED <<room, told, retold, breakdowns>>
    BY <1>4 DEF Accepts
  <2>2. QED
    BY <2>1 DEF Members, ViewsAgree
<1>5. ASSUME NEW c \in Links, Cut(c) PROVE Members'
  BY <1>5, SignalingAssumption DEF Cut, Members, ViewsAgree
<1>6. CASE HeartbeatLoop
  <2> DEFINE S == Zombies
  <2>1. S \in SUBSET Links
    BY DEF Zombies, Known
  <2>2. /\ far' = [c \in Links |-> IF c \in S THEN "gone" ELSE far[c]]
        /\ room' = room \ S /\ told' = Parted(S) /\ retold' = retold \ S
        /\ breakdowns' = breakdowns
    BY <1>6 DEF HeartbeatLoop
  <2> HIDE DEF S
  <2>3. /\ far' \in [Links -> {"none", "known", "gone"}]
        /\ \A c \in Links \ S : far'[c] = far[c]
    BY <2>2 DEF Members
  <2>4. QED
    BY <2>1, <2>2, <2>3, LeaveStep
<1>7. CASE Restart
  <2>1. Cardinality({}) = 0
    BY FS_EmptySet
  <2>2. QED
    BY <1>7, <2>1, SignalingAssumption DEF Restart, Members, ViewsAgree
<1>8. CASE UNCHANGED signalingVars
  BY <1>1, <1>8 DEF signalingVars, serverVars
<1>9. ASSUME NEW p \in Peers, StartsOrReconnects(p) \/ TimerFires(p) \/ DisconnectClient(p)
      PROVE  Members'
  BY <1>1, <1>9 DEF StartsOrReconnects, TimerFires, DisconnectClient, Dial, serverVars
<1>10. ASSUME NEW c \in Links, Opened(c) \/ Failed(c) \/ Dropped(c) \/ Pong(c)
       PROVE  Members'
  BY <1>1, <1>10 DEF Opened, Failed, Dropped, Pong, serverVars
<1>11. QED
  BY <1>2, <1>3, <1>4, <1>5, <1>6, <1>7, <1>8, <1>9, <1>10 DEF SignalingNext

-----------------------------------------------------------------------------
(* The sockets whose other end is gone *)

\* What is dead stays dead.
LEMMA DeadStays ==
    ASSUME ClientEnds, Flags, [SignalingNext]_signalingVars, NEW d \in Links, Dead(d)
    PROVE  Dead(d)'
<1>1. CASE cut[d]
  <2>1. cut' = cut \/ \E c \in Links : cut' = [cut EXCEPT ![c] = TRUE]
    BY DEF SignalingNext, StartsOrReconnects, TimerFires, Dial, DisconnectClient, Opened, Failed,
       Dropped, Accepts, Receives, SeesClose, Pong, PongDeadline, Cut, HeartbeatLoop, Restart,
       signalingVars, linkVars
  <2>2. cut'[d]
    BY <1>1, <2>1, Zenon DEF Flags
  <2>3. QED
    BY <2>2 DEF Dead
<1>2. CASE near[d] \in {"aborted", "closed"} /\ ~cut[d]
  <2>1. ASSUME near' = near PROVE Dead(d)'
    BY <1>2, <2>1 DEF Dead
  <2>2. ASSUME NEW p \in Peers, NEW byTimer, Dial(p, byTimer) PROVE Dead(d)'
    <3>1. PICK c \in Unused : near' = [near EXCEPT ![c] = "connecting"]
      <4>1. Unused \in SUBSET Nat /\ Unused # {}
        BY <2>2, SignalingAssumption DEF Dial, Unused, Links
      <4>2. Min(Unused) \in Unused
        BY <4>1, LeastIs
      <4>3. QED
        BY <2>2, <4>2 DEF Dial
    <3>2. QED
      BY <1>2, <3>1 DEF Dead, Unused, ClientEnds
  <2>3. ASSUME NEW p \in Peers, DisconnectClient(p) PROVE Dead(d)'
    <3>1. near'[d] = near[d]
      BY <1>2, <2>3 DEF DisconnectClient, ClientEnds
    <3>2. QED
      BY <1>2, <3>1 DEF Dead
  <2>4. ASSUME NEW c \in Links, Opened(c) \/ Failed(c) \/ Dropped(c) PROVE Dead(d)'
    BY <1>2, <2>4 DEF Opened, Failed, Dropped, Dead, ClientEnds
  <2>5. QED
    BY <2>1, <2>2, <2>3, <2>4 DEF SignalingNext, StartsOrReconnects, TimerFires,
       Accepts, Receives, SeesClose, Pong, PongDeadline, Cut, HeartbeatLoop, Restart,
       signalingVars, linkVars
<1>3. QED
  BY <1>1, <1>2 DEF Dead

LEMMA SilentNext ==
    ASSUME ClientEnds, Flags, Members, Silent, [SignalingNext]_signalingVars
    PROVE  Silent'
<1>1. \A d \in Links : Dead(d) => Dead(d)'
  BY DeadStays
<1>2. ASSUME UNCHANGED <<far, awaiting, missed>> PROVE Silent'
  BY <1>1, <1>2 DEF Silent
<1>3. ASSUME NEW c \in Links, Terminated(c) PROVE Silent'
  <2>1. \A d \in Links : missed'[d] = IF d = c THEN 0 ELSE missed[d]
    BY <1>3 DEF Terminated, Silent
  <2>2. \A d \in Links : d # c => far'[d] = far[d] /\ awaiting'[d] = awaiting[d]
    BY <1>3 DEF Terminated, Members, Flags
  <2>3. missed' \in [Links -> 0 .. 1]
    BY <1>3 DEF Terminated, Silent
  <2>4. QED
    BY <1>1, <2>1, <2>2, <2>3 DEF Silent
<1>4. ASSUME NEW c \in Links, Receives(c) \/ SeesClose(c) \/ PongDeadline(c) PROVE Silent'
  BY <1>2, <1>3, <1>4 DEF Receives, HandleJoin, SeesClose, PongDeadline, serverVars
<1>5. ASSUME NEW c \in Links, Accepts(c) PROVE Silent'
  <2>1. far[c] = "none" /\ far' = [far EXCEPT ![c] = "known"] /\ UNCHANGED <<awaiting, missed>>
    BY <1>5 DEF Accepts
  <2>2. QED
    BY <1>1, <2>1 DEF Silent, Members
\* A socket that is dead does not answer.
<1>6. ASSUME NEW c \in Links, Pong(c) PROVE Silent'
  <2>1. ~Dead(c) /\ awaiting' = [awaiting EXCEPT ![c] = FALSE] /\ UNCHANGED <<far, missed>>
    BY <1>6 DEF Pong, Dead
  <2>2. \A d \in Links : missed[d] = 1 => d # c /\ awaiting'[d]
    BY <2>1, Zenon DEF Silent, Flags
  <2>3. QED
    BY <1>1, <2>1, <2>2 DEF Silent
<1>7. CASE HeartbeatLoop
  <2>1. /\ far' = [c \in Links |-> IF c \in Zombies THEN "gone" ELSE far[c]]
        /\ awaiting' = [c \in Links |-> c \in Known \ Zombies]
        /\ missed' = [c \in Links |->
               IF c \in Known \ Zombies /\ Dead(c) THEN missed[c] + 1 ELSE 0]
    BY <1>7 DEF HeartbeatLoop
  <2>2. ASSUME NEW c \in Known \ Zombies PROVE missed[c] = 0 /\ far[c] = "known" /\ c \in Links
    BY <2>2 DEF Known, Zombies, Silent
  <2>3. missed' \in [Links -> 0 .. 1]
    BY <2>1, <2>2
  <2>4. ASSUME NEW c \in Links, missed'[c] = 1 PROVE Dead(c) /\ c \in Known \ Zombies
    BY <2>1, <2>4
  <2>5. ASSUME NEW c \in Links, missed'[c] = 1
        PROVE  Dead(c)' /\ awaiting'[c] /\ far'[c] = "known"
    <3>1. awaiting'[c]
      BY <2>1, <2>4, <2>5, Zenon
    <3>2. QED
      BY <1>1, <2>1, <2>2, <2>4, <2>5, <3>1
  <2>6. QED
    BY <2>3, <2>5 DEF Silent
<1>8. CASE Restart
  BY <1>8 DEF Restart, Silent
<1>9. ASSUME NEW p \in Peers, StartsOrReconnects(p) \/ TimerFires(p) \/ DisconnectClient(p)
      PROVE  Silent'
  BY <1>2, <1>9 DEF StartsOrReconnects, TimerFires, DisconnectClient, Dial, serverVars
<1>10. ASSUME NEW c \in Links, Opened(c) \/ Failed(c) \/ Dropped(c) \/ Cut(c)
       PROVE  Silent'
  BY <1>2, <1>10 DEF Opened, Failed, Dropped, Cut, serverVars
<1>11. CASE UNCHANGED signalingVars
  BY <1>2, <1>11 DEF signalingVars, serverVars
<1>12. QED
  BY <1>4, <1>5, <1>6, <1>7, <1>8, <1>9, <1>10, <1>11 DEF SignalingNext

LEMMA SignalingNextInv == SignalingInv /\ [SignalingNext]_signalingVars => SignalingInv'
BY ClientEndsNext, FlagsNext, MembersNext, SilentNext DEF SignalingInv

\* What a member was told of the others agrees with the room, for any number of
\* peers, sockets, restarts and cuts and whatever place the room has.
THEOREM ViewsCorrect == SignalingSpec => []ViewsAgree
<1>1. SignalingInv => ViewsAgree
  BY DEF SignalingInv, Members
<1>2. QED
  BY SignalingInitInv, SignalingNextInv, <1>1, PTL DEF SignalingSpec

\* A socket whose other end is gone is pinged once at most before it is collected.
THEOREM ZombiesCorrect == SignalingSpec => []ZombiesCollected
<1>1. SignalingInv => ZombiesCollected
  BY DEF SignalingInv, Silent, ZombiesCollected, Known
<1>2. QED
  BY SignalingInitInv, SignalingNextInv, <1>1, PTL DEF SignalingSpec

\* Every reachable state of the signaling is well typed.
THEOREM SignalingTypeCorrect == SignalingSpec => []SignalingTypeOK
<1>1. SignalingInv => SignalingTypeOK
  <2> SUFFICES ASSUME SignalingInv PROVE SignalingTypeOK
    OBVIOUS
  <2>1. ClientEnds /\ Flags /\ Members
    BY DEF SignalingInv
  <2>2. missed \in [Links -> Nat]
    BY DEF SignalingInv, Silent
  <2>3. QED
    BY <2>1, <2>2, Zenon DEF ClientEnds, Flags, Members, SignalingTypeOK
<1>2. QED
  BY SignalingInitInv, SignalingNextInv, <1>1, PTL DEF SignalingSpec

-----------------------------------------------------------------------------
(* RPC POOL: one endpoint that fails is hidden from the calls.                  *)

RpcPoolSpec == RpcPoolInit /\ [][RpcPoolNext]_rpcPoolVars

\* Of a call that met neither a swap nor an error of an endpoint that is up: what it
\* tried before was the one that is down, and only its first attempt has tried one alone.
Crossed(r) == r.met \cap {"swap", "error"} # {}
Calm(r) ==
    /\ r.at # "threw"
    /\ r.at = "waits" =>
           /\ r.url = urls[r.idx] /\ r.idx \in r.tried
           /\ \A t \in r.tried \ {r.idx} : urls[t] \notin up
           /\ r.tried = {r.idx} => r.attempt = 1
OneDown ==
    /\ \A e, f \in Endpoints \ up : e = f
    /\ outages = 0 => up = Endpoints
PoolInv ==
    /\ RpcPoolTypeOK
    /\ outages <= 1 => OneDown
    /\ N > 2 /\ outages <= 1 =>
           \A c \in RpcCalls : Crossed(rpcCall[c]) \/ Calm(rpcCall[c])

LEMMA PoolSize == N \in Nat /\ N >= 2
<1>1. N \in Nat
  BY FS_CardinalityType, RpcPoolAssumption DEF N
<1>2. QED
  BY <1>1, RpcPoolAssumption DEF N

LEMMA Around ==
    /\ \A i \in Int : i % N \in Positions
    /\ \A i \in Positions : i % N = i /\ (i + 1) % N = IF i + 1 = N THEN 0 ELSE i + 1
<1> DEFINE n == N
<1>1. n \in Nat /\ n >= 2
  BY PoolSize
<1> HIDE DEF n
<1>2. \A i \in Int : i % n \in 0 .. n - 1
  BY <1>1
<1>3. ASSUME NEW i \in 0 .. n - 1
      PROVE  i % n = i /\ (i + 1) % n = IF i + 1 = n THEN 0 ELSE i + 1
  BY <1>1
<1>4. QED
  BY <1>2, <1>3 DEF n, Positions

LEMMA NewCallIs ==
    /\ NewCall = [at |-> "new", attempt |-> 0, idx |-> 0, tried |-> {}, url |-> "none",
                  met |-> {}]
    /\ NewCall \in RpcCall
BY PoolSize DEF NewCall, RpcCall, Positions

LEMMA OverCallIs ==
    ASSUME NEW r \in RpcCall, NEW how \in {"answered", "threw"}
    PROVE  /\ OverCall(r, how) \in RpcCall
           /\ OverCall(r, how).at = how /\ OverCall(r, how).met = r.met
<1> DEFINE t == [NewCall EXCEPT !.at = how]
<1>1. t \in RpcCall /\ t.at = how
  BY NewCallIs DEF RpcCall
<1>2. OverCall(r, how) = [t EXCEPT !.met = r.met]
  BY DEF OverCall
<1> HIDE DEF t
<1>3. QED
  BY <1>1, <1>2 DEF RpcCall

\* The positions passed over are those tried before.
LEMMA PassedIs ==
    ASSUME NEW tried, NEW i \in Positions
    PROVE  LET k == Passed(tried, i) IN
           /\ k \in 0 .. N
           /\ k = N \/ (i + k) % N \notin tried
           /\ \A j \in 0 .. k - 1 : (i + j) % N \in tried
<1> DEFINE n == N
           S == {k \in 0 .. n : k = n \/ (i + k) % n \notin tried}
           least == Min(S)
<1>1. n \in Nat /\ n >= 2
  BY PoolSize
<1>2. S \in SUBSET Nat /\ n \in S
  BY <1>1
<1>3. least \in S /\ \A y \in S : least <= y
  BY <1>2, LeastIs
<1> HIDE DEF least
<1>4. /\ least \in 0 .. n /\ (least = n \/ (i + least) % n \notin tried)
      /\ \A j \in 0 .. least - 1 : (i + j) % n \in tried
  BY <1>1, <1>3
<1> HIDE DEF n, S
<1>5. \E k \in 0 .. n : /\ k = n \/ (i + k) % n \notin tried
                        /\ \A j \in 0 .. k - 1 : (i + j) % n \in tried
  BY <1>4
<1>6. QED
  BY <1>5 DEF n, Passed

LEMMA LoopTypes ==
    ASSUME RpcPoolTypeOK, NEW r \in RpcCall, NEW a \in 1 .. N + 2, NEW i \in Positions
    PROVE  LoopFrom(r, a, i).call \in RpcCall /\ LoopFrom(r, a, i).index \in Positions
<1> DEFINE k == Passed(r.tried, i)
           idx == (i + k) % N
<1>1. k \in 0 .. N
  BY PassedIs
<1>2. N \in Nat /\ i \in Int /\ idx \in Positions
  BY <1>1, PoolSize, Around DEF Positions
<1>3. CASE a + k > N
  <2>1. LoopFrom(r, a, i) = [call |-> OverCall(r, "threw"), index |-> (i + N + 1 - a) % N]
    BY <1>3 DEF LoopFrom, Tries
  <2>2. (i + N + 1 - a) % N \in Positions
    <3>1. i + N + 1 - a \in Int
      BY <1>2
    <3>2. QED
      BY <3>1, Around
  <2>3. QED
    BY <2>1, <2>2, OverCallIs
<1>4. CASE ~(a + k > N)
  <2> DEFINE x == [at |-> "waits", attempt |-> a + k, idx |-> idx,
                   tried |-> r.tried \cup {idx}, url |-> urls[idx], met |-> r.met]
  <2>1. LoopFrom(r, a, i) = [call |-> x, index |-> idx]
    BY <1>4 DEF LoopFrom, Tries
  <2>2. a + k \in 0 .. N + 1 /\ urls[idx] \in Endpoints
    BY <1>1, <1>2, <1>4 DEF RpcPoolTypeOK
  <2> HIDE DEF k, idx
  <2>3. x \in RpcCall
    BY <1>2, <2>2 DEF RpcCall
  <2>4. QED
    BY <1>2, <2>1, <2>3
<1>5. QED
  BY <1>3, <1>4

\* What the others keep when something happens to one call.
Kept(x, y) ==
    /\ y.at = x.at /\ y.attempt = x.attempt /\ y.idx = x.idx /\ y.tried = x.tried
    /\ y.url = x.url /\ x.met \subseteq y.met

LEMMA BecomesIs ==
    ASSUME RpcPoolTypeOK, NEW c \in RpcCalls, NEW r \in RpcCall,
           NEW met \in SUBSET {"rotation", "swap", "error"}, Becomes(c, r, met)
    PROVE  /\ rpcCall' \in [RpcCalls -> RpcCall]
           /\ rpcCall'[c] = r
           /\ \A d \in RpcCalls \ {c} : Kept(rpcCall[d], rpcCall'[d])
<1>1. rpcCall \in [RpcCalls -> RpcCall]
  BY DEF RpcPoolTypeOK
<1>2. ASSUME NEW d \in RpcCalls \ {c}
      PROVE  rpcCall'[d] \in RpcCall /\ Kept(rpcCall[d], rpcCall'[d])
  <2>1. rpcCall'[d] = IF Waits(d) THEN [rpcCall[d] EXCEPT !.met = @ \cup met] ELSE rpcCall[d]
    BY DEF Becomes
  <2>2. rpcCall[d] \in RpcCall
    BY <1>1
  <2>3. QED
    BY <2>1, <2>2 DEF RpcCall, Kept
<1>3. rpcCall'[c] = r
  BY DEF Becomes
<1>4. rpcCall' = [d \in RpcCalls |-> rpcCall'[d]]
  BY DEF Becomes
<1>5. QED
  BY <1>2, <1>3, <1>4

LEMMA KeptCalm ==
    ASSUME NEW x \in RpcCall, NEW y \in RpcCall, Kept(x, y),
           Crossed(x) \/ Calm(x), urls' = urls, up' = up
    PROVE  Crossed(y) \/ Calm(y)'
BY DEF Kept, Calm, Crossed

LEMMA PoolInitInv == RpcPoolInit => PoolInv
<1> SUFFICES ASSUME RpcPoolInit PROVE PoolInv
  OBVIOUS
<1>1. N \in Nat /\ N >= 2
  BY PoolSize
<1>2. PICK g : g \in Bijection(1 .. N, Endpoints)
  BY FS_CardinalityType, RpcPoolAssumption DEF N, ExistsBijection
<1>3. /\ g \in [1 .. N -> Endpoints]
      /\ \A i, j \in 1 .. N : g[i] = g[j] => i = j
  BY <1>2 DEF Bijection, Injection, IsInjective
<1> DEFINE h == [i \in Positions |-> g[i + 1]]
<1>4. h \in [Positions -> Endpoints] /\ \A i, j \in Positions : i # j => h[i] # h[j]
  BY <1>1, <1>3 DEF Positions
<1>5. \E f \in [Positions -> Endpoints] : \A i, j \in Positions : i # j => f[i] # f[j]
  BY <1>4
<1>6. urls \in [Positions -> Endpoints] /\ \A i, j \in Positions : i # j => urls[i] # urls[j]
  BY <1>5 DEF RpcPoolInit
<1>7. RpcPoolTypeOK
  <2>1. index \in Positions
    BY <1>1 DEF RpcPoolInit, Positions
  <2>2. fails \in [Positions -> 0 .. CircuitOpen]
    BY RpcPoolAssumption DEF RpcPoolInit
  <2>3. rpcCall \in [RpcCalls -> RpcCall]
    BY NewCallIs DEF RpcPoolInit
  <2>4. outages \in 0 .. MaxOutages /\ swaps \in 0 .. MaxSwaps
    BY RpcPoolAssumption DEF RpcPoolInit
  <2>5. up \subseteq Endpoints
    BY DEF RpcPoolInit
  <2>6. QED
    BY <1>6, <2>1, <2>2, <2>3, <2>4, <2>5 DEF RpcPoolTypeOK
<1>8. \A c \in RpcCalls : Calm(rpcCall[c])
  BY NewCallIs DEF RpcPoolInit, Calm
<1>9. OneDown
  BY DEF RpcPoolInit, OneDown
<1>10. QED
  BY <1>7, <1>8, <1>9 DEF PoolInv

\* What happens to one call is the invariant's business only for that call.
LEMMA OneCallStep ==
    ASSUME PoolInv, NEW c \in RpcCalls, NEW x \in RpcCall,
           NEW met \in SUBSET {"rotation", "swap", "error"}, Becomes(c, x, met),
           UNCHANGED <<urls, up, outages, swaps>>,
           index' \in Positions, fails' \in [Positions -> 0 .. CircuitOpen],
           N > 2 /\ outages <= 1 => Crossed(x) \/ Calm(x)
    PROVE  PoolInv'
<1>1. RpcPoolTypeOK
  BY DEF PoolInv
<1>2. /\ rpcCall' \in [RpcCalls -> RpcCall] /\ rpcCall'[c] = x
      /\ \A d \in RpcCalls \ {c} : Kept(rpcCall[d], rpcCall'[d])
  BY <1>1, BecomesIs
<1>3. RpcPoolTypeOK'
  BY <1>1, <1>2 DEF RpcPoolTypeOK
<1>4. ASSUME NEW d \in RpcCalls, N > 2, outages <= 1
      PROVE  (Crossed(rpcCall[d]) \/ Calm(rpcCall[d]))'
  <2>1. CASE d = c
    BY <1>2, <1>4, <2>1 DEF Calm, Crossed
  <2>2. CASE d # c
    <3>1. Crossed(rpcCall[d]) \/ Calm(rpcCall[d])
      BY <1>4 DEF PoolInv
    <3>2. Kept(rpcCall[d], rpcCall'[d])
      BY <1>2, <2>2
    <3>3. QED
      BY <3>1, <3>2 DEF Kept, Calm, Crossed
  <2>3. QED
    BY <2>1, <2>2
<1>5. (outages <= 1 => OneDown)'
  BY DEF PoolInv, OneDown
<1>6. QED
  BY <1>3, <1>4, <1>5 DEF PoolInv

\* A call that begins tries the endpoint at the index.
LEMMA StartRpcCallStep ==
    ASSUME PoolInv, NEW c \in RpcCalls, StartRpcCall(c)
    PROVE  PoolInv'
<1> DEFINE next == LoopFrom(NewCall, 1, index)
           k == Passed({}, index)
<1>1. /\ Becomes(c, next.call, {}) /\ index' = next.index
      /\ UNCHANGED <<urls, fails, up, outages, swaps>>
  BY DEF StartRpcCall
<1>2. RpcPoolTypeOK /\ index \in Positions /\ N \in Nat /\ N >= 2
  BY PoolSize DEF PoolInv, RpcPoolTypeOK
<1>3. 1 \in 1 .. N + 2
  BY <1>2
<1>4. next.call \in RpcCall /\ next.index \in Positions
  BY <1>2, <1>3, LoopTypes, NewCallIs
<1>5. k = 0
  <2>1. k \in 0 .. N /\ \A j \in 0 .. k - 1 : (index + j) % N \in {}
    BY <1>2, PassedIs
  <2> HIDE DEF k
  <2>2. QED
    BY <1>2, <2>1
<1>6. Calm(next.call)
  <2>1. next.call = [at |-> "waits", attempt |-> 1 + k, idx |-> (index + k) % N,
                     tried |-> {} \cup {(index + k) % N}, url |-> urls[(index + k) % N],
                     met |-> {}]
    BY <1>2, <1>5, NewCallIs DEF LoopFrom, Tries
  <2> HIDE DEF next, k
  <2>2. QED
    BY <1>5, <2>1 DEF Calm
<1> HIDE DEF next
<1>7. QED
  BY <1>1, <1>2, <1>4, <1>6, OneCallStep DEF RpcPoolTypeOK

LEMMA RpcAnswersStep ==
    ASSUME PoolInv, NEW c \in RpcCalls, RpcAnswers(c)
    PROVE  PoolInv'
<1> DEFINE x == OverCall(rpcCall[c], "answered")
<1>1. /\ fails' = [fails EXCEPT ![rpcCall[c].idx] = 0] /\ Becomes(c, x, {})
      /\ UNCHANGED <<urls, index, up, outages, swaps>>
  BY DEF RpcAnswers
<1>2. RpcPoolTypeOK /\ rpcCall[c] \in RpcCall
  BY DEF PoolInv, RpcPoolTypeOK
<1>3. x \in RpcCall /\ x.at = "answered"
  BY <1>2, OverCallIs
<1> HIDE DEF x
<1>4. Calm(x)
  BY <1>3 DEF Calm
<1>5. fails' \in [Positions -> 0 .. CircuitOpen]
  <2>1. 0 \in 0 .. CircuitOpen
    BY RpcPoolAssumption
  <2>2. fails \in [Positions -> 0 .. CircuitOpen]
    BY <1>2 DEF RpcPoolTypeOK
  <2>3. QED
    BY <1>1, <2>1, <2>2
<1>6. QED
  BY <1>1, <1>2, <1>3, <1>4, <1>5, OneCallStep DEF RpcPoolTypeOK

LEMMA OneMoreIs == \A i \in 0 .. CircuitOpen : OneMore(i) \in 0 .. CircuitOpen
BY RpcPoolAssumption DEF OneMore

\* The endpoint that is down was asked first, so that the next is another one and
\* answers, or fails with an error of its own: the pool has an attempt left for it.
LEMMA RpcFailsStep ==
    ASSUME PoolInv, NEW c \in RpcCalls, RpcFails(c)
    PROVE  PoolInv'
<1> DEFINE own == IF rpcCall[c].url \in up THEN {"error"} ELSE {}
<1>0. PICK r : r = [rpcCall[c] EXCEPT !.met = @ \cup own]
  OBVIOUS
<1> DEFINE i == Rotates(index)
           a == r.attempt + 1
           k == Passed(r.tried, i)
           idx == (i + k) % N
           next == LoopFrom(r, a, i)
<1>r. /\ r \in RpcCall /\ r.at = rpcCall[c].at /\ r.idx = rpcCall[c].idx
      /\ rpcCall[c].met \subseteq r.met /\ (r.url \in up => "error" \in r.met)
      /\ Calm(rpcCall[c]) => Calm(r)
  <2>1. rpcCall[c] \in RpcCall
    BY DEF PoolInv, RpcPoolTypeOK
  <2>2. /\ r.at = rpcCall[c].at /\ r.attempt = rpcCall[c].attempt /\ r.idx = rpcCall[c].idx
        /\ r.tried = rpcCall[c].tried /\ r.url = rpcCall[c].url
        /\ r.met = rpcCall[c].met \cup own /\ r \in RpcCall
    BY <1>0, <2>1 DEF RpcCall
  <2>3. QED
    BY <2>2 DEF Calm
<1>1. /\ r.at = "waits"
      /\ fails' = [fails EXCEPT ![r.idx] = OneMore(@)]
      /\ index' = next.index /\ Becomes(c, next.call, {"rotation"})
      /\ UNCHANGED <<urls, up, outages, swaps>>
  BY <1>0, <1>r DEF RpcFails, Waits
<1>2. RpcPoolTypeOK /\ r \in RpcCall /\ index \in Positions /\ N \in Nat /\ N >= 2
  BY <1>r, PoolSize DEF PoolInv, RpcPoolTypeOK
<1>3. i \in Positions
  <2>1. index + 1 \in Int
    BY <1>2 DEF Positions
  <2>2. QED
    BY <2>1, Around DEF Rotates
<1>4. a \in 1 .. N + 2
  BY <1>2 DEF RpcCall
<1>5. next.call \in RpcCall /\ next.index \in Positions
  BY <1>2, <1>3, <1>4, LoopTypes
<1>6. fails' \in [Positions -> 0 .. CircuitOpen]
  BY <1>1, <1>2, OneMoreIs DEF RpcPoolTypeOK, RpcCall
<1>7. ASSUME N > 2, outages <= 1, ~Crossed(r) PROVE Calm(next.call)
  <2>1. Calm(r) /\ OneDown /\ r.url \notin up
    BY <1>r, <1>7 DEF PoolInv, Crossed
  <2>2. /\ r.url = urls[r.idx] /\ r.idx \in r.tried /\ r.idx \in Positions
        /\ r.tried \subseteq Positions
        /\ \A t \in r.tried \ {r.idx} : urls[t] \notin up
    BY <1>1, <1>2, <2>1 DEF Calm, RpcCall
  <2>3. r.tried = {r.idx}
    <3>1. ASSUME NEW t \in r.tried \ {r.idx} PROVE FALSE
      <4>1. urls[t] \in Endpoints \ up /\ urls[r.idx] \in Endpoints \ up
        BY <1>2, <2>1, <2>2 DEF RpcPoolTypeOK
      <4>2. urls[t] = urls[r.idx]
        BY <2>1, <4>1 DEF OneDown
      <4>3. QED
        BY <1>2, <2>2, <4>2 DEF RpcPoolTypeOK
    <3>2. QED
      BY <2>2, <3>1
  <2>4. a = 2
    BY <1>1, <2>1, <2>3 DEF Calm
  <2>5. k \in 0 .. N /\ (k = N \/ idx \notin r.tried) /\ \A j \in 0 .. k - 1 : (i + j) % N \in r.tried
    BY <1>3, PassedIs
  <2>6. k <= 1
    <3>1. ASSUME k >= 2 PROVE FALSE
      <4>1. (i + 0) % N = r.idx /\ (i + 1) % N = r.idx
        <5> HIDE DEF k, i, idx
        <5>1. 0 \in 0 .. k - 1 /\ 1 \in 0 .. k - 1
          BY <1>2, <2>5, <3>1
        <5>2. (i + 0) % N \in r.tried /\ (i + 1) % N \in r.tried
          BY <2>5, <5>1
        <5>3. QED
          BY <2>3, <5>2
      <4>2. i % N = i /\ (i + 1) % N = IF i + 1 = N THEN 0 ELSE i + 1
        BY <1>3, Around
      <4>3. i \in Int /\ i + 0 = i
        BY <1>3, <1>2 DEF Positions
      <4>4. QED
        BY <1>2, <4>1, <4>2, <4>3
    <3>2. QED
      BY <2>5, <3>1
  <2>7. idx # r.idx /\ ~(a + k > N)
    BY <1>2, <1>7, <2>3, <2>4, <2>5, <2>6
  <2>8. next.call = [at |-> "waits", attempt |-> a + k, idx |-> idx,
                     tried |-> r.tried \cup {idx}, url |-> urls[idx], met |-> r.met]
    BY <2>7 DEF LoopFrom, Tries
  <2> HIDE DEF next, a, k, idx, i
  <2>9. QED
    BY <1>1, <2>1, <2>2, <2>3, <2>7, <2>8 DEF Calm
<1>8. Crossed(r) => Crossed(next.call)
  <2>1. next.call.met = r.met
    <3>1. OverCall(r, "threw").met = r.met
      BY <1>2, OverCallIs
    <3>2. QED
      BY <3>1 DEF LoopFrom
  <2>2. QED
    BY <2>1 DEF Crossed
<1> HIDE DEF next
<1>9. QED
  BY <1>1, <1>5, <1>6, <1>7, <1>8, OneCallStep

-----------------------------------------------------------------------------
(* The probes *)

LEMMA SwappedIs ==
    ASSUME NEW S, NEW f \in [Positions -> S], NEW b \in Positions
    PROVE  /\ Swapped(f, b) \in [Positions -> S]
           /\ \A i \in Positions : Swapped(f, b)[i] = IF i = b THEN f[0]
                                                      ELSE IF i = 0 THEN f[b] ELSE f[i]
<1> DEFINE t == [f EXCEPT ![0] = f[b]]
<1>1. 0 \in Positions
  BY PoolSize DEF Positions
<1>2. /\ t \in [Positions -> S]
      /\ \A i \in Positions : t[i] = IF i = 0 THEN f[b] ELSE f[i]
  BY <1>1
<1>3. Swapped(f, b) = [t EXCEPT ![b] = f[0]]
  BY DEF Swapped
<1> HIDE DEF t
<1>4. QED
  BY <1>1, <1>2, <1>3

LEMMA RunProbeStep ==
    ASSUME PoolInv, NEW best \in Positions, RunProbe(best)
    PROVE  PoolInv'
<1>1. RpcPoolTypeOK /\ 0 \in Positions
  BY PoolSize DEF PoolInv, Positions
<1>2. Probed \in [Positions -> 0 .. CircuitOpen]
  BY <1>1, OneMoreIs, RpcPoolAssumption DEF Probed, RpcPoolTypeOK
<1>3. CASE best = 0
  <2>1. /\ UNCHANGED <<urls, index, up, outages, swaps>> /\ fails' = Probed
        /\ rpcCall' = [d \in RpcCalls |-> rpcCall[d]]
    BY <1>3 DEF RunProbe
  <2>2. rpcCall' = rpcCall
    BY <1>1, <2>1 DEF RpcPoolTypeOK
  <2>3. QED
    BY <1>1, <1>2, <2>1, <2>2 DEF PoolInv, RpcPoolTypeOK, OneDown, Calm, Crossed
<1>4. CASE best # 0
  <2>1. /\ swaps < MaxSwaps /\ swaps' = swaps + 1 /\ index' = 0
        /\ fails' = Swapped(Probed, best) /\ urls' = Swapped(urls, best)
        /\ UNCHANGED <<up, outages>>
    BY <1>4 DEF RunProbe
  <2>2. \A d \in RpcCalls :
            rpcCall'[d] = IF Waits(d) THEN [rpcCall[d] EXCEPT !.met = @ \cup {"swap"}]
                          ELSE rpcCall[d]
    BY <1>4 DEF RunProbe
  <2>3. rpcCall' = [d \in RpcCalls |-> rpcCall'[d]]
    BY DEF RunProbe
  <2>4. /\ urls' \in [Positions -> Endpoints]
        /\ \A i, j \in Positions : i # j => urls'[i] # urls'[j]
    <3>1. /\ urls' \in [Positions -> Endpoints]
          /\ \A i \in Positions : urls'[i] = IF i = best THEN urls[0]
                                             ELSE IF i = 0 THEN urls[best] ELSE urls[i]
      <4>1. urls \in [Positions -> Endpoints]
        BY <1>1 DEF RpcPoolTypeOK
      <4>2. QED
        BY <2>1, <4>1, SwappedIs
    <3>2. QED
      BY <1>1, <3>1 DEF RpcPoolTypeOK
  <2>5. fails' \in [Positions -> 0 .. CircuitOpen]
    BY <1>2, <2>1, SwappedIs
  <2>6. ASSUME NEW d \in RpcCalls
        PROVE  /\ rpcCall'[d] \in RpcCall /\ rpcCall'[d].at = rpcCall[d].at
               /\ rpcCall[d].met \subseteq rpcCall'[d].met
               /\ rpcCall[d].at = "waits" => "swap" \in rpcCall'[d].met
    <3>1. rpcCall[d] \in RpcCall
      BY <1>1 DEF RpcPoolTypeOK
    <3>2. CASE rpcCall[d].at = "waits"
      <4>1. rpcCall'[d] = [rpcCall[d] EXCEPT !.met = @ \cup {"swap"}]
        BY <2>2, <3>2 DEF Waits
      <4>2. QED
        BY <3>1, <4>1 DEF RpcCall
    <3>3. CASE rpcCall[d].at # "waits"
      BY <2>2, <3>1, <3>3 DEF Waits
    <3>4. QED
      BY <3>2, <3>3
  <2>7. RpcPoolTypeOK'
    <3>1. rpcCall' \in [RpcCalls -> RpcCall]
      BY <2>3, <2>6
    <3>2. swaps' \in 0 .. MaxSwaps
      BY <1>1, <2>1, RpcPoolAssumption DEF RpcPoolTypeOK
    <3>3. QED
      BY <1>1, <2>1, <2>4, <2>5, <3>1, <3>2 DEF RpcPoolTypeOK
  <2>8. ASSUME NEW d \in RpcCalls, N > 2, outages <= 1
        PROVE  (Crossed(rpcCall[d]) \/ Calm(rpcCall[d]))'
    <3>1. Crossed(rpcCall[d]) \/ Calm(rpcCall[d])
      BY <2>8 DEF PoolInv
    <3>2. QED
      BY <2>6, <3>1 DEF Calm, Crossed
  <2>9. (outages <= 1 => OneDown)'
    BY <2>1 DEF PoolInv, OneDown
  <2>10. QED
    BY <2>1, <2>7, <2>8, <2>9 DEF PoolInv
<1>5. QED
  BY <1>3, <1>4

\* The first endpoint that stops to answer is the only one.
LEMMA OutageStep ==
    ASSUME PoolInv, NEW e \in Endpoints, Outage(e)
    PROVE  PoolInv'
<1>1. /\ outages < MaxOutages /\ outages' = outages + 1
      /\ up' = IF e \in up THEN up \ {e} ELSE up \cup {e}
      /\ UNCHANGED <<urls, index, fails, rpcCall, swaps>>
  BY DEF Outage
<1>2. RpcPoolTypeOK
  BY DEF PoolInv
<1>3. RpcPoolTypeOK'
  BY <1>1, <1>2, RpcPoolAssumption DEF RpcPoolTypeOK
<1>4. ASSUME outages' <= 1 PROVE outages = 0 /\ up = Endpoints /\ up' = Endpoints \ {e}
  <2>1. outages = 0
    BY <1>1, <1>2, <1>4 DEF RpcPoolTypeOK
  <2>2. up = Endpoints
    BY <2>1 DEF PoolInv, OneDown
  <2>3. QED
    BY <1>1, <2>1, <2>2
<1>5. (outages <= 1 => OneDown)'
  BY <1>1, <1>2, <1>4 DEF OneDown, RpcPoolTypeOK
<1>6. ASSUME NEW c \in RpcCalls, N > 2, outages' <= 1
      PROVE  (Crossed(rpcCall[c]) \/ Calm(rpcCall[c]))'
  <2>1. Crossed(rpcCall[c]) \/ Calm(rpcCall[c])
    BY <1>4, <1>6 DEF PoolInv
  <2>2. QED
    BY <1>1, <1>4, <1>6, <2>1 DEF Calm, Crossed
<1>7. QED
  BY <1>3, <1>5, <1>6 DEF PoolInv

LEMMA PoolNextInv == PoolInv /\ [RpcPoolNext]_rpcPoolVars => PoolInv'
<1> SUFFICES ASSUME PoolInv, [RpcPoolNext]_rpcPoolVars PROVE PoolInv'
  OBVIOUS
<1>1. CASE UNCHANGED rpcPoolVars
  BY <1>1 DEF rpcPoolVars, PoolInv, RpcPoolTypeOK, OneDown, Calm, Crossed
<1>2. QED
  BY <1>1, StartRpcCallStep, RpcAnswersStep, RpcFailsStep, RunProbeStep, OutageStep
     DEF RpcPoolNext, RpcCallStep

\* One endpoint that is down is hidden from every call that met neither a swap nor an
\* error of an endpoint that is up, for any number of calls and endpoints above two.
THEOREM FailureHidden == RpcPoolSpec => []OneFailureIsHidden
<1>1. PoolInv => OneFailureIsHidden
  BY DEF PoolInv, Calm, Crossed, OneFailureIsHidden
<1>2. QED
  BY PoolInitInv, PoolNextInv, <1>1, PTL DEF RpcPoolSpec

\* The endpoints stay in some order: no swap loses or doubles one.
THEOREM RpcPoolTypeCorrect == RpcPoolSpec => []RpcPoolTypeOK
<1>1. PoolInv => RpcPoolTypeOK
  BY DEF PoolInv
<1>2. QED
  BY PoolInitInv, PoolNextInv, <1>1, PTL DEF RpcPoolSpec

-----------------------------------------------------------------------------
(* TOGETHER                                                                     *)

\* The steps of the four are steps of each, or leave it alone; so what is proved
\* of each on its own holds in the specification that the run checks.
THEOREM ServicesImplemented == Spec => DisputesSpec /\ CardSpec /\ SignalingSpec /\ RpcPoolSpec
<1>1. Init => DisputesInit /\ CardInit /\ SignalingInit /\ RpcPoolInit
  BY DEF Init
<1>2. [Next]_Vars => /\ [DisputesNext]_disputesVars /\ [CardNext]_cardVars
                     /\ [SignalingNext]_signalingVars /\ [RpcPoolNext]_rpcPoolVars
  BY DEF Next, Vars
<1>3. QED
  BY <1>1, <1>2, PTL DEF Spec, DisputesSpec, CardSpec, SignalingSpec, RpcPoolSpec

\* Every reachable state of the four parts is well typed.
THEOREM ServicesTypeCorrect == Spec => []TypeOK
<1>1. DisputesTypeOK /\ CardTypeOK /\ SignalingTypeOK /\ RpcPoolTypeOK => TypeOK
  BY DEF TypeOK
<1>2. QED
  BY ServicesImplemented, DisputesTypeCorrect, CardTypeCorrect, SignalingTypeCorrect,
     RpcPoolTypeCorrect, <1>1, PTL
=============================================================================
