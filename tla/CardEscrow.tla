------------------------------ MODULE CardEscrow ------------------------------
(***************************************************************************)
(* Escrows paid by card: the records of lib/payments/escrow-service.ts, the    *)
(* payments route that creates, releases and refunds them around calls to      *)
(* Stripe (app/api/payments/route.ts), its idempotency cache and the webhook    *)
(* that follows the PaymentIntents (lib/payments/stripe-webhook.ts).          *)
(***************************************************************************)
EXTENDS Integers, FiniteSets

CONSTANTS
    CardEscrows,  \* escrow ids
    Posts,        \* requests of the payments route that may be running at one time
    Keys,         \* Idempotency-Keys
    MaxLost,      \* bound on answers of Stripe that are lost
    MaxEvents     \* bound on events after which customers do no more

\* "none" stands for no key and no escrow.
ASSUME CardAssumption ==
    /\ "none" \notin Keys \cup CardEscrows
    /\ {MaxLost, MaxEvents} \subseteq Nat

VARIABLES
    record,     \* EscrowRecord.status, or absent
    attached,   \* records with a paymentIntentId
    intent,     \* what Stripe has of the PaymentIntent
    emitted,    \* events Stripe has about it; it may deliver one at any time and again
    post,       \* what a request is at
    cached,     \* keys with a cached response
    payable,    \* escrows whose client secret the customer has, without which nobody pays
    created,    \* history: the records a key has created
    clashed,    \* history: keys that two requests used at one time, or that expired
    strayed,    \* history: escrows with an outdated event, crossing requests, or a
                \* refund that crossed an event and lost its answer
    early,      \* history: escrows refunded before the customer had paid
    lost

keyVars == <<cached, payable, created, clashed>>
cardVars == <<record, attached, intent, emitted, post, keyVars, strayed, early, lost>>

-----------------------------------------------------------------------------
RecordStates == {"absent", "pending_funding", "funded_authorized", "released",
                 "refunded", "failed"}
IntentStates == {"none", "unpaid", "requires_capture", "succeeded", "canceled", "refunded"}
Events == {"amount_capturable_updated", "succeeded", "canceled", "payment_failed"}

\* What processStripeWebhookEvent makes of an event, whatever the record says.
MarkedBy == [amount_capturable_updated |-> "funded_authorized", succeeded |-> "released",
             canceled |-> "refunded", payment_failed |-> "failed"]
\* The intent an event is about.
SentWhen == [amount_capturable_updated |-> "requires_capture", succeeded |-> "succeeded",
             canceled |-> "canceled", payment_failed |-> "unpaid"]

PostSteps == {"idle", "create", "intent", "answer", "store", "capture", "release",
              "retrieve", "cancel", "giveBack", "refund"}
NoPost == [at |-> "idle", key |-> "none", escrow |-> "none"]
Goto(r, step) == post' = [post EXCEPT ![r].at = step]
Ends(r) == post' = [post EXCEPT ![r] = NoPost]
Busy(e) == \E r \in Posts : post[r].escrow = e

CardInit ==
    /\ record = [e \in CardEscrows |-> "absent"]
    /\ intent = [e \in CardEscrows |-> "none"]
    /\ emitted = [e \in CardEscrows |-> {}]
    /\ post = [r \in Posts |-> NoPost]
    /\ created = [k \in Keys |-> {}]
    /\ attached = {} /\ cached = {} /\ payable = {}
    /\ clashed = {} /\ strayed = {} /\ early = {}
    /\ lost = 0

-----------------------------------------------------------------------------
(* Creating an escrow.                                                        *)

\* The cache is looked up first; the mutation does without it.
Always(k) == TRUE
NotCached(k) == k \notin cached

PostCreate(r, k) ==
    /\ post[r] = NoPost
    /\ NotCached(k)
    /\ post' = [post EXCEPT ![r] = [NoPost EXCEPT !.at = "create", !.key = k]]
    /\ clashed' = IF \E q \in Posts : post[q].key = k THEN clashed \cup {k} ELSE clashed
    /\ UNCHANGED <<record, attached, intent, emitted, cached, created, payable, strayed,
                   early, lost>>

\* createEscrow takes a new id.
FreeIds == {e \in CardEscrows : record[e] = "absent"}
NewId == CHOOSE e \in FreeIds : TRUE
CreateEscrow(r) ==
    /\ post[r].at = "create"
    /\ FreeIds # {}
    /\ record' = [record EXCEPT ![NewId] = "pending_funding"]
    /\ created' = [created EXCEPT ![post[r].key] = @ \cup {NewId}]
    /\ post' = [post EXCEPT ![r].at = "intent", ![r].escrow = NewId]
    /\ UNCHANGED <<attached, intent, emitted, cached, payable, clashed, strayed, early,
                   lost>>

\* Stripe creates the intent, with the id of the escrow in it.
CreateIntent(r) ==
    /\ post[r].at = "intent"
    /\ intent' = [intent EXCEPT ![post[r].escrow] = "unpaid"]
    /\ Goto(r, "answer")
    /\ UNCHANGED <<record, attached, emitted, keyVars, strayed, early, lost>>

\* Stripe refuses or is not reached, and the record stays without an intent, or its
\* answer is lost and the intent without a record that knows it.  The request ends
\* and caches nothing, so the next one under its key creates another escrow.
CreateFails(r) ==
    /\ post[r].at \in {"intent", "answer"}
    /\ lost < MaxLost
    /\ lost' = lost + 1
    /\ Ends(r)
    /\ UNCHANGED <<record, attached, intent, emitted, keyVars, strayed, early>>

AttachIntent(r) ==
    /\ post[r].at = "answer"
    /\ attached' = attached \cup {post[r].escrow}
    /\ Goto(r, "store")
    /\ UNCHANGED <<record, intent, emitted, keyVars, strayed, early, lost>>

\* The response holds the client secret; the cache swallows its own errors.
StoreResponse(r) ==
    /\ post[r].at = "store"
    /\ cached' = cached \cup {post[r].key}
    /\ payable' = payable \cup {post[r].escrow}
    /\ Ends(r)
    /\ UNCHANGED <<record, attached, intent, emitted, created, clashed, strayed, early,
                   lost>>

\* A day later the entry is gone.
EntryExpires(k) ==
    /\ k \in cached
    /\ cached' = cached \ {k}
    /\ clashed' = clashed \cup {k}
    /\ UNCHANGED <<record, attached, intent, emitted, post, payable, created, strayed,
                   early, lost>>

-----------------------------------------------------------------------------
(* Releasing and refunding.  The responses these two cache carry no state.     *)

Crossing(e) == IF Busy(e) THEN strayed \cup {e} ELSE strayed

PostRelease(r, e) ==
    /\ post[r] = NoPost
    /\ record[e] = "funded_authorized" /\ e \in attached
    /\ post' = [post EXCEPT ![r] = [NoPost EXCEPT !.at = "capture", !.escrow = e]]
    /\ strayed' = Crossing(e)
    /\ UNCHANGED <<record, attached, intent, emitted, keyVars, early, lost>>

\* A record without an intent is refunded at once.
PostRefund(r, e) ==
    /\ post[r] = NoPost
    /\ record[e] \in {"funded_authorized", "pending_funding"}
    /\ post' = [post EXCEPT ![r] =
                  [NoPost EXCEPT !.at = IF e \in attached THEN "retrieve" ELSE "refund",
                                 !.escrow = e]]
    /\ strayed' = Crossing(e)
    /\ UNCHANGED <<record, attached, intent, emitted, keyVars, early, lost>>

\* Stripe captures, cancels or gives back only what is in the state before; the
\* answer may be lost, and an error ends the request with a 5xx.
Stripe(r, before, after, event, step, answered) ==
    LET e == post[r].escrow
    IN  /\ ~answered => lost < MaxLost /\ intent[e] = before
        /\ lost' = IF answered THEN lost ELSE lost + 1
        /\ intent' = IF intent[e] = before THEN [intent EXCEPT ![e] = after] ELSE intent
        /\ emitted' = IF intent[e] = before THEN [emitted EXCEPT ![e] = @ \cup event]
                      ELSE emitted
        /\ IF intent[e] = before /\ answered THEN Goto(r, step) ELSE Ends(r)
        /\ UNCHANGED <<record, attached, keyVars, early>>

Capture(r, answered) ==
    /\ post[r].at = "capture"
    /\ Stripe(r, "requires_capture", "succeeded", {"succeeded"}, "release", answered)
    /\ UNCHANGED strayed

Cancel(r, answered) ==
    /\ post[r].at = "cancel"
    /\ Stripe(r, "requires_capture", "canceled", {"canceled"}, "refund", answered)
    /\ UNCHANGED strayed

\* The event of the capture may mark the record while it is given back, and Stripe
\* has no event for that: if the answer is lost too, the record stays released.
GiveBack(r, answered) ==
    LET e == post[r].escrow
    IN  /\ post[r].at = "giveBack"
        /\ Stripe(r, "succeeded", "refunded", {}, "refund", answered)
        /\ strayed' = IF ~answered /\ record[e] = "released" THEN strayed \cup {e}
                      ELSE strayed

\* What the refund does with the intent it retrieved, whose latest_charge is the id of
\* its charge.  One that was given back before is still succeeded for Stripe, which
\* then refuses to give it back.  The mutation forgets that it may have been captured.
IgnoreCaptured(i) == IF i = "requires_capture" THEN "cancel" ELSE "refund"
AfterRetrieve(i) == CASE i = "requires_capture"           -> "cancel"
                      [] i \in {"succeeded", "refunded"} -> "giveBack"
                      [] OTHER                            -> "refund"
Retrieve(r) ==
    /\ post[r].at = "retrieve"
    /\ Goto(r, AfterRetrieve(intent[post[r].escrow]))
    /\ UNCHANGED <<record, attached, intent, emitted, keyVars, strayed, early, lost>>

\* markReleased, markRefunded
Mark(r) ==
    LET e == post[r].escrow
    IN  /\ post[r].at \in {"release", "refund"}
        /\ record' = [record EXCEPT ![e] = IF post[r].at = "release" THEN "released"
                                           ELSE "refunded"]
        /\ early' = IF /\ post[r].at = "refund"
                       /\ intent[e] \in {"none", "unpaid", "requires_capture"}
                    THEN early \cup {e} ELSE early
        /\ Ends(r)
        /\ UNCHANGED <<attached, intent, emitted, keyVars, strayed, lost>>

-----------------------------------------------------------------------------
(* Stripe and its customer.                                                   *)

\* The customer pays, fails to, or the authorisation runs out.
Customer(e, before, after, event) ==
    /\ intent[e] = before
    /\ Cardinality({x \in CardEscrows \X Events : x[2] \in emitted[x[1]]}) < MaxEvents
    /\ intent' = [intent EXCEPT ![e] = after]
    /\ emitted' = [emitted EXCEPT ![e] = @ \cup {event}]
    /\ UNCHANGED <<record, attached, post, keyVars, strayed, early, lost>>

Authorise(e) ==
    e \in payable /\ Customer(e, "unpaid", "requires_capture", "amount_capturable_updated")
PaymentFails(e) ==
    e \in payable /\ Customer(e, "unpaid", "unpaid", "payment_failed")
Expire(e) == Customer(e, "requires_capture", "canceled", "canceled")

\* The webhook route handles a delivery at one go.
Deliver(e, event) ==
    /\ event \in emitted[e]
    /\ record[e] # "absent"
    /\ record' = [record EXCEPT ![e] = MarkedBy[event]]
    /\ strayed' = IF intent[e] # SentWhen[event] THEN strayed \cup {e} ELSE strayed
    /\ UNCHANGED <<attached, intent, emitted, post, keyVars, early, lost>>

-----------------------------------------------------------------------------
CardNext ==
    \/ \E r \in Posts :
         \/ \E k \in Keys : PostCreate(r, k)
         \/ \E e \in CardEscrows : PostRelease(r, e) \/ PostRefund(r, e)
         \/ CreateEscrow(r) \/ CreateIntent(r) \/ CreateFails(r)
         \/ AttachIntent(r) \/ StoreResponse(r)
         \/ Retrieve(r) \/ Mark(r)
         \/ \E answered \in BOOLEAN :
              Capture(r, answered) \/ Cancel(r, answered) \/ GiveBack(r, answered)
    \/ \E k \in Keys : EntryExpires(k)
    \/ \E e \in CardEscrows :
         \/ Authorise(e) \/ PaymentFails(e) \/ Expire(e)
         \/ \E event \in Events : Deliver(e, event)

-----------------------------------------------------------------------------
(* Properties.                                                                *)

CardTypeOK ==
    /\ record \in [CardEscrows -> RecordStates]
    /\ intent \in [CardEscrows -> IntentStates]
    /\ emitted \in [CardEscrows -> SUBSET Events]
    /\ post \in [Posts -> [at : PostSteps, key : Keys \cup {"none"},
                           escrow : CardEscrows \cup {"none"}]]
    /\ created \in [Keys -> SUBSET CardEscrows]
    /\ cached \subseteq Keys /\ clashed \subseteq Keys
    /\ {attached, payable, strayed, early} \subseteq SUBSET CardEscrows
    /\ lost \in 0 .. MaxLost

\* A record no request is at that says released or refunded says where the
\* money is - unless an outdated event was delivered, requests crossed, the
\* refund came before the payment, or a refund whose answer was lost crossed the
\* event of the capture.  Any other answer that is lost leaves the record behind,
\* and what the client does next must still not contradict it.
RecordAgreesWithStripe ==
    \A e \in CardEscrows \ strayed : ~Busy(e) =>
        /\ record[e] = "released" => intent[e] = "succeeded"
        /\ record[e] = "refunded" => intent[e] \in {"canceled", "refunded"} \/ e \in early

\* The customer pays once for one Idempotency-Key, however often the request is sent
\* again after Stripe refused it or its answer was lost, which leaves an escrow behind
\* each time - unless two of its requests overlapped, or it is used again after its
\* entry expired.
Paid == {e \in CardEscrows : "amount_capturable_updated" \in emitted[e]}
OnePaymentPerKey ==
    \A k \in Keys \ clashed : Cardinality(created[k] \cap Paid) <= 1
=============================================================================
