------------------------ MODULE PushRegistrationProofs ------------------------
(***************************************************************************)
(* Overlapping registrations never leave a subscription in the push        *)
(* worker's store that the page has replaced, and those that end without a *)
(* failure leave this browser's: for any number of inboxes and calls.      *)
(***************************************************************************)
EXTENDS PushRegistration, FiniteSetTheorems, WellFoundedInduction, TLAPS

\* A subscription made with the server's key.
Good(d) == d # 0 /\ ~KeyDiffers(d)

\* Where a call works for the inbox it has read.
Asking == {"ready", "key", "unsubscribe", "subscribe", "post"}

\* What a call holds: its inbox; a good subscription is the browser's still, one found to
\* be good is about to be stored, and one about to be given up is not good.
Held(c) ==
    /\ calls[c].pc \in Asking => calls[c].inbox # NoInbox
    /\ Good(calls[c].sub) => sub = calls[c].sub
    /\ calls[c].pc \in {"post", "address"} => Good(calls[c].sub)
    /\ calls[c].pc = "unsubscribe" => KeyDiffers(calls[c].sub)
    /\ calls[c].pc \in {"key", "subscribe"} /\ calls[c].sub = 0
           => ~KeyDiffers(sub)
    /\ calls[c].pc = "subscribe" => calls[c].sub = 0

HeldOK == \A c \in Calls : Held(c)

\* The identity shown last is registered with a good subscription.
Registered ==
    Good(sub) /\ server[current] = sub /\ byAddr[current] = sub

\* Call c will register it unless it fails.
Registers(c) ==
    \/ /\ calls[c].pc \in Asking /\ calls[c].inbox = current
       /\ calls[c].pc = "post" => calls[c].addr = current
    \/ /\ calls[c].pc = "address" /\ calls[c].addr = current
       /\ server[current] = sub

UnderWay ==
    perm = "granted" /\ ~failed
        => Registered \/ \E c \in Calls : Registers(c)

\* The inductive invariant.
IInv == TypeOK /\ HeldOK /\ RegisteredIsLive /\ UnderWay

-----------------------------------------------------------------------------
(* Free slots.                                                             *)

\* A set of natural numbers has a least one.
LEMMA Least ==
    ASSUME NEW S \in SUBSET Nat, S # {}
    PROVE  \E m \in S : \A n \in S : m <= n
<1> DEFINE R == OpToRel(<, Nat)
<1>1. IsWellFoundedOn(R, Nat)
  BY NatLessThanWellFounded
<1>2. IsWellFoundedOn(R, S)
  BY <1>1, IsWellFoundedOnSubset
<1>3. \A m, n \in Nat : n < m => <<n, m>> \in R
  BY DEF OpToRel
<1> HIDE DEF R
<1>4. \E m \in S : \A n \in S : ~(<<n, m>> \in R)
  BY <1>2, WFMin
<1>5. PICK m \in S : \A n \in S : ~(<<n, m>> \in R)
  BY <1>4
<1>6. ASSUME NEW n \in S PROVE m <= n
  <2>1. m \in Nat /\ n \in Nat /\ ~(n < m)
    BY <1>3, <1>5
  <2> QED BY <2>1
<1> QED BY <1>6

\* If there is a free slot, one new call gets into one.
LEMMA OneCalled ==
    ASSUME FreeCalls # {}, NEW call
    PROVE  \E c \in Calls : Called(call, 1)[c] = call
<1>1. FreeCalls \in SUBSET Nat
  BY DEF FreeCalls, Calls
<1>2. PICK c \in FreeCalls : \A f \in FreeCalls : c <= f
  BY <1>1, Least
<1>3. {f \in FreeCalls : f <= c} = {c}
  <2>1. \A f \in FreeCalls : f \in Nat /\ c \in Nat /\ c <= f
    BY <1>1, <1>2
  <2> QED BY <2>1
<1>4. Cardinality({f \in FreeCalls : f <= c}) = 1
  BY <1>3, FS_Singleton
<1>5. c \in Calls
  BY DEF FreeCalls
<1>6. Called(call, 1)[c] = call
  BY <1>4, <1>5 DEF Called
<1> QED BY <1>5, <1>6

\* New calls leave those in flight alone.
LEMMA CalledKeeps ==
    ASSUME NEW call, NEW n, NEW c \in Calls
    PROVE  Called(call, n)[c] \in {call, calls[c]}
        /\ (calls[c] # NoCall => Called(call, n)[c] = calls[c])
BY DEF Called, FreeCalls

-----------------------------------------------------------------------------
(* A call goes on.                                                         *)

\* The records of calls have their fields.
LEMMA CallFields ==
    ASSUME NEW i \in Inboxes \cup {NoInbox}
    PROVE  /\ NoCall \in CallType /\ NoCall.pc = "idle" /\ NoCall.sub = 0
           /\ Ready(i) \in CallType /\ Ready(i).pc = "ready"
           /\ Ready(i).inbox = i /\ Ready(i).sub = 0
           /\ [NoCall EXCEPT !.pc = "prompt"] \in CallType
           /\ [NoCall EXCEPT !.pc = "prompt"].pc = "prompt"
           /\ [NoCall EXCEPT !.pc = "prompt"].sub = 0
BY DEF NoCall, Ready, CallType, CallPCs, Subs

\* A call that is about to post.
LEMMA PostingFields ==
    ASSUME NEW c, calls[c] \in CallType, NEW s \in Subs, current \in Inboxes
    PROVE  /\ Posting(c, s) \in CallType /\ Posting(c, s).pc = "post"
           /\ Posting(c, s).sub = s /\ Posting(c, s).inbox = calls[c].inbox
           /\ Posting(c, s).addr = current
BY DEF Posting, CallType, CallPCs

\* What a call that goes on becomes.
LEMMA CallGoesOn ==
    ASSUME TypeOK, NEW c \in Calls, Progress(c)
    PROVE  \E to \in CallType :
              /\ CallStep(c, calls[c].pc, to)
              /\ \/ /\ Prompted(c)
                    /\ \/ to = NoCall /\ perm' # "granted"
                       \/ to = Ready(current)
                 \/ /\ GetSubscription(c) /\ to.pc = "key" /\ to.sub = sub
                    /\ to.inbox = calls[c].inbox
                 \/ /\ GetKey(c) /\ to.pc = AfterKey(calls[c].sub)
                    /\ to.sub = calls[c].sub /\ to.inbox = calls[c].inbox
                    /\ to.pc = "post" => to.addr = current
                 \/ /\ Unsubscribe(c) /\ to.pc = "subscribe" /\ to.sub = 0
                    /\ to.inbox = calls[c].inbox
                 \/ /\ Subscribe(c) /\ to.pc = "post" /\ to.sub = Subscribed
                    /\ to.inbox = calls[c].inbox /\ to.addr = current
                 \/ /\ PostSubscription(c) /\ to.pc = "address"
                    /\ to.sub = calls[c].sub /\ to.addr = calls[c].addr
                 \/ PutAddress(c) /\ to = NoCall
<1>0. calls[c] \in CallType /\ current \in Inboxes /\ sub \in Subs
      /\ calls[c].sub \in Subs
  BY DEF TypeOK, CallType
<1>1. CASE Prompted(c)
  BY <1>0, <1>1, CallFields DEF Prompted, CallStep
<1>2. CASE GetSubscription(c)
  <2> DEFINE to == [calls[c] EXCEPT !.pc = "key", !.sub = sub]
  <2>1. to \in CallType /\ to.pc = "key" /\ to.sub = sub /\ to.inbox = calls[c].inbox
    BY <1>0 DEF CallType, CallPCs
  <2> QED BY <1>2, <2>1 DEF GetSubscription, CallStep
<1>3. CASE GetKey(c)
  <2>1. AfterKey(calls[c].sub) \in {"unsubscribe", "subscribe", "post"}
    BY DEF AfterKey
  <2>2. CASE AfterKey(calls[c].sub) = "post"
    <3>1. PICK u : u = Posting(c, calls[c].sub)
      OBVIOUS
    <3>2. /\ u \in CallType /\ u.pc = "post" /\ u.sub = calls[c].sub
          /\ u.inbox = calls[c].inbox /\ u.addr = current
      BY <1>0, <3>1, PostingFields
    <3>3. CallStep(c, calls[c].pc, u)
      BY <1>3, <2>2, <3>1 DEF GetKey, CallStep
    <3> QED BY <1>3, <2>2, <3>2, <3>3
  <2>3. CASE AfterKey(calls[c].sub) \in {"unsubscribe", "subscribe"}
    <3>1. PICK u : u = [calls[c] EXCEPT !.pc = AfterKey(calls[c].sub)]
      OBVIOUS
    <3>2. /\ u \in CallType /\ u.pc = AfterKey(calls[c].sub)
          /\ u.sub = calls[c].sub /\ u.inbox = calls[c].inbox
      BY <1>0, <2>1, <3>1 DEF CallType, CallPCs
    <3>3. CallStep(c, calls[c].pc, u)
      BY <1>3, <2>3, <3>1 DEF GetKey, CallStep
    <3> QED BY <1>3, <2>3, <3>2, <3>3
  <2> QED BY <2>1, <2>2, <2>3
<1>4. CASE Unsubscribe(c)
  <2> DEFINE to == [calls[c] EXCEPT !.pc = "subscribe", !.sub = 0]
  <2>1. to \in CallType /\ to.pc = "subscribe" /\ to.sub = 0 /\ to.inbox = calls[c].inbox
    BY <1>0 DEF CallType, CallPCs, Subs
  <2> QED BY <1>4, <2>1 DEF Unsubscribe, CallStep
<1>5. CASE Subscribe(c)
  <2> DEFINE to == Posting(c, Subscribed)
  <2>1. Subscribed \in Subs
    BY <1>0 DEF Subscribed, Subs
  <2>2. to \in CallType /\ to.pc = "post" /\ to.sub = Subscribed
        /\ to.inbox = calls[c].inbox /\ to.addr = current
    BY <1>0, <2>1, PostingFields
  <2> QED BY <1>5, <2>2 DEF Subscribe, CallStep
<1>6. CASE PostSubscription(c)
  <2> DEFINE to == [calls[c] EXCEPT !.pc = "address"]
  <2>1. to \in CallType /\ to.pc = "address" /\ to.sub = calls[c].sub
        /\ to.addr = calls[c].addr
    BY <1>0 DEF CallType, CallPCs
  <2> QED BY <1>6, <2>1 DEF PostSubscription, CallStep
<1>7. CASE PutAddress(c)
  BY <1>0, <1>7, CallFields DEF PutAddress, CallStep
<1> QED
  BY <1>1, <1>2, <1>3, <1>4, <1>5, <1>6, <1>7 DEF Progress

\* The subscriptions a call deals with, and that a good one stays.
LEMMA GoodStays ==
    ASSUME TypeOK, HeldOK, NEW c \in Calls, Progress(c)
    PROVE  /\ sub' \in Subs /\ stale' = stale
           /\ Good(sub) => sub' = sub
           /\ ~KeyDiffers(sub) => ~KeyDiffers(sub)'
           /\ sub' # sub => (sub = 1 /\ stale /\ sub' = 0) \/ (sub = 0 /\ sub' = 2)
<1>1. CASE Unsubscribe(c)
  BY <1>1 DEF Unsubscribe, CallStep, HeldOK, Held, KeyDiffers, Good, TypeOK, Subs
<1>2. CASE Subscribe(c)
  BY <1>2 DEF Subscribe, CallStep, Subscribed, KeyDiffers, Good, TypeOK, Subs
<1>3. CASE UNCHANGED <<sub, stale>>
  BY <1>3 DEF TypeOK, KeyDiffers, Good
<1> QED
  BY <1>1, <1>2, <1>3 DEF Progress, Prompted, GetSubscription, GetKey,
     PostSubscription, PutAddress, CallStep

\* The step of one call keeps what is known of the others.
LEMMA OthersKeepHeld ==
    ASSUME TypeOK, HeldOK, NEW c \in Calls, Progress(c), NEW d \in Calls,
           calls'[d] = calls[d]
    PROVE  Held(d)'
<1> DEFINE held == calls[d].sub
<1>1. stale' = stale /\ (Good(sub) => sub' = sub)
      /\ (~KeyDiffers(sub) => ~KeyDiffers(sub)')
  BY GoodStays
<1>2. calls'[d].sub = held
  OBVIOUS
<1>3. Good(held) => sub = held /\ Good(sub)
  BY DEF HeldOK, Held
<1>4. (Good(held) <=> Good(held)') /\ (KeyDiffers(held) <=> KeyDiffers(held)')
  BY <1>1, <1>2 DEF Good, KeyDiffers
<1> QED
  BY <1>1, <1>2, <1>3, <1>4 DEF HeldOK, Held

\* A call that goes on keeps the types.
LEMMA ProgressKeepsTypes ==
    ASSUME TypeOK, HeldOK, NEW c \in Calls, Progress(c)
    PROVE  TypeOK'
<1>0. /\ PushRegistrationAssumption /\ current \in Inboxes
      /\ calls[c] \in CallType
  BY PushRegistrationAssumption DEF TypeOK
<1>1. PICK to \in CallType :
        /\ CallStep(c, calls[c].pc, to)
        /\ to.pc = "post" => /\ to.inbox = calls[c].inbox
                             /\ calls[c].pc \in Asking /\ to.addr = current
        /\ to.pc = "address" => to.addr = calls[c].addr /\ calls[c].pc = "post"
  <2>1. PICK to \in CallType :
              /\ CallStep(c, calls[c].pc, to)
              /\ \/ to = NoCall \/ to = Ready(current) \/ to.pc = "key"
                 \/ /\ GetKey(c) /\ to.pc = AfterKey(calls[c].sub)
                    /\ to.inbox = calls[c].inbox
                    /\ to.pc = "post" => to.addr = current
                 \/ to.pc = "subscribe"
                 \/ /\ Subscribe(c) /\ to.pc = "post"
                    /\ to.inbox = calls[c].inbox /\ to.addr = current
                 \/ /\ PostSubscription(c) /\ to.pc = "address"
                    /\ to.addr = calls[c].addr
    BY CallGoesOn
  <2>2. /\ GetKey(c) \/ Subscribe(c) => calls[c].pc \in Asking
        /\ PostSubscription(c) => calls[c].pc = "post"
    BY DEF GetKey, Subscribe, PostSubscription, CallStep, Asking
  <2>3. AfterKey(calls[c].sub) # "address"
    BY DEF AfterKey
  <2> QED BY <1>0, <2>1, <2>2, <2>3, CallFields
<1>2. calls' \in [Calls -> CallType]
  BY <1>1 DEF CallStep, TypeOK
<1>3. ASSUME NEW d \in Calls
      PROVE  /\ calls'[d].pc = "post" => calls'[d].inbox # NoInbox
             /\ calls'[d].pc \in {"post", "address"} => calls'[d].addr # NoInbox
  <2>1. calls' = [calls EXCEPT ![c] = to]
    BY <1>1 DEF CallStep
  <2>2. CASE d = c
    <3>1. calls'[d] = to
      BY <2>1, <2>2 DEF TypeOK
    <3>2. calls[c].pc = "post" => calls[c].addr # NoInbox
      BY DEF TypeOK
    <3> QED BY <1>0, <1>1, <3>1, <3>2 DEF HeldOK, Held, PushRegistrationAssumption
  <2>3. CASE d # c
    BY <2>1, <2>3 DEF TypeOK
  <2> QED BY <2>2, <2>3
<1>4. UNCHANGED <<current, armed, stale, turns>> /\ sub' \in Subs
  BY <1>1, GoodStays DEF CallStep
<1>5. perm' \in {"default", "granted", "denied"} /\ failed' = failed
  <2>1. CASE Prompted(c)
    BY <2>1 DEF Prompted, TypeOK
  <2>2. CASE UNCHANGED <<perm, failed>>
    BY <2>2 DEF TypeOK
  <2> QED BY <2>1, <2>2 DEF Progress, GetSubscription, GetKey, Unsubscribe,
             Subscribe, PostSubscription, PutAddress, Prompted
<1>6. server' \in [Inboxes -> Subs] /\ byAddr' \in [Inboxes -> Subs]
  <2>1. calls[c].sub \in Subs
    BY <1>0 DEF CallType
  <2>2. CASE PostSubscription(c)
    BY <2>1, <2>2 DEF PostSubscription, TypeOK
  <2>3. CASE PutAddress(c)
    BY <2>1, <2>3 DEF PutAddress, TypeOK
  <2>4. CASE UNCHANGED store
    BY <2>4 DEF store, TypeOK
  <2> QED BY <2>2, <2>3, <2>4 DEF Progress, Prompted, GetSubscription, GetKey,
             Unsubscribe, Subscribe
<1> QED
  BY <1>2, <1>3, <1>4, <1>5, <1>6 DEF TypeOK

\* A call that goes on keeps what is known of the calls.
LEMMA ProgressKeepsHeld ==
    ASSUME TypeOK, HeldOK, NEW c \in Calls, Progress(c)
    PROVE  HeldOK'
<1>0. /\ PushRegistrationAssumption /\ current \in Inboxes /\ sub \in Subs
      /\ calls \in [Calls -> CallType] /\ Held(c)
  BY PushRegistrationAssumption DEF TypeOK, HeldOK
<1>1. /\ stale' = stale /\ (Good(sub) => sub' = sub)
      /\ (~KeyDiffers(sub) => ~KeyDiffers(sub)')
  BY GoodStays
<1>2. PICK to \in CallType :
        /\ CallStep(c, calls[c].pc, to)
        /\ \/ to = NoCall \/ to = Ready(current)
           \/ /\ GetSubscription(c) /\ to.pc = "key" /\ to.sub = sub
              /\ to.inbox = calls[c].inbox
           \/ /\ GetKey(c) /\ to.pc = AfterKey(calls[c].sub)
              /\ to.sub = calls[c].sub /\ to.inbox = calls[c].inbox
           \/ /\ Unsubscribe(c) /\ to.pc = "subscribe" /\ to.sub = 0
              /\ to.inbox = calls[c].inbox
           \/ /\ Subscribe(c) /\ to.pc = "post" /\ to.sub = Subscribed
              /\ to.inbox = calls[c].inbox
           \/ /\ PostSubscription(c) /\ to.pc = "address"
              /\ to.sub = calls[c].sub
  BY CallGoesOn
<1>3. calls'[c] = to
  BY <1>0, <1>2 DEF CallStep
<1>4. Held(c)'
  <2>1. CASE to = NoCall \/ to = Ready(current)
    <3>1. /\ to.pc = "idle" \/ (to.pc = "ready" /\ to.inbox = current)
          /\ to.sub = 0
      BY <1>0, <2>1, CallFields
    <3> QED BY <1>0, <1>3, <3>1 DEF Held, Good, Asking, PushRegistrationAssumption
  <2>2. CASE GetSubscription(c) /\ to.pc = "key" /\ to.sub = sub
             /\ to.inbox = calls[c].inbox
    BY <1>0, <1>1, <1>3, <2>2 DEF GetSubscription, CallStep, Held, Asking, Good,
       KeyDiffers
  <2>3. CASE GetKey(c) /\ to.pc = AfterKey(calls[c].sub)
             /\ to.sub = calls[c].sub /\ to.inbox = calls[c].inbox
    BY <1>0, <1>1, <1>3, <2>3 DEF GetKey, CallStep, Held, Asking, Good,
       KeyDiffers, AfterKey
  <2>4. CASE Unsubscribe(c) /\ to.pc = "subscribe" /\ to.sub = 0
             /\ to.inbox = calls[c].inbox
    <3>1. calls[c].pc = "unsubscribe" /\ calls[c].sub = 1
          /\ sub' = IF sub = 1 THEN 0 ELSE sub
      BY <1>0, <2>4 DEF Unsubscribe, CallStep, Held, KeyDiffers
    <3> QED BY <1>0, <1>1, <1>3, <2>4, <3>1 DEF Held, Asking, Good, KeyDiffers
  <2>5. CASE Subscribe(c) /\ to.pc = "post" /\ to.sub = Subscribed
             /\ to.inbox = calls[c].inbox
    <3>1. /\ calls[c].pc = "subscribe" /\ sub' = Subscribed
          /\ ~KeyDiffers(sub)
      BY <1>0, <2>5 DEF Subscribe, CallStep, Held
    <3> QED BY <1>0, <1>1, <1>3, <2>5, <3>1 DEF Held, Asking, Good, KeyDiffers,
            Subscribed
  <2>6. CASE PostSubscription(c) /\ to.pc = "address" /\ to.sub = calls[c].sub
    BY <1>0, <1>1, <1>3, <2>6 DEF PostSubscription, CallStep, Held, Asking, Good,
       KeyDiffers
  <2> QED BY <1>2, <2>1, <2>2, <2>3, <2>4, <2>5, <2>6
<1>5. ASSUME NEW d \in Calls \ {c} PROVE Held(d)'
  <2>1. calls'[d] = calls[d]
    BY <1>0, <1>2 DEF CallStep
  <2> QED BY <2>1, OthersKeepHeld
<1> QED
  BY <1>4, <1>5 DEF HeldOK

\* A call that goes on stores nothing the page has replaced.
LEMMA ProgressKeepsLive ==
    ASSUME TypeOK, HeldOK, RegisteredIsLive, NEW c \in Calls, Progress(c)
    PROVE  RegisteredIsLive'
<1> DEFINE Live(d) == d \in {0, sub} \/ (d = 1 /\ stale)
<1>0. sub \in Subs /\ Held(c) /\ server \in [Inboxes -> Subs]
      /\ byAddr \in [Inboxes -> Subs]
  BY DEF TypeOK, HeldOK
<1>1. /\ stale' = stale
      /\ sub' # sub => (sub = 1 /\ stale /\ sub' = 0) \/ (sub = 0 /\ sub' = 2)
  BY GoodStays
<1>2. ASSUME NEW i \in Inboxes
      PROVE  Live(server[i]) /\ Live(byAddr[i])
  BY <1>2 DEF RegisteredIsLive
<1>3. CASE PostSubscription(c)
  <2>1. calls[c].sub = sub /\ sub' = sub
        /\ server' = [server EXCEPT ![calls[c].inbox] = sub] /\ byAddr' = byAddr
    BY <1>0, <1>3 DEF PostSubscription, CallStep, Held
  <2> QED BY <1>0, <1>1, <1>2, <2>1 DEF RegisteredIsLive
<1>4. CASE PutAddress(c)
  <2>1. calls[c].sub = sub /\ sub' = sub
        /\ byAddr' = [byAddr EXCEPT ![calls[c].addr] = sub] /\ server' = server
    BY <1>0, <1>4 DEF PutAddress, CallStep, Held
  <2> QED BY <1>0, <1>1, <1>2, <2>1 DEF RegisteredIsLive
<1>5. CASE UNCHANGED store
  BY <1>1, <1>2, <1>5 DEF store, RegisteredIsLive
<1> QED
  BY <1>3, <1>4, <1>5 DEF Progress, Prompted, GetSubscription, GetKey,
     Unsubscribe, Subscribe

\* Unless it fails, the registration of the identity shown last goes on.
LEMMA ProgressKeepsUnderWay ==
    ASSUME TypeOK, HeldOK, UnderWay, NEW c \in Calls, Progress(c)
    PROVE  UnderWay'
<1>0. /\ PushRegistrationAssumption /\ current \in Inboxes /\ sub \in Subs
      /\ calls \in [Calls -> CallType] /\ Held(c) /\ current' = current
      /\ server \in [Inboxes -> Subs] /\ byAddr \in [Inboxes -> Subs]
  BY PushRegistrationAssumption, CallGoesOn DEF TypeOK, HeldOK, CallStep
<1>1. /\ stale' = stale /\ (Good(sub) => sub' = sub)
  BY GoodStays
<1> SUFFICES ASSUME perm' = "granted", ~failed'
             PROVE  Registered' \/ \E d \in Calls : Registers(d)'
  BY DEF UnderWay
<1>2. PICK to \in CallType :
        /\ CallStep(c, calls[c].pc, to)
        /\ \/ Prompted(c) /\ to = Ready(current)
           \/ GetSubscription(c) /\ to.pc = "key" /\ to.inbox = calls[c].inbox
           \/ /\ GetKey(c) /\ to.pc = AfterKey(calls[c].sub)
              /\ to.inbox = calls[c].inbox
              /\ to.pc = "post" => to.addr = current
           \/ Unsubscribe(c) /\ to.pc = "subscribe" /\ to.inbox = calls[c].inbox
           \/ /\ Subscribe(c) /\ to.pc = "post"
              /\ to.inbox = calls[c].inbox /\ to.addr = current
           \/ /\ PostSubscription(c) /\ to.pc = "address"
              /\ to.sub = calls[c].sub /\ to.addr = calls[c].addr
           \/ PutAddress(c) /\ to = NoCall
  BY CallGoesOn
<1>3. calls'[c] = to /\ \A d \in Calls \ {c} : calls'[d] = calls[d]
  BY <1>0, <1>2 DEF CallStep
<1>4. CASE Prompted(c)
  <2>1. to = Ready(current)
    BY <1>2, <1>4 DEF Prompted, GetSubscription, GetKey, Unsubscribe, Subscribe,
       PostSubscription, PutAddress, CallStep
  <2>2. Registers(c)'
    BY <1>0, <1>3, <2>1, CallFields DEF Registers, Asking
  <2> QED BY <2>2
<1>5. CASE ~Prompted(c)
  <2>1. perm = "granted" /\ ~failed
    BY <1>2, <1>5 DEF GetSubscription, GetKey, Unsubscribe, Subscribe,
       PostSubscription, PutAddress
  <2>2. CASE Registered
    BY <1>0, <1>1, <1>2, <1>5, <2>2 DEF Registered, Good, KeyDiffers, Held,
       GetSubscription, GetKey, Unsubscribe, Subscribe, PostSubscription,
       PutAddress, CallStep, store
  <2>3. ASSUME NEW d \in Calls \ {c}, Registers(d) PROVE Registers(d)'
    <3>1. CASE /\ calls[d].pc \in Asking /\ calls[d].inbox = current
               /\ calls[d].pc = "post" => calls[d].addr = current
      BY <1>0, <1>3, <3>1 DEF Registers
    <3>2. CASE calls[d].pc = "address" /\ calls[d].addr = current
               /\ server[current] = sub
      <4>1. Good(sub)
        BY <3>2 DEF HeldOK, Held
      <4>2. server'[current] = sub' /\ sub' = sub
        BY <1>0, <1>1, <1>2, <1>5, <3>2, <4>1 DEF Held, GetSubscription, GetKey,
           Unsubscribe, Subscribe, PostSubscription, PutAddress, CallStep, store
      <4> QED BY <1>0, <1>3, <3>2, <4>2 DEF Registers
    <3> QED BY <2>3, <3>1, <3>2 DEF Registers
  <2>4. CASE Registers(c)
    <3>1. CASE PostSubscription(c)
      <4>1. /\ calls[c].pc = "post" /\ calls[c].inbox = current
            /\ to.pc = "address" /\ to.addr = current
        BY <1>2, <2>4, <3>1 DEF Registers, PostSubscription, CallStep, Prompted,
           GetSubscription, GetKey, Unsubscribe, Subscribe, PutAddress
      <4>2. server'[current] = sub /\ sub' = sub
        BY <1>0, <3>1, <4>1 DEF PostSubscription, Held
      <4>3. Registers(c)'
        BY <1>0, <1>3, <4>1, <4>2 DEF Registers
      <4> QED BY <4>3
    <3>2. CASE PutAddress(c)
      <4>1. /\ calls[c].addr = current /\ server[current] = sub /\ Good(sub)
            /\ calls[c].sub = sub
        BY <1>0, <2>4, <3>2 DEF PutAddress, CallStep, Registers, Asking, Held
      <4>2. Registered'
        BY <1>0, <1>1, <3>2, <4>1 DEF PutAddress, Registered, Good, KeyDiffers
      <4> QED BY <4>2
    <3>3. CASE ~PostSubscription(c) /\ ~PutAddress(c)
      <4>1. calls[c].pc \in Asking /\ calls[c].inbox = current
        BY <1>2, <1>5, <2>4, <3>3 DEF Registers, GetSubscription, GetKey,
           Unsubscribe, Subscribe, CallStep, Asking
      <4>2. /\ to.pc \in Asking /\ to.inbox = current
            /\ to.pc = "post" => to.addr = current
        BY <1>2, <1>5, <3>3, <4>1 DEF AfterKey, Asking
      <4>3. Registers(c)'
        BY <1>0, <1>3, <4>2 DEF Registers
      <4> QED BY <4>3
    <3> QED BY <3>1, <3>2, <3>3
  <2> QED BY <2>1, <2>2, <2>3, <2>4 DEF UnderWay
<1> QED BY <1>4, <1>5

-----------------------------------------------------------------------------
(* The other steps.                                                        *)

\* A call that fails keeps the invariant.
LEMMA FailureKeeps ==
    ASSUME IInv, NEW c \in Calls, CallFails(c)
    PROVE  IInv'
<1>0. /\ TypeOK /\ HeldOK /\ RegisteredIsLive
  BY DEF IInv
<1>1. /\ calls' = [calls EXCEPT ![c] = NoCall] /\ failed' = TRUE
      /\ UNCHANGED <<current, armed, stale, turns, perm, sub, store>>
  BY DEF CallFails, CallStep
<1>2. TypeOK'
  BY <1>0, <1>1, CallFields DEF TypeOK, store
<1>3. ASSUME NEW d \in Calls PROVE Held(d)'
  <2>1. calls'[d] = NoCall \/ calls'[d] = calls[d]
    BY <1>0, <1>1 DEF TypeOK
  <2> QED BY <1>0, <1>1, <2>1, CallFields DEF HeldOK, Held, Good, KeyDiffers, Asking
<1>4. RegisteredIsLive' /\ UnderWay'
  BY <1>0, <1>1 DEF RegisteredIsLive, UnderWay, store
<1> QED BY <1>2, <1>3, <1>4 DEF IInv, HeldOK

\* New calls, of an update or a tap, keep the types and what calls hold.
LEMMA NewCallsKeep ==
    ASSUME IInv, NEW call \in CallType, NEW n,
           call.pc = "prompt" \/ (call.pc = "ready" /\ call.inbox # NoInbox),
           call.sub = 0, calls' = Called(call, n), UNCHANGED <<browser, store>>
    PROVE  calls' \in [Calls -> CallType] /\ HeldOK' /\ RegisteredIsLive'
        /\ \A c \in Calls :
              /\ calls'[c].pc = "post" => calls'[c].inbox # NoInbox
              /\ calls'[c].pc \in {"post", "address"} => calls'[c].addr # NoInbox
<1>0. /\ TypeOK /\ HeldOK /\ RegisteredIsLive
  BY DEF IInv
<1>1. ASSUME NEW c \in Calls PROVE calls'[c] \in {call, calls[c]}
  BY CalledKeeps
<1>2. calls' \in [Calls -> CallType]
  <2>1. calls' = [c \in Calls |-> calls'[c]]
    BY DEF Called
  <2>2. \A c \in Calls : calls'[c] \in CallType
    BY <1>0, <1>1 DEF TypeOK
  <2> QED BY <2>1, <2>2
<1>3. ASSUME NEW c \in Calls PROVE Held(c)'
  BY <1>0, <1>1 DEF HeldOK, Held, Good, KeyDiffers, Asking, browser
<1>4. RegisteredIsLive'
  BY <1>0 DEF RegisteredIsLive, browser, store
<1>5. \A c \in Calls :
         /\ calls'[c].pc = "post" => calls'[c].inbox # NoInbox
         /\ calls'[c].pc \in {"post", "address"} => calls'[c].addr # NoInbox
  BY <1>0, <1>1 DEF TypeOK
<1> QED BY <1>2, <1>3, <1>4, <1>5 DEF HeldOK

\* An identity update keeps the invariant: it starts the call it needs.
LEMMA UpdateKeeps ==
    ASSUME IInv, Update
    PROVE  IInv'
<1>0. /\ TypeOK /\ HeldOK /\ RegisteredIsLive /\ PushRegistrationAssumption
  BY PushRegistrationAssumption DEF IInv
<1>1. PICK i \in Inboxes :
        /\ turns < MaxTurns /\ turns' = turns + 1 /\ current' = i
        /\ perm = "granted" => FreeCalls # {}
        /\ calls' = IF perm = "granted" THEN Called(Ready(i), 1) ELSE calls
        /\ armed' = IF perm = "default" THEN armed + 1 ELSE armed
        /\ failed' = FALSE
        /\ UNCHANGED <<browser, store>>
  BY DEF Update
<1>2. turns' \in 0..MaxTurns /\ armed' \in Nat
  BY <1>0, <1>1 DEF TypeOK, PushRegistrationAssumption
<1>3. CASE perm = "granted"
  <2>1. /\ Ready(i) \in CallType /\ Ready(i).pc = "ready" /\ Ready(i).inbox = i
        /\ Ready(i).sub = 0 /\ i # NoInbox
    BY <1>0, CallFields DEF PushRegistrationAssumption
  <2>2. calls' = Called(Ready(i), 1)
    BY <1>1, <1>3
  <2>3. /\ calls' \in [Calls -> CallType] /\ HeldOK' /\ RegisteredIsLive'
        /\ \A c \in Calls :
              /\ calls'[c].pc = "post" => calls'[c].inbox # NoInbox
              /\ calls'[c].pc \in {"post", "address"} => calls'[c].addr # NoInbox
    BY <1>1, <2>1, <2>2, NewCallsKeep
  <2>4. PICK c \in Calls : calls'[c] = Ready(i)
    BY <1>1, <1>3, <2>2, OneCalled
  <2>5. Registers(c)'
    BY <1>1, <2>1, <2>4 DEF Registers, Asking
  <2>6. UnderWay'
    BY <2>5 DEF UnderWay
  <2>7. TypeOK'
    BY <1>0, <1>1, <1>2, <2>3 DEF TypeOK, browser, store
  <2> QED BY <2>3, <2>6, <2>7 DEF IInv
<1>4. CASE perm # "granted"
  <2>1. calls' = calls /\ perm' = perm
    BY <1>1, <1>4 DEF browser
  <2>2. TypeOK'
    BY <1>0, <1>1, <1>2, <2>1 DEF TypeOK, browser, store
  <2>3. HeldOK'
    BY <1>0, <1>1, <2>1 DEF HeldOK, Held, Good, KeyDiffers, browser
  <2>4. RegisteredIsLive' /\ UnderWay'
    BY <1>0, <1>1, <1>4, <2>1 DEF RegisteredIsLive, UnderWay, browser, store
  <2> QED BY <2>2, <2>3, <2>4 DEF IInv
<1> QED BY <1>3, <1>4

\* A tap starts calls and leaves those in flight alone.
LEMMA TapKeeps ==
    ASSUME IInv, Tap
    PROVE  IInv'
<1> DEFINE call == [NoCall EXCEPT !.pc = "prompt"]
<1>0. TypeOK /\ UnderWay /\ NoCall.pc = "idle"
  BY CallFields DEF IInv
<1>1. /\ call \in CallType /\ call.pc = "prompt" /\ call.sub = 0
      /\ calls' = Called(call, armed) /\ armed' = 0
      /\ UNCHANGED <<current, browser, store, failed, turns>>
  BY CallFields DEF Tap
<1> HIDE DEF call
<1>2. /\ calls' \in [Calls -> CallType] /\ HeldOK' /\ RegisteredIsLive'
      /\ \A c \in Calls :
             /\ calls'[c].pc = "post" => calls'[c].inbox # NoInbox
             /\ calls'[c].pc \in {"post", "address"} => calls'[c].addr # NoInbox
  BY <1>1, NewCallsKeep
<1>3. TypeOK'
  BY <1>0, <1>1, <1>2 DEF TypeOK, browser, store
<1>4. ASSUME NEW c \in Calls, Registers(c) PROVE Registers(c)'
  <2>1. calls[c] # NoCall
    BY <1>0, <1>4 DEF Registers, Asking
  <2>2. calls'[c] = calls[c]
    BY <1>1, <2>1, CalledKeeps
  <2> QED BY <1>1, <1>4, <2>2 DEF Registers, browser, store
<1>5. UnderWay'
  BY <1>0, <1>1, <1>4 DEF UnderWay, Registered, Good, KeyDiffers, browser, store
<1> QED BY <1>2, <1>3, <1>5 DEF IInv

\* A new page has no calls, and counts as one that failed.
LEMMA ReloadKeeps ==
    ASSUME IInv, Reload
    PROVE  IInv'
<1>0. TypeOK /\ RegisteredIsLive /\ PushRegistrationAssumption
  BY PushRegistrationAssumption DEF IInv
<1>1. /\ turns < MaxTurns /\ turns' = turns + 1 /\ armed' = 0
      /\ calls' = [c \in Calls |-> NoCall] /\ failed' = TRUE
      /\ UNCHANGED <<current, browser, store>>
  BY DEF Reload
<1>2. turns' \in 0..MaxTurns
  BY <1>0, <1>1 DEF TypeOK, PushRegistrationAssumption
<1>3. TypeOK'
  BY <1>0, <1>1, <1>2, CallFields DEF TypeOK, browser, store
<1>4. HeldOK'
  BY <1>1, CallFields DEF HeldOK, Held, Good, Asking
<1>5. RegisteredIsLive' /\ UnderWay'
  BY <1>0, <1>1 DEF RegisteredIsLive, UnderWay, browser, store
<1> QED BY <1>3, <1>4, <1>5 DEF IInv

-----------------------------------------------------------------------------

\* The invariant holds at the start.
LEMMA InitHolds ==
    ASSUME Init
    PROVE  IInv
<1>1. TypeOK
  BY PushRegistrationAssumption, CallFields
     DEF Init, TypeOK, Subs, PushRegistrationAssumption
<1>2. HeldOK
  BY CallFields DEF Init, HeldOK, Held, Good, Asking
<1>3. RegisteredIsLive
  BY DEF Init, RegisteredIsLive
<1>4. UnderWay
  BY DEF Init, UnderWay
<1> QED BY <1>1, <1>2, <1>3, <1>4 DEF IInv

\* The inductive invariant holds in every state of every behaviour.
THEOREM Invariance == Spec => []IInv
<1>1. Init => IInv
  BY InitHolds
<1>2. IInv /\ [Next]_vars => IInv'
  <2> SUFFICES ASSUME IInv, [Next]_vars PROVE IInv'
    OBVIOUS
  <2>1. ASSUME NEW c \in Calls, Progress(c) PROVE IInv'
    BY <2>1, ProgressKeepsTypes, ProgressKeepsHeld, ProgressKeepsLive,
       ProgressKeepsUnderWay DEF IInv
  <2>2. ASSUME NEW c \in Calls, CallFails(c) PROVE IInv'
    BY <2>2, FailureKeeps
  <2>3. CASE Update
    BY <2>3, UpdateKeeps
  <2>4. CASE Tap
    BY <2>4, TapKeeps
  <2>5. CASE Reload
    BY <2>5, ReloadKeeps
  <2>6. CASE UNCHANGED vars
    BY <2>6 DEF vars, browser, store, IInv, TypeOK, HeldOK, Held, Good, KeyDiffers,
       RegisteredIsLive, UnderWay, Registered, Registers
  <2> QED BY <2>1, <2>2, <2>3, <2>4, <2>5, <2>6 DEF Next
<1> QED BY <1>1, <1>2, PTL DEF Spec

\* Every variable of the registration has its type, and a call that posts
\* knows its inbox (xmesSubscribePush).
THEOREM TypeCorrect == Spec => []TypeOK
<1>1. IInv => TypeOK
  BY DEF IInv
<1> QED BY Invariance, <1>1, PTL

\* However calls of xmesSubscribePush overlap, the push worker's store holds no
\* subscription the page has replaced.
THEOREM StoredAreLive == Spec => []RegisteredIsLive
<1>1. IInv => RegisteredIsLive
  BY DEF IInv
<1> QED BY Invariance, <1>1, PTL

\* Calls that all end without a failure leave the identity shown last
\* registered with the browser's subscription and the server's key.
THEOREM RegisteredInTheEnd == Spec => []RegisteredWhenDone
<1>1. IInv => RegisteredWhenDone
  <2> SUFFICES ASSUME IInv, perm = "granted", ~failed,
                      \A c \in Calls : calls[c] = NoCall
               PROVE  Registered
    BY DEF RegisteredWhenDone, Registered, Good
  <2>1. \A c \in Calls : ~Registers(c)
    BY CallFields DEF Registers, Asking
  <2> QED BY <2>1 DEF IInv, UnderWay
<1> QED BY Invariance, <1>1, PTL
=============================================================================
