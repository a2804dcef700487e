-------------------------- MODULE PushWorkerProofs --------------------------
(***************************************************************************)
(* The block lists of the push worker hold what was blocked, and whom the  *)
(* block list excludes is not pushed to, for any number of inboxes, groups *)
(* and concurrent requests.  The invariant is IInv of PushWorker.          *)
(***************************************************************************)
EXTENDS PushWorker, TLAPS

-----------------------------------------------------------------------------
(* What the actions do, with the records they build left unexpanded.       *)

\* A request about subscriptions occupies a free slot.
LEMMA SubscriptionArrives ==
    ASSUME NEW s \in Slots, TypeOK, Subscribe(s) \/ Unsubscribe(s)
    PROVE  /\ calls[s] = NoCall
           /\ made' = made + 1
           /\ UNCHANGED <<store, alive, branches, history>>
           /\ \E c \in Calls : /\ c.kind \in {"subscribe", "unsubscribe"}
                               /\ c.mute = {}
                               /\ calls' = [calls EXCEPT ![s] = c]
<1>1. CASE Subscribe(s)
  <2>1. PICK i \in Inboxes \ Addresses, a \in Addresses \cup {NoInbox}, d \in alive :
             Start(s, [NoCall EXCEPT !.kind = "subscribe", !.inbox = i,
                                     !.address = a, !.device = d])
    BY <1>1 DEF Subscribe
  <2> DEFINE c == [NoCall EXCEPT !.kind = "subscribe", !.inbox = i,
                                 !.address = a, !.device = d]
  <2>2. c \in Calls /\ c.kind = "subscribe" /\ c.mute = {}
    BY PushAssumption DEF Calls, Requests, NoCall, Kinds, TypeOK
  <2> QED
    BY <1>1, <2>1, <2>2 DEF Start, Subscribe
<1>2. CASE Unsubscribe(s)
  <2>1. PICK i \in Inboxes \ Addresses, a \in Addresses \cup {NoInbox} :
             Start(s, [NoCall EXCEPT !.kind = "unsubscribe", !.inbox = i,
                                     !.address = a])
    BY <1>2 DEF Unsubscribe
  <2> DEFINE c == [NoCall EXCEPT !.kind = "unsubscribe", !.inbox = i,
                                 !.address = a]
  <2>2. c \in Calls /\ c.kind = "unsubscribe" /\ c.mute = {}
    BY PushAssumption DEF Calls, Requests, NoCall, Kinds
  <2> QED
    BY <1>2, <2>1, <2>2 DEF Start, Unsubscribe
<1> QED
  BY <1>1, <1>2

\* So does a change of a block list; it is raced if it meets another one.
LEMMA ListChangeArrives ==
    ASSUME NEW s \in Slots, BlockGroup(s) \/ UnblockGroup(s)
    PROVE  /\ calls[s] = NoCall
           /\ made' = made + 1
           /\ UNCHANGED <<store, alive, branches, registered, left, failed>>
           /\ \E c \in Calls :
                 /\ c.kind \in {"block", "unblock"} /\ c.step = "first"
                 /\ c.mute = {}
                 /\ calls' = [calls EXCEPT ![s] = c]
                 /\ raced' = raced \cup {i \in {c.inbox} :
                                           \E r \in Slots : ChangesList(r, i)}
<1>1. PICK kind \in {"block", "unblock"} : StartListChange(s, kind)
  BY DEF BlockGroup, UnblockGroup
<1>2. PICK inbox \in Inboxes \ Addresses, g \in Groups :
        /\ Start(s, [NoCall EXCEPT !.kind = kind, !.inbox = inbox, !.group = g])
        /\ raced' = raced \cup {i \in {inbox} : \E r \in Slots : ChangesList(r, i)}
        /\ UNCHANGED <<store, alive, branches, registered, left, failed>>
  BY <1>1 DEF StartListChange
<1> DEFINE c == [NoCall EXCEPT !.kind = kind, !.inbox = inbox, !.group = g]
<1>3. /\ c \in Calls /\ c.kind = kind /\ c.step = "first" /\ c.mute = {}
      /\ c.inbox = inbox
  BY PushAssumption DEF Calls, Requests, NoCall, Kinds
<1>4. calls[s] = NoCall /\ made' = made + 1 /\ calls' = [calls EXCEPT ![s] = c]
  BY <1>2 DEF Start
<1> HIDE DEF c
<1> QED
  BY <1>2, <1>3, <1>4

\* A notification begins, for every target, with the reads it needs.
LEMMA NotificationArrives ==
    ASSUME NEW s \in Slots, TypeOK, Notify(s)
    PROVE  /\ calls[s] = NoCall
           /\ made' = made + 1
           /\ UNCHANGED <<store, alive, history>>
           /\ \E c \in Calls, bs \in [Inboxes -> Branches] :
                 /\ c.kind = "notify" /\ c.inbox \in Inboxes
                 /\ c.about \in Groups
                 /\ c.mute = {i \in Inboxes : c.about \in left[i]}
                 /\ c.group \in {NoGroup, c.about}
                 /\ calls' = [calls EXCEPT ![s] = c]
                 /\ branches' = [branches EXCEPT ![s] = bs]
                 /\ \A i \in Inboxes :
                      \/ bs[i] = NoBranch
                      \/ bs[i].stage = "read" /\ bs[i].waits = Gets(c.group)
<1>1. PICK members \in SUBSET Inboxes, sender \in Inboxes, g \in Groups,
           field \in NotifyFields :
        LET group == IF field = "given" THEN g ELSE NoGroup IN
        /\ Start(s, [NoCall EXCEPT !.inbox = sender, !.group = group,
                       !.about = g, !.mute = {i \in Inboxes : g \in left[i]}])
        /\ branches' = [branches EXCEPT ![s] =
             [i \in Inboxes |->
                 IF i \in members \ {sender}
                 THEN [NoBranch EXCEPT !.stage = "read", !.waits = Gets(group)]
                 ELSE NoBranch]]
        /\ UNCHANGED <<store, alive, history>>
  BY DEF Notify
<1> DEFINE group == IF field = "given" THEN g ELSE NoGroup
           mute  == {i \in Inboxes : g \in left[i]}
           c     == [NoCall EXCEPT !.inbox = sender, !.group = group,
                                   !.about = g, !.mute = mute]
           b     == [NoBranch EXCEPT !.stage = "read", !.waits = Gets(group)]
           bs    == [i \in Inboxes |-> IF i \in members \ {sender} THEN b
                                                                  ELSE NoBranch]
<1>2. mute \in SUBSET Inboxes /\ group \in Groups \cup {NoGroup}
  OBVIOUS
<1>3. group \in {NoGroup, g}
  OBVIOUS
<1>4. calls[s] = NoCall /\ made' = made + 1 /\ calls' = [calls EXCEPT ![s] = c]
  BY <1>1 DEF Start
<1>5. branches' = [branches EXCEPT ![s] = bs]
  BY <1>1
<1>6. Gets(group) \in SUBSET {"sub", "blocked"}
  BY DEF Gets
<1>7. mute = {i \in Inboxes : g \in left[i]}
  OBVIOUS
<1> HIDE DEF group, mute
<1>8. /\ c \in Calls /\ c.kind = "notify" /\ c.inbox \in Inboxes /\ c.about = g
      /\ c.group = group /\ c.mute = mute
  BY <1>2, PushAssumption DEF Calls, Requests, NoCall, Kinds
<1>9. b \in Branches /\ b.stage = "read" /\ b.waits = Gets(group)
  BY <1>6 DEF Branches, NoBranch
<1>10. NoBranch \in Branches
  BY DEF Branches, NoBranch
<1> HIDE DEF c, b
<1>11. /\ bs \in [Inboxes -> Branches]
       /\ \A i \in Inboxes : bs[i] = NoBranch \/ bs[i] = b
  BY <1>9, <1>10
<1> HIDE DEF bs
<1>12. /\ c \in Calls /\ c.kind = "notify" /\ c.inbox \in Inboxes /\ c.about \in Groups
       /\ c.mute = {i \in Inboxes : c.about \in left[i]}
       /\ c.group \in {NoGroup, c.about}
       /\ \A i \in Inboxes :
            \/ bs[i] = NoBranch
            \/ bs[i].stage = "read" /\ bs[i].waits = Gets(c.group)
  BY <1>3, <1>7, <1>8, <1>9, <1>11
<1>13. UNCHANGED <<store, alive, history>>
  BY <1>1
<1> QED
  BY <1>4, <1>5, <1>11, <1>12, <1>13

\* Answering a change of a block list ends it, for whom it lets in again also
\* the exclusion from notifications, and leaves the other requests alone.
LEMMA ListAnswered ==
    ASSUME NEW s \in Slots, TypeOK, AnswerList(s)
    PROVE  /\ calls' \in [Slots -> Calls]
           /\ calls'[s] = NoCall
           /\ left' = [left EXCEPT ![calls[s].inbox] =
                         IF calls[s].kind = "block"
                         THEN left[calls[s].inbox] \cup {calls[s].group}
                         ELSE left[calls[s].inbox] \ {calls[s].group}]
           /\ \A r \in Slots \ {s} :
                 /\ calls'[r].kind = calls[r].kind
                 /\ calls'[r].inbox = calls[r].inbox
                 /\ calls'[r].group = calls[r].group
                 /\ calls'[r].about = calls[r].about
                 /\ calls'[r].step = calls[r].step
                 /\ calls'[r].read = calls[r].read
                 /\ calls'[r].mute =
                      IF calls[s].kind = "unblock" /\ calls[r].about = calls[s].group
                      THEN calls[r].mute \ {calls[s].inbox} ELSE calls[r].mute
<1>1. NoCall \in Calls
  BY PushAssumption DEF NoCall, Calls, Requests, Kinds
<1>2. \A r \in Slots : calls[r] \in Calls
  BY DEF TypeOK
<1> DEFINE Without(c, i) == [c EXCEPT !.mute = @ \ {i}]
<1>3. ASSUME NEW c \in Calls, NEW i
      PROVE  /\ Without(c, i) \in Calls
             /\ Without(c, i).kind = c.kind /\ Without(c, i).inbox = c.inbox
             /\ Without(c, i).group = c.group /\ Without(c, i).about = c.about
             /\ Without(c, i).step = c.step /\ Without(c, i).read = c.read
             /\ Without(c, i).mute = c.mute \ {i}
  BY <1>3 DEF Calls, Requests
<1>4. \A r \in Slots : calls'[r] =
          IF r = s THEN NoCall
          ELSE IF calls[s].kind = "unblock" /\ calls[r].about = calls[s].group
          THEN Without(calls[r], calls[s].inbox) ELSE calls[r]
  BY DEF AnswerList
<1> HIDE DEF Without
<1>5. calls' = [r \in Slots |-> calls'[r]]
  BY DEF AnswerList
<1>6. ASSUME NEW r \in Slots \ {s}
      PROVE  /\ calls'[r] \in Calls
             /\ calls'[r].kind = calls[r].kind
             /\ calls'[r].inbox = calls[r].inbox
             /\ calls'[r].group = calls[r].group
             /\ calls'[r].about = calls[r].about
             /\ calls'[r].step = calls[r].step
             /\ calls'[r].read = calls[r].read
             /\ calls'[r].mute =
                  IF calls[s].kind = "unblock" /\ calls[r].about = calls[s].group
                  THEN calls[r].mute \ {calls[s].inbox} ELSE calls[r].mute
  <2>1. CASE calls[s].kind = "unblock" /\ calls[r].about = calls[s].group
    <3>1. calls'[r] = Without(calls[r], calls[s].inbox)
      BY <1>4, <2>1
    <3> QED
      BY <1>2, <1>3, <2>1, <3>1
  <2>2. CASE ~(calls[s].kind = "unblock" /\ calls[r].about = calls[s].group)
    <3>1. calls'[r] = calls[r]
      BY <1>4, <2>2
    <3> QED
      BY <1>2, <2>2, <3>1
  <2> QED
    BY <2>1, <2>2
<1>7. calls'[s] = NoCall
  BY <1>4
<1>8. calls' \in [Slots -> Calls]
  BY <1>1, <1>5, <1>6, <1>7
<1>9. left' = [left EXCEPT ![calls[s].inbox] =
                 IF calls[s].kind = "block"
                 THEN left[calls[s].inbox] \cup {calls[s].group}
                 ELSE left[calls[s].inbox] \ {calls[s].group}]
  BY DEF AnswerList
<1> QED
  BY <1>6, <1>7, <1>8, <1>9

\* The second step of a request about subscriptions is a request again.
LEMMA SecondStep ==
    ASSUME NEW s \in Slots, TypeOK, Second(s)
    PROVE  \E c \in Calls : /\ c.kind = calls[s].kind /\ c.inbox = calls[s].inbox
                            /\ c.mute = calls[s].mute /\ c.about = calls[s].about
                            /\ calls' = [calls EXCEPT ![s] = c]
<1> DEFINE c == [calls[s] EXCEPT !.step = "second"]
<1>1. calls[s] \in Calls
  BY DEF TypeOK
<1>2. /\ c \in Calls /\ c.kind = calls[s].kind /\ c.inbox = calls[s].inbox
      /\ c.mute = calls[s].mute /\ c.about = calls[s].about
  BY <1>1 DEF Calls, Requests
<1>3. calls' = [calls EXCEPT ![s] = c]
  BY DEF Second
<1> HIDE DEF c
<1> QED
  BY <1>2, <1>3

\* So is a change of a block list that has read the list.
LEMMA ListRead ==
    ASSUME NEW s \in Slots, TypeOK, calls[s].kind \in {"block", "unblock"},
           calls' = [calls EXCEPT ![s].step = "second",
                                  ![s].read = blocked[calls[s].inbox]]
    PROVE  \E c \in Calls : /\ c.kind = calls[s].kind /\ c.inbox = calls[s].inbox
                            /\ c.mute = calls[s].mute /\ c.about = calls[s].about
                            /\ c.read = blocked[calls[s].inbox]
                            /\ calls' = [calls EXCEPT ![s] = c]
<1> DEFINE list == blocked[calls[s].inbox]
           c    == [calls[s] EXCEPT !.step = "second", !.read = list]
<1>1. calls[s] \in Calls /\ list \in SUBSET Groups
  BY DEF TypeOK, Calls
<1>2. calls' = [calls EXCEPT ![s] = c]
  BY DEF TypeOK
<1> HIDE DEF list
<1>3. /\ c \in Calls /\ c.kind = calls[s].kind /\ c.inbox = calls[s].inbox
      /\ c.mute = calls[s].mute /\ c.about = calls[s].about /\ c.read = list
  BY <1>1 DEF Calls, Requests
<1> HIDE DEF c
<1> QED
  BY <1>2, <1>3 DEF list

\* A get that is answered leaves the branch reading.
LEMMA GetsAnswered ==
    ASSUME NEW s \in Slots, NEW i \in Inboxes, TypeOK, GetAnswered(s, i)
    PROVE  /\ branches[s][i].stage = "read"
           /\ UNCHANGED sub
           /\ \E b \in Branches :
                 /\ Continue(s, i, b)
                 /\ b.stage = "read"
                 /\ \/ /\ b.waits = branches[s][i].waits \ {"sub"}
                       /\ b.blocked = branches[s][i].blocked
                    \/ b.blocked = blocked[i]
<1> DEFINE b == branches[s][i]
<1>1. b \in Branches /\ sub[i] \in Devices \cup {NoDevice}
      /\ blocked[i] \in SUBSET Groups
  BY DEF TypeOK
<1>2. b.stage = "read" /\ UNCHANGED sub
  BY DEF GetAnswered
<1>3. \/ Continue(s, i, [b EXCEPT !.waits = @ \ {"sub"}, !.device = sub[i]])
      \/ Continue(s, i, [b EXCEPT !.waits = @ \ {"blocked"}, !.blocked = blocked[i]])
  BY DEF GetAnswered
<1> HIDE DEF b
<1>4. LET c == [b EXCEPT !.waits = @ \ {"sub"}, !.device = sub[i]]
      IN  /\ c \in Branches /\ c.stage = "read" /\ c.waits = b.waits \ {"sub"}
          /\ c.blocked = b.blocked
  BY <1>1, <1>2 DEF Branches
<1>5. LET c == [b EXCEPT !.waits = @ \ {"blocked"}, !.blocked = blocked[i]]
      IN  c \in Branches /\ c.stage = "read" /\ c.blocked = blocked[i]
  BY <1>1, <1>2 DEF Branches
<1>6. \E c \in Branches :
         /\ Continue(s, i, c)
         /\ c.stage = "read"
         /\ \/ c.waits = b.waits \ {"sub"} /\ c.blocked = b.blocked
            \/ c.blocked = blocked[i]
  BY <1>3, <1>4, <1>5
<1> QED
  BY <1>2, <1>6 DEF b

\* The steps of one target of a notification.
TargetSteps(s, i) ==
    \/ GetAnswered(s, i) \/ Decide(s, i) \/ AddressAnswered(s, i)
    \/ Pushed(s, i) \/ DropGone(s, i) \/ BranchFails(s, i)

\* Only a branch that is under way goes on, and it goes on as a branch.
LEMMA TargetGoesOn ==
    ASSUME NEW s \in Slots, NEW i \in Inboxes, TypeOK, TargetSteps(s, i)
    PROVE  /\ branches[s][i] # NoBranch
           /\ sub' \in [Inboxes -> Devices \cup {NoDevice}]
           /\ \E b \in Branches : Continue(s, i, b)
<1> DEFINE b == branches[s][i]
<1>1. b \in Branches /\ NoBranch \in Branches /\ NoBranch.stage = "done"
  BY DEF TypeOK, Branches, NoBranch
<1>2. CASE GetAnswered(s, i)
  BY <1>1, <1>2, GetsAnswered DEF TypeOK
<1>3. CASE Decide(s, i)
  <2>1. PICK next \in {"done", "push", "address"} :
            Continue(s, i, IF next = "done" THEN NoBranch ELSE [b EXCEPT !.stage = next])
    BY <1>3 DEF Decide, NextStage
  <2>2. [b EXCEPT !.stage = next] \in Branches
    BY <1>1 DEF Branches
  <2>3. \E c \in Branches : Continue(s, i, c)
    BY <1>1, <2>1, <2>2
  <2>4. b.stage = "read" /\ UNCHANGED sub
    BY <1>3 DEF Decide
  <2>5. b # NoBranch
    BY <1>1, <2>4
  <2>6. sub' \in [Inboxes -> Devices \cup {NoDevice}]
    BY <2>4 DEF TypeOK
  <2> QED
    BY <2>3, <2>5, <2>6
<1>4. CASE AddressAnswered(s, i)
  <2>1. Continue(s, i, IF addrSub[i] = NoDevice THEN NoBranch
                       ELSE [b EXCEPT !.stage = "push", !.device = addrSub[i]])
    BY <1>4 DEF AddressAnswered
  <2>2. \/ addrSub[i] = NoDevice
        \/ [b EXCEPT !.stage = "push", !.device = addrSub[i]] \in Branches
    BY <1>1, <1>4 DEF AddressAnswered, Branches, TypeOK
  <2> QED
    BY <1>1, <1>4, <2>1, <2>2 DEF AddressAnswered, TypeOK
<1>5. CASE Pushed(s, i)
  <2>1. [b EXCEPT !.stage = "drop"] \in Branches
    BY <1>1 DEF Branches
  <2> QED
    BY <1>1, <1>5, <2>1 DEF Pushed, TypeOK
<1>6. CASE DropGone(s, i)
  BY <1>1, <1>6 DEF DropGone, TypeOK
<1>7. CASE BranchFails(s, i)
  BY <1>1, <1>7 DEF BranchFails, TypeOK
<1> QED
  BY <1>2, <1>3, <1>4, <1>5, <1>6, <1>7 DEF TargetSteps

-----------------------------------------------------------------------------
(* The conjuncts of the invariant, one lemma each.                         *)

\* Every action belongs to one of these groups.
LEMMA Steps ==
    ASSUME [Next]_vars
    PROVE  \/ \E s \in Slots :
                 \/ Subscribe(s) \/ Unsubscribe(s)
                 \/ BlockGroup(s) \/ UnblockGroup(s)
                 \/ Notify(s)
                 \/ ChangeSub(s)
                 \/ ChangeAddrSub(s)
                 \/ ReadList(s)
                 \/ WriteList(s)
                 \/ UnblockLost(s)
                 \/ StoreFails(s)
                 \/ NotifyAnswered(s)
                 \/ \E i \in Inboxes : TargetSteps(s, i)
           \/ DeviceGone
           \/ UNCHANGED vars
  BY DEF Next, Arrive, Handle, TargetSteps

\* Every step keeps the types.
LEMMA TypeInductive == TypeOK /\ [Next]_vars => TypeOK'
<1> SUFFICES ASSUME TypeOK, [Next]_vars PROVE TypeOK'
  OBVIOUS
<1> USE DEF TypeOK, store, history
<1>0. NoCall \in Calls
  BY PushAssumption DEF NoCall, Calls, Requests, Kinds
<1>1. ASSUME NEW s \in Slots, Subscribe(s) \/ Unsubscribe(s) PROVE TypeOK'
  <2>1. PICK c \in Calls : calls' = [calls EXCEPT ![s] = c]
    BY <1>1, SubscriptionArrives
  <2>2. made' = made + 1 /\ UNCHANGED <<store, alive, branches, history>>
    BY <1>1, SubscriptionArrives
  <2> QED
    BY <2>1, <2>2
<1>2. ASSUME NEW s \in Slots, BlockGroup(s) \/ UnblockGroup(s) PROVE TypeOK'
  <2>1. PICK c \in Calls :
            /\ c.kind \in {"block", "unblock"}
            /\ calls' = [calls EXCEPT ![s] = c]
            /\ raced' = raced \cup {i \in {c.inbox} :
                                      \E r \in Slots : ChangesList(r, i)}
    BY <1>2, ListChangeArrives
  <2>2. c.inbox \in Inboxes
    BY <2>1 DEF Calls
  <2>3. made' = made + 1 /\ UNCHANGED <<store, alive, branches, registered, left, failed>>
    BY <1>2, ListChangeArrives
  <2>4. raced' \subseteq Inboxes
    BY <2>1, <2>2
  <2>5. calls' \in [Slots -> Calls]
    BY <2>1
  <2> QED
    BY <2>3, <2>4, <2>5
<1>3. ASSUME NEW s \in Slots, Notify(s) PROVE TypeOK'
  <2>1. PICK c \in Calls, bs \in [Inboxes -> Branches] :
            /\ calls' = [calls EXCEPT ![s] = c]
            /\ branches' = [branches EXCEPT ![s] = bs]
    BY <1>3, NotificationArrives
  <2>2. made' = made + 1 /\ UNCHANGED <<store, alive, history>>
    BY <1>3, NotificationArrives
  <2> QED
    BY <2>1, <2>2
<1>4. ASSUME NEW s \in Slots, ChangeSub(s) PROVE TypeOK'
  <2>1. calls[s].device \in Devices \cup {NoDevice}
    BY DEF Calls, Requests
  <2>2. calls' \in [Slots -> Calls]
    <3>1. CASE Answer(s)
      BY <1>0, <3>1 DEF Answer
    <3>2. CASE Second(s)
      BY <3>2, SecondStep
    <3> QED
      BY <1>4, <3>1, <3>2 DEF ChangeSub
  <2> QED
    BY <1>4, <2>1, <2>2 DEF ChangeSub
<1>5. ASSUME NEW s \in Slots, ChangeAddrSub(s) PROVE TypeOK'
  <2>1. calls[s].device \in Devices \cup {NoDevice}
    BY DEF Calls, Requests
  <2> QED
    BY <1>0, <1>5, <2>1 DEF ChangeAddrSub, Answer
<1>6. ASSUME NEW s \in Slots, AnswerList(s),
             calls[s].kind \in {"block", "unblock"}
      PROVE  calls' \in [Slots -> Calls] /\ left' \in [Inboxes -> SUBSET Groups]
  <2>1. calls[s].inbox \in Inboxes /\ calls[s].group \in Groups
    BY <1>6 DEF Calls
  <2>2. calls' \in [Slots -> Calls]
    BY <1>6, ListAnswered
  <2>3. left' = [left EXCEPT ![calls[s].inbox] =
                   IF calls[s].kind = "block"
                   THEN left[calls[s].inbox] \cup {calls[s].group}
                   ELSE left[calls[s].inbox] \ {calls[s].group}]
    BY <1>6, ListAnswered
  <2>4. left' \in [Inboxes -> SUBSET Groups]
    BY <2>1, <2>3
  <2> QED
    BY <2>2, <2>4
<1>7. ASSUME NEW s \in Slots, ReadList(s) PROVE TypeOK'
  <2>1. /\ calls[s].kind \in {"block", "unblock"}
        /\ UNCHANGED <<store, alive, branches, made, registered, failed, raced>>
    BY <1>7 DEF ReadList
  <2>2. calls' \in [Slots -> Calls] /\ left' \in [Inboxes -> SUBSET Groups]
    <3>1. CASE AnswerList(s)
      BY <1>6, <2>1, <3>1
    <3>2. CASE /\ calls' = [calls EXCEPT ![s].step = "second",
                                         ![s].read = blocked[calls[s].inbox]]
               /\ UNCHANGED left
      <4>1. PICK c \in Calls : calls' = [calls EXCEPT ![s] = c]
        BY <2>1, <3>2, ListRead
      <4> QED
        BY <3>2, <4>1
    <3> QED
      BY <1>7, <3>1, <3>2 DEF ReadList
  <2> QED
    BY <2>1, <2>2
<1>8. ASSUME NEW s \in Slots, WriteList(s) PROVE TypeOK'
  <2>1. calls[s] \in Calls /\ calls[s].kind \in {"block", "unblock"}
    BY <1>8 DEF WriteList
  <2>2. /\ BlockedAfter(calls[s]) \in SUBSET Groups
        /\ UnblockedAfter(calls[s]) \in SUBSET Groups
    BY <2>1 DEF Calls, Requests, BlockedAfter, UnblockedAfter
  <2>3. blocked' \in [Inboxes -> SUBSET Groups]
    BY <1>8, <2>2 DEF WriteList
  <2>4. /\ AnswerList(s)
        /\ UNCHANGED <<sub, addrSub, alive, branches, made, registered, raced>>
    BY <1>8 DEF WriteList
  <2>5. calls' \in [Slots -> Calls] /\ left' \in [Inboxes -> SUBSET Groups]
    BY <1>6, <2>1, <2>4
  <2>6. failed' \in [Inboxes -> SUBSET Groups]
    BY <1>8 DEF WriteList
  <2> QED
    BY <2>3, <2>4, <2>5, <2>6
<1>13. ASSUME NEW s \in Slots, UnblockLost(s) PROVE TypeOK'
  <2>1. calls[s] \in Calls /\ calls[s].kind = "unblock"
    BY <1>13 DEF UnblockLost, At
  <2>2. calls[s].group \in Groups
    BY <2>1 DEF Calls
  <2>3. /\ AnswerList(s)
        /\ failed' = [failed EXCEPT ![calls[s].inbox] = @ \cup {calls[s].group}]
        /\ UNCHANGED <<store, alive, branches, made, registered, raced>>
    BY <1>13 DEF UnblockLost
  <2>4. calls' \in [Slots -> Calls] /\ left' \in [Inboxes -> SUBSET Groups]
    BY <1>6, <2>1, <2>3
  <2>5. failed' \in [Inboxes -> SUBSET Groups]
    BY <2>2, <2>3
  <2> QED
    BY <2>3, <2>4, <2>5
<1>14. ASSUME NEW s \in Slots, StoreFails(s) PROVE TypeOK'
  BY <1>0, <1>14 DEF StoreFails, Answer
<1>9. ASSUME NEW s \in Slots, NotifyAnswered(s) PROVE TypeOK'
  BY <1>0, <1>9 DEF NotifyAnswered, Answer
<1>10. ASSUME NEW s \in Slots, NEW i \in Inboxes, TargetSteps(s, i) PROVE TypeOK'
  <2>1. PICK b \in Branches : Continue(s, i, b)
    BY <1>10, TargetGoesOn
  <2>2. sub' \in [Inboxes -> Devices \cup {NoDevice}]
    BY <1>10, TargetGoesOn
  <2>3. branches' \in [Slots -> [Inboxes -> Branches]]
    BY <2>1 DEF Continue
  <2> QED
    BY <2>1, <2>2, <2>3 DEF Continue
<1>11. CASE DeviceGone
  BY <1>11 DEF DeviceGone
<1>12. CASE UNCHANGED vars
  BY <1>12 DEF vars
<1> HIDE DEF TypeOK, store, history
<1> QED
  BY <1>1, <1>2, <1>3, <1>4, <1>5, <1>7, <1>8, <1>9, <1>10, <1>11, <1>12,
     <1>13, <1>14, Steps

\* Without overlapping changes, one request at a time changes a block list,
\* and the list it writes back is the one it has read.
LEMMA ListsInductive == TypeOK /\ ListsOK /\ [Next]_vars => ListsOK'
<1> SUFFICES ASSUME TypeOK, ListsOK, [Next]_vars PROVE ListsOK'
  OBVIOUS
<1>a. TypeOK'
  BY TypeInductive
\* Steps that leave the lists, and the requests that change one, as they are.
<1>0. ASSUME UNCHANGED <<blocked, left, failed, raced>>, NEW s \in Slots, NEW c \in Calls,
             calls' = [calls EXCEPT ![s] = c],
             c.kind \notin {"block", "unblock"}
      PROVE  ListsOK'
  <2>1. ASSUME NEW r \in Slots, NEW i \in Inboxes, ChangesList(r, i)'
        PROVE  ChangesList(r, i) /\ calls'[r] = calls[r]
    BY <1>0, <2>1 DEF ChangesList, TypeOK
  <2> QED
    BY <1>0, <2>1 DEF ListsOK, ListFits
<1>1. ASSUME UNCHANGED <<blocked, left, failed, raced, calls>> PROVE ListsOK'
  BY <1>1 DEF ListsOK, ListFits, ChangesList
<1>2. ASSUME NEW s \in Slots, Subscribe(s) \/ Unsubscribe(s) PROVE ListsOK'
  <2>1. PICK c \in Calls : /\ c.kind \in {"subscribe", "unsubscribe"}
                           /\ calls' = [calls EXCEPT ![s] = c]
    BY <1>2, SubscriptionArrives
  <2>2. UNCHANGED <<store, history>>
    BY <1>2, SubscriptionArrives
  <2> QED
    BY <1>0, <2>1, <2>2 DEF store, history
<1>3. ASSUME NEW s \in Slots, BlockGroup(s) \/ UnblockGroup(s) PROVE ListsOK'
  <2>1. PICK c \in Calls :
            /\ c.kind \in {"block", "unblock"} /\ c.step = "first"
            /\ calls' = [calls EXCEPT ![s] = c]
            /\ raced' = raced \cup {i \in {c.inbox} :
                                      \E r \in Slots : ChangesList(r, i)}
    BY <1>3, ListChangeArrives
  <2>2. UNCHANGED <<blocked, left, failed>>
    BY <1>3, ListChangeArrives DEF store
  <2>3. ASSUME NEW i \in Inboxes \ raced', NEW r \in Slots, ChangesList(r, i)'
        PROVE  \/ /\ r = s /\ i = c.inbox
                  /\ ~\E q \in Slots : ChangesList(q, i)
               \/ r # s /\ ChangesList(r, i) /\ calls'[r] = calls[r]
    BY <2>1, <2>3 DEF ChangesList, TypeOK
  <2>4. ASSUME NEW i \in Inboxes \ raced', NEW r \in Slots, NEW q \in Slots,
               ChangesList(r, i)', ChangesList(q, i)'
        PROVE  r = q
    BY <2>1, <2>3, <2>4 DEF ListsOK
  <2>5. ASSUME NEW i \in Inboxes \ raced', NEW r \in Slots,
               ChangesList(r, i)', calls'[r].step = "second"
        PROVE  calls'[r].read = blocked'[i]
    <3>1. calls'[s].step = "first"
      BY <2>1 DEF TypeOK
    <3> QED
      BY <2>1, <2>2, <2>3, <2>5, <3>1 DEF ListsOK
  <2> QED
    BY <2>1, <2>2, <2>4, <2>5 DEF ListsOK, ListFits
<1>4. ASSUME NEW s \in Slots, Notify(s) PROVE ListsOK'
  <2>1. PICK c \in Calls : c.kind = "notify" /\ calls' = [calls EXCEPT ![s] = c]
    BY <1>4, NotificationArrives
  <2>2. UNCHANGED <<store, history>>
    BY <1>4, NotificationArrives
  <2> QED
    BY <1>0, <2>1, <2>2 DEF store, history
<1>b. NoCall \in Calls /\ NoCall.kind = "notify"
  BY PushAssumption DEF NoCall, Calls, Requests, Kinds
<1>5. ASSUME NEW s \in Slots, ChangeSub(s) PROVE ListsOK'
  <2>1. calls[s].kind \in {"subscribe", "unsubscribe"}
        /\ UNCHANGED <<blocked, left, failed, raced>>
    BY <1>5 DEF ChangeSub, At
  <2>2. \E c \in Calls : /\ calls' = [calls EXCEPT ![s] = c]
                         /\ c.kind \notin {"block", "unblock"}
    <3>1. CASE Answer(s)
      BY <1>b, <3>1 DEF Answer
    <3>2. CASE Second(s)
      BY <2>1, <3>2, SecondStep
    <3> QED
      BY <1>5, <3>1, <3>2 DEF ChangeSub
  <2> QED
    BY <1>0, <2>1, <2>2
<1>6. ASSUME NEW s \in Slots, ChangeAddrSub(s) PROVE ListsOK'
  BY <1>0, <1>6, <1>b DEF ChangeAddrSub, Answer, history
\* The end of a change: of its list too, only an unstored unblocking is kept.
<1>7. ASSUME NEW s \in Slots, AnswerList(s), UNCHANGED raced,
             calls[s].kind \in {"block", "unblock"},
             NEW j \in Inboxes, calls[s].inbox = j,
             \A i \in Inboxes \ {j} :
                 blocked'[i] = blocked[i] /\ failed'[i] = failed[i],
             j \notin raced => ListFits(j)'
      PROVE  ListsOK'
  <2>1. calls'[s].kind = "notify" /\ ChangesList(s, j)
    BY <1>7, <1>b, ListAnswered DEF ChangesList, Calls, TypeOK
  <2>2. ASSUME NEW r \in Slots, NEW i \in Inboxes, ChangesList(r, i)'
        PROVE  /\ r # s /\ ChangesList(r, i)
               /\ calls'[r].step = calls[r].step /\ calls'[r].read = calls[r].read
    BY <1>7, <2>1, <2>2, ListAnswered DEF ChangesList
  <2>3. ASSUME NEW i \in Inboxes \ raced PROVE ListFits(i)'
    <3>1. CASE i = j
      BY <1>7, <3>1
    <3>2. CASE i # j
      <4>1. left'[i] = left[i]
        BY <1>7, <3>2, ListAnswered DEF TypeOK
      <4> QED
        BY <1>7, <3>2, <4>1 DEF ListsOK, ListFits
    <3> QED
      BY <3>1, <3>2
  <2>4. ASSUME NEW i \in Inboxes \ raced, NEW r \in Slots, NEW q \in Slots,
               ChangesList(r, i)', ChangesList(q, i)'
        PROVE  r = q
    BY <2>2, <2>4 DEF ListsOK
  <2>5. ASSUME NEW i \in Inboxes \ raced, NEW r \in Slots,
               ChangesList(r, i)', calls'[r].step = "second"
        PROVE  calls'[r].read = blocked'[i]
    <3>1. r # s /\ ChangesList(r, i)
      BY <2>2, <2>5
    <3>2. i # j
      BY <2>1, <3>1 DEF ListsOK
    <3> QED
      BY <1>7, <2>2, <2>5, <3>1, <3>2 DEF ListsOK
  <2> QED
    BY <1>7, <2>3, <2>4, <2>5 DEF ListsOK
<1>8. ASSUME NEW s \in Slots, ReadList(s) PROVE ListsOK'
  <2>0. PICK j : j = calls[s].inbox
    OBVIOUS
  <2>1. /\ calls[s].kind \in {"block", "unblock"}
        /\ UNCHANGED <<blocked, failed, raced>>
    BY <1>8 DEF ReadList, store
  <2>2. j \in Inboxes /\ calls[s].group \in Groups /\ blocked[j] \in SUBSET Groups
    BY <2>0, <2>1 DEF Calls, TypeOK
  <2>3. CASE /\ ~IF calls[s].kind = "block" THEN calls[s].group \notin blocked[j]
                                            ELSE blocked[j] # {}
             /\ AnswerList(s)
    <3>1. left \in [Inboxes -> SUBSET Groups]
      BY DEF TypeOK
    <3>2. left'[j] = IF calls[s].kind = "block" THEN left[j] \cup {calls[s].group}
                                                ELSE left[j] \ {calls[s].group}
      BY <2>0, <2>2, <2>3, <3>1, ListAnswered
    <3>3. j \notin raced => ListFits(j)
      BY <2>2 DEF ListsOK
    <3>4. j \notin raced => ListFits(j)'
      BY <2>1, <2>3, <3>2, <3>3 DEF ListFits
    <3> QED
      BY <1>7, <2>0, <2>1, <2>2, <2>3, <3>4
  <2>4. CASE /\ calls' = [calls EXCEPT ![s].step = "second",
                                       ![s].read = blocked[calls[s].inbox]]
             /\ UNCHANGED left
    <3>1. PICK c \in Calls : /\ c.kind = calls[s].kind /\ c.inbox = j
                             /\ c.read = blocked[j]
                             /\ calls' = [calls EXCEPT ![s] = c]
      BY <2>0, <2>1, <2>4, ListRead
    <3>2. ASSUME NEW r \in Slots, NEW i \in Inboxes, ChangesList(r, i)'
          PROVE  /\ ChangesList(r, i)
                 /\ \/ r = s /\ i = j /\ calls'[r].read = blocked[i]
                    \/ r # s /\ calls'[r] = calls[r]
      BY <2>0, <3>1, <3>2 DEF ChangesList, TypeOK
    <3>3. ASSUME NEW i \in Inboxes \ raced', NEW r \in Slots, NEW q \in Slots,
                 ChangesList(r, i)', ChangesList(q, i)'
          PROVE  r = q
      BY <2>1, <3>2, <3>3 DEF ListsOK
    <3>4. ASSUME NEW i \in Inboxes \ raced', NEW r \in Slots,
                 ChangesList(r, i)', calls'[r].step = "second"
          PROVE  calls'[r].read = blocked'[i]
      BY <2>1, <3>2, <3>4 DEF ListsOK
    <3> QED
      BY <2>1, <2>4, <3>3, <3>4 DEF ListsOK, ListFits
  <2> QED
    BY <1>8, <2>0, <2>3, <2>4 DEF ReadList
<1>9. ASSUME NEW s \in Slots, WriteList(s) PROVE ListsOK'
  <2>0. PICK j : j = calls[s].inbox
    OBVIOUS
  <2>1. /\ calls[s].kind \in {"block", "unblock"} /\ calls[s].step = "second"
        /\ AnswerList(s) /\ UNCHANGED raced
    BY <1>9 DEF WriteList
  <2>2. j \in Inboxes /\ ChangesList(s, j)
    BY <2>0, <2>1 DEF Calls, TypeOK, ChangesList
  <2>3. blocked' = [blocked EXCEPT ![j] = IF calls[s].kind = "block"
                                          THEN calls[s].read \cup {calls[s].group}
                                          ELSE calls[s].read \ {calls[s].group}]
    BY <1>9, <2>0 DEF WriteList, BlockedAfter, UnblockedAfter
  <2>4. j \notin raced => calls[s].read = blocked[j] /\ ListFits(j)
    BY <2>1, <2>2 DEF ListsOK
  <2>5. left' = [left EXCEPT ![j] = IF calls[s].kind = "block"
                                    THEN left[j] \cup {calls[s].group}
                                    ELSE left[j] \ {calls[s].group}]
    BY <2>0, <2>1, ListAnswered
  <2>6. blocked \in [Inboxes -> SUBSET Groups] /\ left \in [Inboxes -> SUBSET Groups]
    BY DEF TypeOK
  <2>7. failed' = [failed EXCEPT ![j] = @ \ {calls[s].group}]
        /\ failed \in [Inboxes -> SUBSET Groups]
    BY <1>9, <2>0 DEF WriteList, TypeOK
  <2>8. j \notin raced => ListFits(j)'
    <3> DEFINE k == calls[s].group
    <3>1. /\ blocked'[j] = IF calls[s].kind = "block" THEN calls[s].read \cup {k}
                                                     ELSE calls[s].read \ {k}
          /\ left'[j] = IF calls[s].kind = "block" THEN left[j] \cup {k} ELSE left[j] \ {k}
          /\ failed'[j] = failed[j] \ {k}
      BY <2>2, <2>3, <2>5, <2>6, <2>7
    <3> SUFFICES ASSUME j \notin raced PROVE ListFits(j)'
      OBVIOUS
    <3>2. /\ calls[s].read = blocked[j]
          /\ left[j] \subseteq blocked[j] /\ blocked[j] \subseteq left[j] \cup failed[j]
      BY <2>4 DEF ListFits
    <3> HIDE DEF k
    <3>3. left'[j] \subseteq blocked'[j] /\ blocked'[j] \subseteq left'[j] \cup failed'[j]
      BY <3>1, <3>2
    <3> QED
      BY <3>3 DEF ListFits
  <2>9. \A i \in Inboxes \ {j} : blocked'[i] = blocked[i] /\ failed'[i] = failed[i]
    BY <2>3, <2>6, <2>7
  <2> QED
    BY <1>7, <2>0, <2>1, <2>2, <2>8, <2>9
<1>14. ASSUME NEW s \in Slots, UnblockLost(s) PROVE ListsOK'
  <2>0. PICK j, g : j = calls[s].inbox /\ g = calls[s].group
    OBVIOUS
  <2>1. /\ calls[s].kind = "unblock"
        /\ AnswerList(s) /\ UNCHANGED <<blocked, raced>>
        /\ failed' = [failed EXCEPT ![j] = @ \cup {g}]
    BY <1>14, <2>0 DEF UnblockLost, At, store
  <2>2. j \in Inboxes
    BY <2>0, <2>1 DEF Calls, TypeOK
  <2>3. left' = [left EXCEPT ![j] = left[j] \ {g}]
    BY <2>0, <2>1, ListAnswered
  <2>4. left \in [Inboxes -> SUBSET Groups] /\ failed \in [Inboxes -> SUBSET Groups]
    BY DEF TypeOK
  <2>5. j \notin raced => ListFits(j)
    BY <2>2 DEF ListsOK
  <2>6. j \notin raced => ListFits(j)'
    <3>1. left'[j] = left[j] \ {g} /\ failed'[j] = failed[j] \cup {g}
      BY <2>1, <2>2, <2>3, <2>4
    <3> QED
      BY <2>1, <2>5, <3>1 DEF ListFits
  <2>7. \A i \in Inboxes \ {j} : blocked'[i] = blocked[i] /\ failed'[i] = failed[i]
    BY <2>1, <2>4
  <2> QED
    BY <1>7, <2>0, <2>1, <2>2, <2>6, <2>7
<1>15. ASSUME NEW s \in Slots, StoreFails(s) PROVE ListsOK'
  BY <1>0, <1>15, <1>b DEF StoreFails, Answer, store, history
<1>10. ASSUME NEW s \in Slots, NotifyAnswered(s) PROVE ListsOK'
  BY <1>0, <1>10, <1>b DEF NotifyAnswered, Answer, store, history
<1>11. ASSUME NEW s \in Slots, NEW i \in Inboxes, TargetSteps(s, i) PROVE ListsOK'
  BY <1>1, <1>11, TargetGoesOn DEF Continue, history
<1>12. CASE DeviceGone
  BY <1>1, <1>12 DEF DeviceGone, store, history
<1>13. CASE UNCHANGED vars
  BY <1>1, <1>13 DEF vars, store, history
<1> QED
  BY <1>2, <1>3, <1>4, <1>5, <1>6, <1>8, <1>9, <1>10, <1>11, <1>12, <1>13,
     <1>14, <1>15, Steps

\* A notification stays about whom it excludes, and those stay out of the
\* group: who comes back is no longer excluded.
LEMMA MuteInductive == TypeOK /\ MuteOK /\ [Next]_vars => MuteOK'
<1> SUFFICES ASSUME TypeOK, MuteOK, [Next]_vars PROVE MuteOK'
  OBVIOUS
<1>a. TypeOK'
  BY TypeInductive
<1>b. NoCall.mute = {} /\ NoCall.kind = "notify" /\ NoCall.inbox = NoInbox
      /\ NoCall \in Calls
  BY PushAssumption DEF NoCall, Calls, Requests, Kinds
<1>c. ASSUME NEW s \in Slots, calls[s] = NoCall \/ calls[s].kind # "notify"
      PROVE  \A i \in Inboxes : branches[s][i] = NoBranch
  BY <1>b, <1>c DEF MuteOK
\* A request without exclusions and without targets.
<1>0. ASSUME NEW s \in Slots, NEW c \in Calls, calls' = [calls EXCEPT ![s] = c],
             c.mute = {}, \A i \in Inboxes : branches[s][i] = NoBranch,
             UNCHANGED <<branches, left>>
      PROVE  MuteOK'
  BY <1>0 DEF MuteOK, TypeOK
<1>1. ASSUME UNCHANGED <<calls, branches, left>> PROVE MuteOK'
  BY <1>1 DEF MuteOK
<1>2. ASSUME NEW s \in Slots, Subscribe(s) \/ Unsubscribe(s) PROVE MuteOK'
  <2>1. PICK c \in Calls : c.mute = {} /\ calls' = [calls EXCEPT ![s] = c]
    BY <1>2, SubscriptionArrives
  <2>2. calls[s] = NoCall /\ UNCHANGED <<branches, left>>
    BY <1>2, SubscriptionArrives DEF history
  <2> QED
    BY <1>0, <1>c, <2>1, <2>2
<1>3. ASSUME NEW s \in Slots, BlockGroup(s) \/ UnblockGroup(s) PROVE MuteOK'
  <2>1. PICK c \in Calls : c.mute = {} /\ calls' = [calls EXCEPT ![s] = c]
    BY <1>3, ListChangeArrives
  <2>2. calls[s] = NoCall /\ UNCHANGED <<branches, left>>
    BY <1>3, ListChangeArrives
  <2> QED
    BY <1>0, <1>c, <2>1, <2>2
<1>4. ASSUME NEW s \in Slots, Notify(s) PROVE MuteOK'
  <2>1. PICK c \in Calls, bs \in [Inboxes -> Branches] :
            /\ c.kind = "notify" /\ c.inbox \in Inboxes
            /\ c.mute = {i \in Inboxes : c.about \in left[i]}
            /\ calls' = [calls EXCEPT ![s] = c]
            /\ branches' = [branches EXCEPT ![s] = bs]
    BY <1>4, NotificationArrives
  <2>2. UNCHANGED left
    BY <1>4, NotificationArrives DEF history
  <2>3. ASSUME NEW r \in Slots, NEW i \in Inboxes
        PROVE  /\ branches'[r][i] # NoBranch => /\ calls'[r].kind = "notify"
                                               /\ calls'[r].inbox # NoInbox
               /\ i \in calls'[r].mute => /\ calls'[r].kind = "notify"
                                          /\ calls'[r].about \in left'[i]
    <3>1. CASE r = s
      <4>1. calls'[r] = c
        BY <2>1, <3>1 DEF TypeOK
      <4> QED
        BY <2>1, <2>2, <4>1, PushAssumption
    <3>2. CASE r # s
      BY <2>1, <2>2, <3>2 DEF TypeOK, MuteOK
    <3> QED
      BY <3>1, <3>2
  <2> QED
    BY <2>3 DEF MuteOK
\* The end of a request that has no exclusions and no targets.
<1>d. ASSUME NEW s \in Slots, Answer(s), \A i \in Inboxes : branches[s][i] = NoBranch,
             UNCHANGED <<branches, left>>
      PROVE  MuteOK'
  BY <1>0, <1>b, <1>d DEF Answer
<1>e. ASSUME NEW s \in Slots, calls[s].kind # "notify"
      PROVE  calls[s].mute = {}
  BY <1>e DEF MuteOK, TypeOK, Calls, Requests
<1>5. ASSUME NEW s \in Slots, ChangeSub(s) PROVE MuteOK'
  <2>1. calls[s].kind # "notify" /\ UNCHANGED <<branches, left>>
    BY <1>5 DEF ChangeSub, At
  <2>2. CASE Answer(s)
    BY <1>c, <1>d, <2>1, <2>2
  <2>3. CASE Second(s)
    <3>1. PICK c \in Calls : c.mute = calls[s].mute /\ calls' = [calls EXCEPT ![s] = c]
      BY <2>3, SecondStep
    <3> QED
      BY <1>0, <1>c, <1>e, <2>1, <3>1
  <2> QED
    BY <1>5, <2>2, <2>3 DEF ChangeSub
<1>6. ASSUME NEW s \in Slots, ChangeAddrSub(s) PROVE MuteOK'
  <2>1. /\ calls[s].kind # "notify" /\ Answer(s)
        /\ UNCHANGED <<branches, left>>
    BY <1>6 DEF ChangeAddrSub, At, history
  <2> QED
    BY <1>c, <1>d, <2>1
<1>7. ASSUME NEW s \in Slots, AnswerList(s), UNCHANGED branches,
             calls[s].kind \in {"block", "unblock"}
      PROVE  MuteOK'
  <2> DEFINE j == calls[s].inbox
             g == calls[s].group
  <2>1. j \in Inboxes
    BY <1>7 DEF Calls, TypeOK
  <2>2. ASSUME NEW r \in Slots, NEW i \in Inboxes, branches'[r][i] # NoBranch
        PROVE  calls'[r].kind = "notify" /\ calls'[r].inbox # NoInbox
    <3>1. r # s /\ calls[r].kind = "notify" /\ calls[r].inbox # NoInbox
      BY <1>7, <2>2 DEF MuteOK
    <3> QED
      BY <1>7, <3>1, ListAnswered
  <2>3. ASSUME NEW r \in Slots, NEW i \in Inboxes, i \in calls'[r].mute
        PROVE  calls'[r].kind = "notify" /\ calls'[r].about \in left'[i]
    <3>1. r # s
      BY <1>7, <1>b, <2>3, ListAnswered
    <3>a. /\ calls'[r].kind = calls[r].kind /\ calls'[r].about = calls[r].about
          /\ calls'[r].mute =
               IF calls[s].kind = "unblock" /\ calls[r].about = g
               THEN calls[r].mute \ {j} ELSE calls[r].mute
      BY <1>7, <3>1, ListAnswered, ZenonT(60)
    <3>2. /\ i \in calls[r].mute
          /\ (calls[s].kind = "unblock" /\ calls[r].about = g) => i # j
          /\ calls'[r].kind = calls[r].kind /\ calls'[r].about = calls[r].about
      BY <2>3, <3>a
    <3>3. calls[r].kind = "notify" /\ calls[r].about \in left[i]
      BY <3>2 DEF MuteOK
    <3>4. calls[r].about \in left'[i]
      <4>1. left' = [left EXCEPT ![j] = IF calls[s].kind = "block"
                                        THEN left[j] \cup {g} ELSE left[j] \ {g}]
        BY <1>7, ListAnswered
      <4>2. left \in [Inboxes -> SUBSET Groups]
        BY DEF TypeOK
      <4> QED
        BY <1>7, <2>1, <3>2, <3>3, <4>1, <4>2
    <3> QED
      BY <3>2, <3>3, <3>4
  <2> QED
    BY <2>2, <2>3 DEF MuteOK
<1>8. ASSUME NEW s \in Slots, ReadList(s) PROVE MuteOK'
  <2>1. calls[s].kind \in {"block", "unblock"} /\ UNCHANGED branches
    BY <1>8 DEF ReadList
  <2>2. CASE AnswerList(s)
    BY <1>7, <2>1, <2>2
  <2>3. CASE /\ calls' = [calls EXCEPT ![s].step = "second",
                                       ![s].read = blocked[calls[s].inbox]]
             /\ UNCHANGED left
    <3>1. PICK c \in Calls : c.mute = calls[s].mute /\ calls' = [calls EXCEPT ![s] = c]
      BY <2>1, <2>3, ListRead
    <3> QED
      BY <1>0, <1>c, <1>e, <2>1, <2>3, <3>1, ZenonT(60)
  <2> QED
    BY <1>8, <2>2, <2>3 DEF ReadList
<1>9. ASSUME NEW s \in Slots, WriteList(s) PROVE MuteOK'
  BY <1>7, <1>9 DEF WriteList
<1>14. ASSUME NEW s \in Slots, UnblockLost(s) PROVE MuteOK'
  BY <1>7, <1>14 DEF UnblockLost, At
<1>15. ASSUME NEW s \in Slots, StoreFails(s) PROVE MuteOK'
  BY <1>c, <1>d, <1>15 DEF StoreFails, history
<1>10. ASSUME NEW s \in Slots, NotifyAnswered(s) PROVE MuteOK'
  BY <1>10, <1>d DEF NotifyAnswered, history
<1>11. ASSUME NEW s \in Slots, NEW i \in Inboxes, TargetSteps(s, i) PROVE MuteOK'
  <2>1. PICK b \in Branches : Continue(s, i, b)
    BY <1>11, TargetGoesOn
  <2>2. branches[s][i] # NoBranch
    BY <1>11, TargetGoesOn
  <2> QED
    BY <2>1, <2>2 DEF Continue, history, TypeOK, MuteOK
<1>12. CASE DeviceGone
  BY <1>1, <1>12 DEF DeviceGone, history
<1>13. CASE UNCHANGED vars
  BY <1>1, <1>13 DEF vars, history
<1> QED
  BY <1>2, <1>3, <1>4, <1>5, <1>6, <1>8, <1>9, <1>10, <1>11, <1>12, <1>13,
     <1>14, <1>15, Steps

\* The notification in slot s names its group, which inbox i has left.
Excluded(s, i) ==
    /\ calls[s].group # NoGroup /\ i \in calls[s].mute
    /\ i \notin raced

\* A branch for whom the group named excludes is still reading, and does not
\* miss the group once it has the block list.
LEMMA SeenInductive ==
    TypeOK /\ ListsOK /\ MuteOK /\ SeenOK /\ [Next]_vars => SeenOK'
<1> SUFFICES ASSUME TypeOK, ListsOK, MuteOK, SeenOK, [Next]_vars PROVE SeenOK'
  OBVIOUS
<1>a. TypeOK'
  BY TypeInductive
<1>b. NoCall.mute = {} /\ NoCall \in Calls
  BY PushAssumption DEF NoCall, Calls, Requests, Kinds
<1>c. ASSUME NEW s \in Slots, calls[s].kind # "notify"
      PROVE  calls[s].mute = {}
  BY <1>c DEF MuteOK, TypeOK, Calls, Requests
\* A request without exclusions.
<1>0. ASSUME NEW s \in Slots, NEW c \in Calls, calls' = [calls EXCEPT ![s] = c],
             c.mute = {}, UNCHANGED branches, raced \subseteq raced'
      PROVE  SeenOK'
  BY <1>0 DEF SeenOK, TypeOK
<1>1. ASSUME UNCHANGED <<calls, branches, raced>> PROVE SeenOK'
  BY <1>1 DEF SeenOK
<1>d. ASSUME NEW s \in Slots, Answer(s), UNCHANGED <<branches, raced>> PROVE SeenOK'
  BY <1>0, <1>b, <1>d DEF Answer
<1>2. ASSUME NEW s \in Slots, Subscribe(s) \/ Unsubscribe(s) PROVE SeenOK'
  <2>1. PICK c \in Calls : c.mute = {} /\ calls' = [calls EXCEPT ![s] = c]
    BY <1>2, SubscriptionArrives
  <2>2. UNCHANGED <<branches, raced>>
    BY <1>2, SubscriptionArrives DEF history
  <2> QED
    BY <1>0, <2>1, <2>2
<1>3. ASSUME NEW s \in Slots, BlockGroup(s) \/ UnblockGroup(s) PROVE SeenOK'
  <2>1. PICK c \in Calls :
            /\ c.mute = {} /\ calls' = [calls EXCEPT ![s] = c]
            /\ raced' = raced \cup {i \in {c.inbox} :
                                      \E r \in Slots : ChangesList(r, i)}
    BY <1>3, ListChangeArrives
  <2>2. UNCHANGED branches
    BY <1>3, ListChangeArrives
  <2> QED
    BY <1>0, <2>1, <2>2
<1>4. ASSUME NEW s \in Slots, Notify(s) PROVE SeenOK'
  <2>1. PICK c \in Calls, bs \in [Inboxes -> Branches] :
            /\ c.about \in Groups /\ c.group \in {NoGroup, c.about}
            /\ calls' = [calls EXCEPT ![s] = c]
            /\ branches' = [branches EXCEPT ![s] = bs]
            /\ \A i \in Inboxes :
                 \/ bs[i] = NoBranch
                 \/ bs[i].stage = "read" /\ bs[i].waits = Gets(c.group)
    BY <1>4, NotificationArrives
  <2>2. UNCHANGED raced
    BY <1>4, NotificationArrives DEF history
  <2>3. c.group # NoGroup => "blocked" \in Gets(c.group)
    BY <2>1 DEF Gets
  <2>4. calls'[s] = c /\ branches'[s] = bs
    BY <2>1 DEF TypeOK
  <2>5. \A r \in Slots \ {s} : calls'[r] = calls[r] /\ branches'[r] = branches[r]
    BY <2>1 DEF TypeOK
  <2> QED
    BY <2>1, <2>2, <2>3, <2>4, <2>5 DEF SeenOK
<1>5. ASSUME NEW s \in Slots, ChangeSub(s) PROVE SeenOK'
  <2>1. calls[s].kind # "notify" /\ UNCHANGED <<branches, raced>>
    BY <1>5 DEF ChangeSub, At
  <2>2. CASE Answer(s)
    BY <1>d, <2>1, <2>2
  <2>3. CASE Second(s)
    <3>1. PICK c \in Calls : c.mute = calls[s].mute /\ calls' = [calls EXCEPT ![s] = c]
      BY <2>3, SecondStep
    <3> QED
      BY <1>0, <1>c, <2>1, <3>1
  <2> QED
    BY <1>5, <2>2, <2>3 DEF ChangeSub
<1>6. ASSUME NEW s \in Slots, ChangeAddrSub(s) PROVE SeenOK'
  BY <1>6, <1>d DEF ChangeAddrSub, history
<1>7. ASSUME NEW s \in Slots, AnswerList(s), UNCHANGED <<branches, raced>>
      PROVE  SeenOK'
  <2>1. ASSUME NEW r \in Slots, NEW i \in Inboxes, i \in calls'[r].mute
        PROVE  /\ i \in calls[r].mute
               /\ calls'[r].group = calls[r].group
               /\ calls'[r].about = calls[r].about
    <3>1. r # s
      BY <1>7, <1>b, <2>1, ListAnswered
    <3>2. /\ calls'[r].group = calls[r].group /\ calls'[r].about = calls[r].about
          /\ calls'[r].mute =
               IF calls[s].kind = "unblock" /\ calls[r].about = calls[s].group
               THEN calls[r].mute \ {calls[s].inbox} ELSE calls[r].mute
      BY <1>7, <3>1, ListAnswered, ZenonT(60)
    <3> QED
      BY <2>1, <3>2
  <2> QED
    BY <1>7, <2>1 DEF SeenOK
<1>8. ASSUME NEW s \in Slots, ReadList(s) PROVE SeenOK'
  <2>1. calls[s].kind \in {"block", "unblock"} /\ UNCHANGED <<branches, raced>>
    BY <1>8 DEF ReadList
  <2>2. CASE AnswerList(s)
    BY <1>7, <2>1, <2>2
  <2>3. CASE calls' = [calls EXCEPT ![s].step = "second",
                                    ![s].read = blocked[calls[s].inbox]]
    <3>1. PICK c \in Calls : c.mute = calls[s].mute /\ calls' = [calls EXCEPT ![s] = c]
      BY <2>1, <2>3, ListRead
    <3> QED
      BY <1>0, <1>c, <2>1, <3>1
  <2> QED
    BY <1>8, <2>2, <2>3 DEF ReadList
<1>9. ASSUME NEW s \in Slots, WriteList(s) PROVE SeenOK'
  BY <1>7, <1>9 DEF WriteList
<1>17. ASSUME NEW s \in Slots, UnblockLost(s) PROVE SeenOK'
  BY <1>7, <1>17 DEF UnblockLost
<1>18. ASSUME NEW s \in Slots, StoreFails(s) PROVE SeenOK'
  BY <1>d, <1>18 DEF StoreFails, history
<1>10. ASSUME NEW s \in Slots, NotifyAnswered(s) PROVE SeenOK'
  BY <1>10, <1>d DEF NotifyAnswered, history
<1>11. ASSUME NEW s \in Slots, NEW i \in Inboxes, NEW b \in Branches,
              Continue(s, i, b),
              (Excluded(s, i) /\ b # NoBranch) =>
                  /\ b.stage = "read" /\ calls[s].group = calls[s].about
                  /\ "blocked" \in b.waits \/ calls[s].about \in b.blocked
       PROVE  SeenOK'
  <2>1. branches'[s][i] = b /\ UNCHANGED <<calls, raced>>
    BY <1>11 DEF Continue, history, TypeOK
  <2>2. ASSUME NEW r \in Slots, NEW j \in Inboxes, r # s \/ j # i
        PROVE  branches'[r][j] = branches[r][j]
    BY <1>11, <2>2 DEF Continue, TypeOK
  <2> QED
    BY <1>11, <2>1, <2>2 DEF SeenOK, Excluded
<1>12. ASSUME NEW s \in Slots, NEW i \in Inboxes, GetAnswered(s, i) PROVE SeenOK'
  <2>1. PICK b \in Branches :
            /\ Continue(s, i, b)
            /\ b.stage = "read"
            /\ \/ /\ b.waits = branches[s][i].waits \ {"sub"}
                  /\ b.blocked = branches[s][i].blocked
               \/ b.blocked = blocked[i]
    BY <1>12, GetsAnswered
  <2>2. branches[s][i] # NoBranch
    BY <1>12, GetsAnswered DEF NoBranch
  <2>3. ASSUME Excluded(s, i)
        PROVE  /\ calls[s].group = calls[s].about
               /\ "blocked" \in b.waits \/ calls[s].about \in b.blocked
    <3>1. /\ calls[s].group = calls[s].about
          /\ \/ "blocked" \in branches[s][i].waits
             \/ calls[s].about \in branches[s][i].blocked
      BY <2>2, <2>3 DEF SeenOK, Excluded
    <3>2. calls[s].about \in blocked[i]
      BY <2>3 DEF MuteOK, ListsOK, ListFits, Excluded
    <3> QED
      BY <2>1, <3>1, <3>2
  <2> QED
    BY <1>11, <2>1, <2>3
<1>13. ASSUME NEW s \in Slots, NEW i \in Inboxes, Decide(s, i) PROVE SeenOK'
  <2>1. PICK b \in Branches : Continue(s, i, b)
    BY <1>13, TargetGoesOn DEF TargetSteps
  <2>2. ASSUME Excluded(s, i) PROVE b = NoBranch
    <3>1. branches[s][i].waits = {} /\ branches[s][i] # NoBranch
      BY <1>13, TargetGoesOn DEF TargetSteps, Decide
    <3>2. /\ calls[s].group = calls[s].about
          /\ calls[s].about \in branches[s][i].blocked
      BY <2>2, <3>1 DEF SeenOK, Excluded
    <3>3. calls[s].about \in Groups
      BY <2>2 DEF MuteOK, TypeOK, Excluded
    <3>4. NextStage(calls[s], branches[s][i], i) = "done"
      BY <3>2, <3>3, PushAssumption DEF NextStage
    <3>5. Continue(s, i, NoBranch)
      BY <1>13, <3>4 DEF Decide
    <3> QED
      BY <2>1, <3>5 DEF Continue, TypeOK
  <2> QED
    BY <1>11, <2>1, <2>2
<1>14. ASSUME NEW s \in Slots, NEW i \in Inboxes,
              AddressAnswered(s, i) \/ Pushed(s, i) \/ DropGone(s, i)
       PROVE  SeenOK'
  <2>1. PICK b \in Branches : Continue(s, i, b)
    BY <1>14, TargetGoesOn DEF TargetSteps
  <2>2. branches[s][i].stage # "read" /\ branches[s][i] # NoBranch
    BY <1>14, TargetGoesOn DEF TargetSteps, AddressAnswered, Pushed, DropGone
  <2>3. ~Excluded(s, i)
    BY <2>2 DEF SeenOK, Excluded
  <2> QED
    BY <1>11, <2>1, <2>3
<1>19. ASSUME NEW s \in Slots, NEW i \in Inboxes, BranchFails(s, i) PROVE SeenOK'
  <2>1. Continue(s, i, NoBranch) /\ NoBranch \in Branches
    BY <1>19 DEF BranchFails, NoBranch, Branches
  <2> QED
    BY <1>11, <2>1
<1>15. CASE DeviceGone
  BY <1>1, <1>15 DEF DeviceGone, history
<1>16. CASE UNCHANGED vars
  BY <1>1, <1>16 DEF vars, history
<1> QED
  BY <1>2, <1>3, <1>4, <1>5, <1>6, <1>8, <1>9, <1>10, <1>12, <1>13, <1>14,
     <1>15, <1>16, <1>17, <1>18, <1>19, Steps DEF TargetSteps

\* What a branch means to drop stays given up.
LEMMA DropsInductive == TypeOK /\ MuteOK /\ DropsOK /\ [Next]_vars => DropsOK'
<1> SUFFICES ASSUME TypeOK, MuteOK, DropsOK, [Next]_vars PROVE DropsOK'
  OBVIOUS
<1>1. ASSUME UNCHANGED branches, alive' \subseteq alive PROVE DropsOK'
  BY <1>1 DEF DropsOK
<1>2. ASSUME NEW s \in Slots, Notify(s) PROVE DropsOK'
  <2>1. PICK bs \in [Inboxes -> Branches] :
            /\ branches' = [branches EXCEPT ![s] = bs]
            /\ \A i \in Inboxes : bs[i] = NoBranch \/ bs[i].stage = "read"
    BY <1>2, NotificationArrives
  <2>2. UNCHANGED alive
    BY <1>2, NotificationArrives
  <2>3. \A i \in Inboxes : bs[i].stage # "drop"
    BY <2>1 DEF NoBranch
  <2> QED
    BY <2>1, <2>2, <2>3 DEF DropsOK, TypeOK
<1>3. ASSUME NEW s \in Slots, NEW i \in Inboxes, NEW b \in Branches,
             Continue(s, i, b), UNCHANGED alive,
             b.stage = "drop" => b.device \notin alive
      PROVE  DropsOK'
  <2>1. branches'[s][i] = b
    BY <1>3 DEF Continue, TypeOK
  <2>2. ASSUME NEW r \in Slots, NEW j \in Inboxes, r # s \/ j # i
        PROVE  branches'[r][j] = branches[r][j]
    BY <1>3, <2>2 DEF Continue, TypeOK
  <2> QED
    BY <1>3, <2>1, <2>2 DEF DropsOK
<1>4. ASSUME NEW s \in Slots, NEW i \in Inboxes, TargetSteps(s, i) PROVE DropsOK'
  <2>1. PICK b \in Branches : Continue(s, i, b)
    BY <1>4, TargetGoesOn
  <2>2. UNCHANGED alive /\ branches'[s][i] = b
    BY <2>1 DEF Continue, TypeOK
  <2>3. branches[s][i] \in Branches /\ NoBranch \in Branches
    BY DEF TypeOK, NoBranch, Branches
  <2>4. CASE GetAnswered(s, i)
    <3>1. branches'[s][i].stage = "read"
      BY <2>4, GetsAnswered DEF Continue, TypeOK
    <3> QED
      BY <1>3, <2>1, <2>2, <3>1
  <2>5. CASE Decide(s, i)
    <3>1. PICK next \in {"done", "push", "address"} :
              b = IF next = "done" THEN NoBranch
                  ELSE [branches[s][i] EXCEPT !.stage = next]
      BY <2>2, <2>5 DEF Decide, NextStage, Continue, TypeOK
    <3>2. [branches[s][i] EXCEPT !.stage = next].stage = next
      BY <2>3 DEF Branches
    <3>3. b.stage # "drop"
      BY <3>1, <3>2 DEF NoBranch
    <3> QED
      BY <1>3, <2>1, <2>2, <3>3
  <2>6. CASE AddressAnswered(s, i)
    <3>1. b = IF addrSub[i] = NoDevice THEN NoBranch
              ELSE [branches[s][i] EXCEPT !.stage = "push", !.device = addrSub[i]]
      BY <2>2, <2>6 DEF AddressAnswered, Continue, TypeOK
    <3>2. [branches[s][i] EXCEPT !.stage = "push", !.device = addrSub[i]].stage = "push"
      BY <2>3 DEF Branches
    <3>3. b.stage # "drop"
      BY <3>1, <3>2 DEF NoBranch
    <3> QED
      BY <1>3, <2>1, <2>2, <3>3
  <2>7. CASE Pushed(s, i)
    <3> DEFINE d == [branches[s][i] EXCEPT !.stage = "drop"]
    <3>1. b = NoBranch \/ (branches[s][i].device \notin alive /\ b = d)
      BY <2>2, <2>7 DEF Pushed, Continue, TypeOK
    <3>2. d.device = branches[s][i].device
      BY <2>3 DEF Branches
    <3> HIDE DEF d
    <3>3. b.stage = "drop" => b.device \notin alive
      BY <3>1, <3>2 DEF NoBranch
    <3> QED
      BY <1>3, <2>1, <2>2, <3>3
  <2>8. CASE DropGone(s, i)
    <3>1. b = NoBranch
      BY <2>2, <2>8 DEF DropGone, Continue, TypeOK
    <3> QED
      BY <1>3, <2>1, <2>2, <3>1 DEF NoBranch
  <2>9. CASE BranchFails(s, i)
    <3>1. b = NoBranch
      BY <2>2, <2>9 DEF BranchFails, Continue, TypeOK
    <3> QED
      BY <1>3, <2>1, <2>2, <3>1 DEF NoBranch
  <2> QED
    BY <1>4, <2>4, <2>5, <2>6, <2>7, <2>8, <2>9 DEF TargetSteps
<1>5. ASSUME NEW s \in Slots,
             \/ Subscribe(s) \/ Unsubscribe(s) \/ BlockGroup(s) \/ UnblockGroup(s)
             \/ ChangeSub(s) \/ ChangeAddrSub(s) \/ ReadList(s) \/ WriteList(s)
             \/ UnblockLost(s) \/ StoreFails(s) \/ NotifyAnswered(s)
      PROVE  DropsOK'
  BY <1>1, <1>5 DEF Subscribe, Unsubscribe, BlockGroup, UnblockGroup,
     StartListChange, ChangeSub, ChangeAddrSub, ReadList, WriteList, UnblockLost,
     StoreFails, NotifyAnswered
<1>6. CASE DeviceGone
  BY <1>1, <1>6 DEF DeviceGone
<1>7. CASE UNCHANGED vars
  BY <1>1, <1>7 DEF vars
<1> QED
  BY <1>2, <1>4, <1>5, <1>6, <1>7, Steps

-----------------------------------------------------------------------------
(* The theorems.                                                           *)

\* The worker starts without requests, subscriptions and blocks.
LEMMA InitEstablishes == Init => IInv
<1> SUFFICES ASSUME Init PROVE IInv
  OBVIOUS
<1>1. NoCall \in Calls /\ NoCall.kind = "notify" /\ NoCall.mute = {}
  BY PushAssumption DEF NoCall, Calls, Requests, Kinds
<1>2. NoBranch \in Branches
  BY DEF NoBranch, Branches
<1>3. TypeOK
  BY <1>1, <1>2 DEF Init, TypeOK
<1>4. ListsOK
  BY <1>1 DEF Init, ListsOK, ListFits, ChangesList
<1>5. MuteOK
  BY <1>1 DEF Init, MuteOK
<1>6. SeenOK
  BY <1>1 DEF Init, SeenOK
<1>7. DropsOK
  BY DEF Init, DropsOK, NoBranch
<1> QED
  BY <1>3, <1>4, <1>5, <1>6, <1>7 DEF IInv

\* Every state satisfies the inductive invariant: types, one exclusive change
\* of a list at a time unless the list is raced, and exclusions kept.
THEOREM Invariance == Spec => []IInv
<1>1. IInv /\ [Next]_vars => IInv'
  BY TypeInductive, ListsInductive, MuteInductive, DropsInductive,
     SeenInductive DEF IInv
<1> QED
  BY InitEstablishes, <1>1, PTL DEF Spec

\* The types of the worker's state, for every set of inboxes and groups.
THEOREM TypeCorrect == Spec => []TypeOK
  BY Invariance, PTL DEF IInv

\* A block list that no two changes overlapped on holds every group that was
\* blocked and not unblocked since, whatever calls of the store failed, and
\* beyond them only groups whose unblocking was answered and not stored.
THEOREM BlockListsExact == Spec => []BlockListExact
<1>1. IInv => BlockListExact
  BY DEF IInv, ListsOK, BlockListExact
<1> QED
  BY Invariance, <1>1, PTL

\* A notification that names its group, which those of the applications do not,
\* pushes to no inbox that had left it and has not rejoined.
THEOREM LeftAreNotPushed == Spec => []LeftAreSkipped
<1>1. IInv => LeftAreSkipped
  <2> SUFFICES ASSUME IInv, NEW s \in Slots, NEW i \in Inboxes \ raced,
                      calls[s].group # NoGroup, i \in calls[s].mute
               PROVE  branches[s][i].stage \in {"read", "done"}
    BY DEF LeftAreSkipped
  <2>1. CASE branches[s][i] = NoBranch
    BY <2>1 DEF NoBranch
  <2>2. CASE branches[s][i] # NoBranch
    BY <2>2 DEF IInv, SeenOK
  <2> QED
    BY <2>1, <2>2
<1> QED
  BY Invariance, <1>1, PTL

\* A subscription disappears only by DELETE /subscribe, or after a push service
\* has given up the one a notification had read.
THEOREM SubscriptionsAreKept == Spec => SubscriptionKept
<1>1. IInv /\ [Next]_vars => [RemovesForReason]_vars
  <2> SUFFICES ASSUME IInv, [Next]_vars PROVE RemovesForReason
    OBVIOUS
  <2>0. TypeOK /\ DropsOK
    BY DEF IInv
  <2>1. ASSUME UNCHANGED sub PROVE RemovesForReason
    BY <2>1 DEF RemovesForReason
  <2>2. ASSUME NEW s \in Slots, ChangeSub(s) PROVE RemovesForReason
    BY <2>0, <2>2 DEF ChangeSub, TypeOK, RemovesForReason
  <2>3. ASSUME NEW s \in Slots, NEW i \in Inboxes, DropGone(s, i) PROVE RemovesForReason
    BY <2>0, <2>3 DEF DropGone, DropsOK, TypeOK,
       RemovesForReason
  <2>4. ASSUME NEW s \in Slots, NEW i \in Inboxes,
               \/ GetAnswered(s, i) \/ Decide(s, i) \/ AddressAnswered(s, i)
               \/ Pushed(s, i) \/ BranchFails(s, i)
        PROVE  RemovesForReason
    BY <2>1, <2>4 DEF GetAnswered, Decide, AddressAnswered, Pushed, BranchFails
  <2>5. ASSUME NEW s \in Slots,
               \/ Subscribe(s) \/ Unsubscribe(s) \/ BlockGroup(s) \/ UnblockGroup(s)
               \/ Notify(s) \/ ChangeAddrSub(s) \/ ReadList(s) \/ WriteList(s)
               \/ UnblockLost(s) \/ StoreFails(s) \/ NotifyAnswered(s)
        PROVE  RemovesForReason
    BY <2>1, <2>5 DEF Subscribe, Unsubscribe, BlockGroup, UnblockGroup, Notify,
       StartListChange, ChangeAddrSub, ReadList, WriteList, UnblockLost, StoreFails,
       NotifyAnswered, store
  <2>6. CASE DeviceGone
    BY <2>1, <2>6 DEF DeviceGone, store
  <2>7. CASE UNCHANGED vars
    BY <2>1, <2>7 DEF vars, store
  <2> QED
    BY <2>2, <2>3, <2>4, <2>5, <2>6, <2>7, Steps DEF TargetSteps
<1> QED
  BY Invariance, <1>1, PTL DEF Spec, SubscriptionKept
=============================================================================
