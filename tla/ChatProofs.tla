----------------------------- MODULE ChatProofs -----------------------------
(***************************************************************************)
(* An open chat of the mobile page, for any number of groups, people,      *)
(* messages and requests in flight: its state has its type, no message is  *)
(* pushed twice, and none that is older than the page.                     *)
(***************************************************************************)
EXTENDS Chat, GroupsProofs

-----------------------------------------------------------------------------
(* Types.                                                                  *)

\* TypeOK of what the page itself keeps.
ChatTypeOK ==
    /\ current \in Ids /\ view \in {"list"} \cup GroupIds
    /\ shown \in [of : GroupIds \cup {NoOne}, n : 0..MaxLog]
    /\ shownMembers \in [of : GroupIds \cup {NoOne}, set : SUBSET Inboxes]
    /\ seen \in [GroupIds -> SUBSET Positions]
    /\ pushPending \in 0..MaxOps
    /\ pending \in [GroupIds -> SUBSET Inboxes]
    /\ pushes \in [GroupIds -> [Positions -> Nat]]
    /\ early \subseteq GroupIds \X Inboxes
    /\ old \in [GroupIds -> 0..MaxLog] /\ switched \in BOOLEAN
    /\ ops \in 0..MaxOps /\ reloads \in 0..MaxReloads

\* The page never waits for more of its messages than it has written.
ChatInv == GroupsInv /\ ChatTypeOK /\ pushPending <= ops

\* Which is what TypeOK asks for, and more.
LEMMA ChatTypes == ChatInv => TypeOK
BY DEF ChatInv, GroupsInv, ChatTypeOK, TypeOK

\* Of the positions in a set, the first p are at most p.
LEMMA FirstOnes ==
    ASSUME NEW T, T \subseteq Nat, IsFiniteSet(T), NEW p \in Nat
    PROVE  LET D == {k \in T : Rank(T, k) <= p}
           IN  Cardinality(D) \in Nat /\ Cardinality(D) <= p
<1> DEFINE D == {k \in T : Rank(T, k) <= p}
           R == [k \in D |-> Rank(T, k)]
<1>1. IsFiniteSet(1..p) /\ Cardinality(1..p) = p
  BY FS_Interval
<1>2. \A k \in D : Rank(T, k) \in 1..p
  <2>1. Cardinality(T) \in Nat
    BY FS_CardinalityType
  <2>2. \A k \in T : Rank(T, k) \in 1..Cardinality(T)
    BY RankOrders
  <2> QED BY <2>1, <2>2
<1>3. ASSUME NEW j \in D, NEW k \in D, j # k PROVE Rank(T, j) # Rank(T, k)
  <2>1. j \in T /\ k \in T /\ (j < k \/ k < j)
    BY <1>3
  <2>2. Rank(T, j) < Rank(T, k) \/ Rank(T, k) < Rank(T, j)
    BY <2>1, RankOrders
  <2> QED BY <1>2, <2>2
<1>4. R \in [D -> 1..p] /\ \A j, k \in D : j # k => R[j] # R[k]
  BY <1>2, <1>3
<1> HIDE DEF R, D
<1>5. R \in Injection(D, 1..p)
  BY <1>4, Fun_IsInj
<1>6. IsFiniteSet(D) /\ Cardinality(D) <= p
  BY <1>1, <1>5, FS_Injection
<1>7. Cardinality(D) \in Nat
  BY <1>6, FS_CardinalityType
<1> QED BY <1>6, <1>7 DEF D

\* An answer lowers the counter by at most what it holds.
LEMMA DueBound ==
    ASSUME NEW g, NEW n \in Nat, pushPending \in Nat
    PROVE  Cardinality(Due(g, n)) \in Nat /\ Cardinality(Due(g, n)) <= pushPending
<1> DEFINE F == Fresh(g, n)
<1>1. F \subseteq 1..n
  BY DEF Fresh, OwnDelivered
<1>2. F \subseteq Nat /\ IsFiniteSet(F)
  <2>1. IsFiniteSet(1..n)
    BY FS_Interval
  <2>2. F \subseteq Nat
    BY <1>1
  <2> HIDE DEF F
  <2>3. IsFiniteSet(F)
    BY <1>1, <2>1, FS_Subset
  <2> QED BY <2>2, <2>3
<1>3. Due(g, n) = {k \in F : Rank(F, k) <= pushPending}
  BY DEF Due, Rank
<1> HIDE DEF F
<1> QED BY <1>2, <1>3, FirstOnes

\* Who is still pending after an answer.
LEMMA PendingType ==
    ASSUME ChatTypeOK, NEW c, NEW m
    PROVE  PendingAfter(c, m) \in [GroupIds -> SUBSET Inboxes]
BY DEF ChatTypeOK, PendingAfter

\* What an answer with messages holds.
LEMMA AnswerType ==
    ASSUME GroupsInv, NEW s \in Slots, NEW n \in MessagesPosted(s)
    PROVE  /\ tasks[s].gid \in GroupIds
           /\ n \in Nat /\ n \in 0..MaxLog
           /\ \/ tasks[s].pc = "senders" /\ n = tasks[s].n
              \/ log[tasks[s].gid] = <<>>
<1> DEFINE t == tasks[s]
<1>1. t \in Tasks /\ HandlerOK(t)
  BY HandlerAt
<1>2. \/ t.pc = "senders" /\ n = t.n
      \/ t.pc = "fetch" /\ log[t.gid] = <<>> /\ n = 0
  BY DEF MessagesPosted
<1>3. t.gid \in GroupIds /\ t.n \in Nat
  BY <1>1, <1>2 DEF HandlerOK, Tasks
<1>4. Len(log[t.gid]) \in Nat /\ Len(log[t.gid]) <= MaxLog /\ MaxLog \in Nat
  BY <1>3, LenProperties, ConstantFacts DEF GroupsInv, GroupsTypeOK
<1>5. t.pc = "senders" => t.n <= Len(log[t.gid])
  BY <1>1 DEF HandlerOK
<1> QED BY <1>2, <1>3, <1>4, <1>5

\* A handler that ends.
LEMMA HandlerEnds ==
    ASSUME GroupsInv, NEW s \in Slots, tasks' = Done(s), UNCHANGED network,
           active' = active
    PROVE  GroupsInv' /\ LogGrows
<1>1. active' \in Ids /\ Handlers(Done(s))
  BY DoneHandlers DEF GroupsInv, GroupsTypeOK
<1> QED BY <1>1, HandlersStep

\* A request about a conversation.
LEMMA HandlerStarts ==
    ASSUME GroupsInv, NEW pc \in Fallible, pc \notin {"sync", "create"},
           NEW g \in GroupIds, NEW who \in Inboxes \cup {NoOne},
           pc = "add" => who \in Inboxes,
           tasks' = Launched(tasks, TaskOn(pc, active, g, who)),
           UNCHANGED network, active' = active
    PROVE  GroupsInv' /\ LogGrows
<1>1. pc \in PCs \ {"idle", "senders"} /\ active \in Ids
  BY DEF PCs, Fallible, GroupsInv, GroupsTypeOK
<1>2. Handlers(Launched(tasks, TaskOn(pc, active, g, who)))
  BY <1>1, HandlersNow, NewCall
<1> QED BY <1>1, <1>2, HandlersStep

-----------------------------------------------------------------------------
(* Every step keeps the types, and the messages there are.                 *)

\* Init
LEMMA ChatStarts == Init => ChatInv
<1> SUFFICES ASSUME Init
             PROVE  ChatInv
  OBVIOUS
<1>1. Handlers(tasks)
  BY IdleHandler DEF Init, Handlers
<1>2. GroupsInv
  BY <1>1, NetworkStarts DEF Init
<1>3. 0 \in 0..MaxLog /\ 0 \in 0..MaxOps /\ 0 \in 0..MaxReloads
  BY ConstantFacts, ChatAssumption
<1>4. \A g \in GroupIds : Len(log[g]) \in 0..MaxLog
  BY <1>2, LenProperties, ConstantFacts DEF GroupsInv, GroupsTypeOK
<1>5. /\ pushes \in [GroupIds -> [Positions -> Nat]]
      /\ seen \in [GroupIds -> SUBSET Positions]
      /\ pending \in [GroupIds -> SUBSET Inboxes]
      /\ shown \in [of : GroupIds \cup {NoOne}, n : 0..MaxLog]
      /\ shownMembers \in [of : GroupIds \cup {NoOne}, set : SUBSET Inboxes]
      /\ old \in [GroupIds -> 0..MaxLog]
  BY <1>3, <1>4 DEF Init, Nothing, NoMembers
<1>6. /\ current \in Ids /\ view \in {"list"} \cup GroupIds
      /\ early \subseteq GroupIds \X Inboxes /\ switched \in BOOLEAN
  BY DEF Init
<1>7. /\ pushPending \in 0..MaxOps /\ ops \in 0..MaxOps
      /\ reloads \in 0..MaxReloads /\ pushPending <= ops
  BY <1>3 DEF Init
<1> QED BY <1>2, <1>5, <1>6, <1>7 DEF ChatInv, ChatTypeOK

\* A step that leaves the page alone.
LEMMA PageRests ==
    ASSUME ChatInv, GroupsInv', UNCHANGED chatVars
    PROVE  ChatInv'
BY DEF ChatInv, ChatTypeOK, chatVars, screenVars, pushVars

\* MessagesArrive
LEMMA MessagesArriveTypes ==
    ASSUME ChatInv, NEW s \in Slots, MessagesArrive(s)
    PROVE  ChatInv' /\ LogGrows
<1> DEFINE g == tasks[s].gid
           to == shownMembers.set \ {current}
<1>1. PICK n \in MessagesPosted(s) :
        /\ shown' = [of |-> g, n |-> n]
        /\ pending' = PendingAfter(view, shown')
        /\ seen' = [seen EXCEPT ![g] = SeenAfter(g, n)]
        /\ pushPending' = pushPending - Cardinality(Due(g, n))
        /\ pushes' = [pushes EXCEPT ![g] =
              [k \in Positions |-> IF k \in Due(g, n) THEN @[k] + 1 ELSE @[k]]]
        /\ early' = IF Due(g, n) # {}
                    THEN early \cup ({g} \X (to \cap pending[g])) ELSE early
        /\ tasks' = Done(s)
        /\ UNCHANGED <<network, active, current, view, shownMembers, old,
                       switched, ops, reloads>>
  BY DEF MessagesArrive
<1>2. g \in GroupIds /\ n \in Nat /\ n \in 0..MaxLog
  BY AnswerType DEF ChatInv
<1>3. GroupsInv' /\ LogGrows
  BY <1>1, HandlerEnds DEF ChatInv
<1>4. shown' \in [of : GroupIds \cup {NoOne}, n : 0..MaxLog]
  BY <1>1, <1>2
<1>5. pending' \in [GroupIds -> SUBSET Inboxes]
  <2>1. PICK m : m = shown'
    OBVIOUS
  <2> QED BY <1>1, <2>1, PendingType DEF ChatInv
<1>6. seen' \in [GroupIds -> SUBSET Positions]
  <2>1. SeenAfter(g, n) \subseteq Positions
    BY <1>2, ConstantFacts
       DEF SeenAfter, OwnDelivered, Positions, ChatInv, ChatTypeOK
  <2> QED BY <1>1, <1>2, <2>1 DEF ChatInv, ChatTypeOK
<1>7. pushPending' \in 0..MaxOps /\ pushPending' <= ops'
  <2>1. pushPending \in Nat /\ pushPending <= ops /\ ops \in 0..MaxOps
        /\ MaxOps \in Nat
    BY ChatAssumption DEF ChatInv, ChatTypeOK
  <2>2. /\ Cardinality(Due(g, n)) \in Nat
        /\ Cardinality(Due(g, n)) <= pushPending
    BY <1>2, <2>1, DueBound
  <2> QED BY <1>1, <2>1, <2>2
<1>8. pushes' \in [GroupIds -> [Positions -> Nat]]
  <2>1. [k \in Positions |-> IF k \in Due(g, n) THEN pushes[g][k] + 1
                                                ELSE pushes[g][k]]
           \in [Positions -> Nat]
    BY <1>2 DEF ChatInv, ChatTypeOK
  <2> QED BY <1>1, <1>2, <2>1 DEF ChatInv, ChatTypeOK
<1>9. early' \subseteq GroupIds \X Inboxes
  <2>1. to \cap pending[g] \subseteq Inboxes
    BY <1>2 DEF ChatInv, ChatTypeOK
  <2> QED BY <1>1, <1>2, <2>1 DEF ChatInv, ChatTypeOK
<1>10. ChatTypeOK'
  BY <1>1, <1>4, <1>5, <1>6, <1>7, <1>8, <1>9 DEF ChatInv, ChatTypeOK
<1> QED BY <1>3, <1>7, <1>10 DEF ChatInv

\* MembersArrive
LEMMA MembersArriveTypes ==
    ASSUME ChatInv, NEW s \in Slots, MembersArrive(s)
    PROVE  ChatInv' /\ LogGrows
<1>1. PICK set \in MembersPosted(s) :
        /\ shownMembers' = [of |-> tasks[s].gid, set |-> set]
        /\ tasks' = Done(s)
        /\ UNCHANGED <<network, active, current, view, shown, pushVars,
                       pending, ops, reloads>>
  BY DEF MembersArrive
<1>2. tasks[s].pc = "members" /\ set = roster[tasks[s].gid]
  BY DEF MembersPosted
<1>3. tasks[s].gid \in GroupIds
  BY <1>2, HandlerAt DEF HandlerOK, ChatInv
<1>4. shownMembers' \in [of : GroupIds \cup {NoOne}, set : SUBSET Inboxes]
  BY <1>1, <1>2, <1>3 DEF ChatInv, GroupsInv, GroupsTypeOK
<1>5. GroupsInv' /\ LogGrows
  BY <1>1, HandlerEnds DEF ChatInv
<1> QED BY <1>1, <1>4, <1>5 DEF ChatInv, ChatTypeOK, pushVars

\* ListArrives
LEMMA ListArrivesTypes ==
    ASSUME ChatInv, NEW s \in Slots, ListArrives(s)
    PROVE  ChatInv' /\ LogGrows
<1>1. GroupsInv' /\ LogGrows
  BY HandlerEnds DEF ListArrives, ChatInv
<1> QED BY <1>1, PageRests DEF ListArrives

\* IdentityListArrives
LEMMA IdentityListArrivesTypes ==
    ASSUME ChatInv, NEW s \in Slots, IdentityListArrives(s)
    PROVE  ChatInv' /\ LogGrows
<1>1. GroupsInv' /\ LogGrows
  BY HandlerEnds DEF IdentityListArrives, ChatInv
<1>2. current' \in Ids
  BY HandlerAt DEF IdentityListArrives, HandlerOK, ChatInv
<1> QED
  BY <1>1, <1>2 DEF IdentityListArrives, ChatInv, ChatTypeOK, pushVars

\* Resumes and Fails
LEMMA ResumesTypes ==
    ASSUME ChatInv, NEW s \in Slots, Resumes(s) \/ Fails(s)
    PROVE  ChatInv' /\ LogGrows
<1>1. GroupsInv' /\ LogGrows
  BY CollectMessagesStep, CollectListStep, MessageSentStep, MembersAddedStep,
     GroupRenamedStep, MemberRemovedStep, RoleChangedStep, CallFailsStep
     DEF Resumes, Fails, ChatInv
<1> QED BY <1>1, PageRests DEF Resumes, Fails

\* Elsewhere
LEMMA ElsewhereTypes ==
    ASSUME ChatInv, Elsewhere
    PROVE  ChatInv' /\ LogGrows
<1>1. GroupsInv' /\ LogGrows
  BY HearsStep, ChatAssumption DEF Elsewhere, ChatInv
<1> QED BY <1>1, PageRests DEF Elsewhere

\* Two calls, one after the other.
LEMMA Pair == \A a, b : <<a>> \o <<b>> = <<a, b>>
<1> TAKE a, b
<1> DEFINE q == <<a>> \o <<b>>
           S == {a, b}
<1>1. <<a>> \in Seq(S) /\ <<b>> \in Seq(S)
  OBVIOUS
<1>2. q \in Seq(S) /\ Len(q) = 2 /\ q[1] = a /\ q[2] = b
  BY <1>1, ConcatProperties
<1> DEFINE r == <<a, b>>
<1>3. r \in Seq(S) /\ Len(r) = 2 /\ r[1] = a /\ r[2] = b
  OBVIOUS
<1>4. q = r
  <2> HIDE DEF q, r, S
  <2>1. Len(q) = Len(r) /\ \A i \in 1..Len(q) : q[i] = r[i]
    BY <1>2, <1>3
  <2> QED BY <1>2, <1>3, <2>1, SeqEqual
<1> QED BY <1>4

\* What a chat asks for when it opens: two calls, or none.
LEMMA OpenTasksMembers ==
    ASSUME NEW i \in Ids, NEW g \in GroupIds
    PROVE  LET seq == OpenTasks(i, g)
               fetch == Call("fetch", i, g, NoOne)
               members == Call("members", i, g, NoOne)
           IN  /\ Len(seq) \in Nat
               /\ \A k \in 1..Len(seq) : seq[k] \in {fetch, members}
               /\ fetch \in Tasks /\ HandlerOK(fetch)
               /\ members \in Tasks /\ HandlerOK(members)
<1> DEFINE seq == OpenTasks(i, g)
           fetch == Call("fetch", i, g, NoOne)
           members == Call("members", i, g, NoOne)
<1>1. {"fetch", "members"} \subseteq PCs \ {"idle", "senders"}
  BY DEF PCs, Fallible
<1>2. /\ fetch \in Tasks /\ HandlerOK(fetch)
      /\ members \in Tasks /\ HandlerOK(members)
  BY <1>1, CallHandler
<1>3. Len(seq) \in Nat /\ \A k \in 1..Len(seq) : seq[k] \in {fetch, members}
  <2>1. CASE Known(i, g)
    <3>1. PICK a, b : a = fetch /\ b = members
      OBVIOUS
    <3>2. seq = <<a>> \o <<b>>
      BY <2>1, <3>1 DEF OpenTasks, TaskOn
    <3>3. seq = <<a, b>>
      BY <3>2, Pair
    <3> HIDE DEF seq, fetch, members
    <3> QED BY <3>1, <3>3
  <2>2. CASE ~Known(i, g)
    BY <2>2 DEF OpenTasks, TaskOn
  <2> QED BY <2>1, <2>2
<1> QED BY <1>2, <1>3

\* They are handlers like the others.
LEMMA OpenTasksHandlers ==
    ASSUME ChatInv, NEW g \in GroupIds
    PROVE  Handlers(Launched(tasks, OpenTasks(active, g)))
<1>1. active \in Ids
  BY DEF ChatInv, GroupsInv, GroupsTypeOK
<1>2. PICK seq : seq = OpenTasks(active, g)
  OBVIOUS
<1>3. /\ Len(seq) \in Nat
      /\ \A k \in 1..Len(seq) : seq[k] \in Tasks /\ HandlerOK(seq[k])
  BY <1>1, <1>2, OpenTasksMembers
<1> QED BY <1>2, <1>3, HandlersNow, NewHandlers DEF ChatInv

\* OpenChat
LEMMA OpenChatTypes ==
    ASSUME ChatInv, OpenChat
    PROVE  ChatInv' /\ LogGrows
<1>1. PICK g \in GroupIds :
         /\ view' = g /\ pending' = PendingAfter(g, shown) /\ shown' = Nothing
         /\ tasks' = Launched(tasks, OpenTasks(active, g))
         /\ UNCHANGED <<network, active, current, shownMembers, pushVars, ops,
                        reloads>>
  BY DEF OpenChat
<1>2. active \in Ids /\ active' \in Ids
  BY <1>1 DEF ChatInv, GroupsInv, GroupsTypeOK
<1>3. Handlers(Launched(tasks, OpenTasks(active, g)))
  BY OpenTasksHandlers
<1>4. GroupsInv' /\ LogGrows
  BY <1>1, <1>2, <1>3, HandlersStep DEF ChatInv
<1>5. /\ pending' \in [GroupIds -> SUBSET Inboxes]
      /\ shown' \in [of : GroupIds \cup {NoOne}, n : 0..MaxLog]
  BY <1>1, PendingType, ConstantFacts DEF ChatInv, Nothing
<1> QED BY <1>1, <1>4, <1>5 DEF ChatInv, ChatTypeOK, pushVars

\* Back
LEMMA BackTypes ==
    ASSUME ChatInv, Back
    PROVE  ChatInv' /\ LogGrows
<1>1. active' \in Ids /\ Handlers(tasks) /\ tasks' = tasks /\ UNCHANGED network
  BY HandlersNow DEF ChatInv, GroupsInv, GroupsTypeOK, Back, backend
<1>2. GroupsInv' /\ LogGrows
  BY <1>1, HandlersStep DEF ChatInv
<1> QED BY <1>2 DEF Back, ChatInv, ChatTypeOK, pushVars

\* Poll
LEMMA PollTypes ==
    ASSUME ChatInv, Poll
    PROVE  ChatInv' /\ LogGrows
<1>1. "fetch" \in Fallible
  BY DEF Fallible
<1>2. GroupsInv' /\ LogGrows
  BY <1>1, HandlerStarts DEF Poll, PollTask, ChatInv
<1> QED BY <1>2, PageRests DEF Poll

\* Foreground
LEMMA ForegroundTypes ==
    ASSUME ChatInv, Foreground
    PROVE  ChatInv' /\ LogGrows
<1>1. /\ view \in GroupIds /\ tasks' = Launched(tasks, OpenTasks(active, view))
      /\ UNCHANGED <<network, active, chatVars>> /\ active \in Ids
  BY DEF Foreground, ChatInv, GroupsInv, GroupsTypeOK
<1>2. Handlers(Launched(tasks, OpenTasks(active, view)))
  BY <1>1, OpenTasksHandlers
<1>3. GroupsInv' /\ LogGrows
  BY <1>1, <1>2, HandlersStep DEF ChatInv
<1> QED BY <1>1, <1>3, PageRests

\* Every counted step stays within the bound.
LEMMA Counts ==
    ASSUME ChatInv, Counted
    PROVE  /\ ops' \in 0..MaxOps /\ ops' = ops + 1 /\ pushPending <= ops'
           /\ pushPending + 1 <= ops' /\ pushPending + 1 \in 0..MaxOps
BY ChatAssumption DEF ChatInv, ChatTypeOK, Counted

\* Send
LEMMA SendTypes ==
    ASSUME ChatInv, Send
    PROVE  ChatInv' /\ LogGrows
<1>1. "send" \in Fallible
  BY DEF Fallible
<1>2. GroupsInv' /\ LogGrows
  BY <1>1, HandlerStarts DEF Send, ChatInv
<1>3. pushPending' \in 0..MaxOps /\ pushPending' <= ops' /\ ops' \in 0..MaxOps
  BY Counts DEF Send
<1> QED BY <1>2, <1>3 DEF Send, ChatInv, ChatTypeOK, screenVars

\* A request of the settings.
LEMMA RequestTypes ==
    ASSUME ChatInv, view \in GroupIds, Counted,
           NEW pc \in {"add", "remove", "role", "rename"},
           NEW who \in Inboxes \cup {NoOne}, pc = "add" => who \in Inboxes,
           Requests(pc, who), pending' \in [GroupIds -> SUBSET Inboxes]
    PROVE  ChatInv' /\ LogGrows
<1>1. pc \in Fallible /\ pc \notin {"sync", "create"}
  BY DEF Fallible
<1>2. GroupsInv' /\ LogGrows
  BY <1>1, HandlerStarts DEF Requests, ChatInv
<1>3. ops' \in 0..MaxOps /\ pushPending <= ops'
  BY Counts
<1> QED BY <1>2, <1>3 DEF Requests, ChatInv, ChatTypeOK, screenVars, pushVars

\* AddMember, RemoveMember, ChangeRole and Rename
LEMMA SettingsTypes ==
    ASSUME ChatInv, AddMember \/ RemoveMember \/ ChangeRole \/ Rename
    PROVE  ChatInv' /\ LogGrows
<1>1. pending \in [GroupIds -> SUBSET Inboxes] /\ shownMembers.set \subseteq Inboxes
  BY DEF ChatInv, ChatTypeOK
<1>2. CASE AddMember
  <2>1. PICK who \in Inboxes :
           /\ view \in GroupIds /\ Counted
           /\ pending' = [pending EXCEPT ![view] = @ \cup {who}]
           /\ Requests("add", who)
    BY <1>2 DEF AddMember
  <2>2. pending' \in [GroupIds -> SUBSET Inboxes]
    BY <1>1, <2>1
  <2> QED BY <2>1, <2>2, RequestTypes
<1>3. CASE RemoveMember
  BY <1>1, <1>3, RequestTypes DEF RemoveMember
<1>4. CASE ChangeRole
  BY <1>1, <1>4, RequestTypes DEF ChangeRole
<1>5. CASE Rename
  BY <1>1, <1>5, RequestTypes DEF Rename
<1> QED BY <1>2, <1>3, <1>4, <1>5

\* AddFromList
LEMMA AddFromListTypes ==
    ASSUME ChatInv, AddFromList
    PROVE  ChatInv' /\ LogGrows
<1>1. PICK g \in GroupIds, who \in Inboxes \ {current} :
         /\ Counted
         /\ tasks' = Launched(tasks, TaskOn("add", active, g, who))
         /\ UNCHANGED <<network, active, screenVars, pushVars, pending, reloads>>
  BY DEF AddFromList
<1>2. "add" \in Fallible
  BY DEF Fallible
<1>3. GroupsInv' /\ LogGrows
  BY <1>1, <1>2, HandlerStarts DEF ChatInv
<1>4. ops' \in 0..MaxOps /\ pushPending <= ops'
  BY <1>1, Counts
<1> QED BY <1>1, <1>3, <1>4 DEF ChatInv, ChatTypeOK, screenVars, pushVars

\* Switch
LEMMA SwitchTypes ==
    ASSUME ChatInv, Switch
    PROVE  ChatInv' /\ LogGrows
<1>1. PICK i \in Ids :
         /\ Counted /\ active' = i /\ switched' = TRUE
         /\ tasks' = Launched(tasks, <<SwitchTask(i)>>)
         /\ UNCHANGED <<network, screenVars, seen, pushPending, pushes, early,
                        old, pending, reloads>>
  BY DEF Switch
<1>2. "addresses" \in PCs \ {"idle", "senders"}
  BY DEF PCs
<1>3. SwitchTask(i) \in Tasks /\ HandlerOK(SwitchTask(i))
  BY <1>2, CallHandler DEF SwitchTask
<1>4. Handlers(Launched(tasks, <<SwitchTask(i)>>))
  BY <1>3, HandlersNow, NewHandler DEF ChatInv
<1>5. GroupsInv' /\ LogGrows
  BY <1>1, <1>4, HandlersStep DEF ChatInv
<1>6. ops' \in 0..MaxOps /\ pushPending <= ops'
  BY <1>1, Counts
<1> QED BY <1>1, <1>5, <1>6 DEF ChatInv, ChatTypeOK, screenVars

\* Reload
LEMMA ReloadTypes ==
    ASSUME ChatInv, Reload
    PROVE  ChatInv' /\ LogGrows
<1>1. /\ active' = current /\ tasks' = [s \in Slots |-> Idle] /\ Loaded
      /\ reloads < MaxReloads /\ reloads' = reloads + 1
      /\ UNCHANGED <<network, current, pending, ops>>
  BY DEF Reload
<1>2. active' \in Ids /\ Handlers([s \in Slots |-> Idle])
  BY <1>1, IdleHandler DEF ChatInv, ChatTypeOK, Handlers
<1>3. GroupsInv' /\ LogGrows
  BY <1>1, <1>2, HandlersStep DEF ChatInv
<1>4. /\ 0 \in 0..MaxLog /\ 0 \in 0..MaxOps /\ ops \in 0..MaxOps
      /\ reloads' \in 0..MaxReloads
  BY <1>1, ConstantFacts, ChatAssumption DEF ChatInv, ChatTypeOK
<1>5. \A g \in GroupIds : Len(log[g]) \in 0..MaxLog
  BY LenProperties, ConstantFacts DEF ChatInv, GroupsInv, GroupsTypeOK
<1>6. old' \in [GroupIds -> 0..MaxLog]
  BY <1>1, <1>5 DEF Loaded
<1>7. /\ pushes' \in [GroupIds -> [Positions -> Nat]]
      /\ seen' \in [GroupIds -> SUBSET Positions]
      /\ shown' \in [of : GroupIds \cup {NoOne}, n : 0..MaxLog]
      /\ shownMembers' \in [of : GroupIds \cup {NoOne}, set : SUBSET Inboxes]
  BY <1>1, <1>4 DEF Loaded, Nothing, NoMembers
<1>8. /\ current' \in Ids /\ view' \in {"list"} \cup GroupIds
      /\ early' \subseteq GroupIds \X Inboxes /\ switched' \in BOOLEAN
      /\ pending' \in [GroupIds -> SUBSET Inboxes]
  BY <1>1 DEF Loaded, ChatInv, ChatTypeOK
<1>9. /\ pushPending' \in 0..MaxOps /\ ops' \in 0..MaxOps
      /\ pushPending' <= ops'
  BY <1>1, <1>4 DEF Loaded
<1> QED BY <1>3, <1>4, <1>6, <1>7, <1>8, <1>9 DEF ChatInv, ChatTypeOK

\* Every step.
LEMMA ChatNext == ChatInv /\ [Next]_vars => ChatInv' /\ LogGrows
<1> SUFFICES ASSUME ChatInv, [Next]_vars
             PROVE  ChatInv' /\ LogGrows
  OBVIOUS
<1>1. ASSUME NEW s \in Slots, Arrives(s) \/ Resumes(s) \/ Fails(s)
      PROVE  ChatInv' /\ LogGrows
  BY <1>1, MessagesArriveTypes, MembersArriveTypes, ListArrivesTypes,
     IdentityListArrivesTypes, ResumesTypes DEF Arrives
<1>2. CASE User
  BY <1>2, OpenChatTypes, BackTypes, SendTypes, SettingsTypes,
     AddFromListTypes, SwitchTypes, ReloadTypes DEF User
<1>3. CASE Poll \/ Foreground \/ Elsewhere
  BY <1>3, PollTypes, ForegroundTypes, ElsewhereTypes
<1>4. CASE UNCHANGED vars
  <2>1. active' \in Ids /\ Handlers(tasks) /\ tasks' = tasks
        /\ UNCHANGED network /\ UNCHANGED chatVars
    BY <1>4, HandlersNow
       DEF ChatInv, GroupsInv, GroupsTypeOK, vars, backend
  <2>2. GroupsInv' /\ LogGrows
    BY <2>1, HandlersStep DEF ChatInv
  <2> QED BY <2>1, <2>2, PageRests
<1> QED BY <1>1, <1>2, <1>3, <1>4 DEF Next

-----------------------------------------------------------------------------
(* The inductive invariant of the pushes.                                  *)

\* An answer that has been collected holds at least the messages older than
\* the page, and without a switch no list of identities is on its way.
TaskOK(t) ==
    /\ t.pc = "senders" => old[t.gid] <= t.n
    /\ ~switched => t.pc # "addresses"

TasksOK == \A s \in Slots : TaskOK(tasks[s])

OldOK == \A g \in GroupIds : old[g] <= Len(log[g])

\* What was pushed is in the set of messages seen.
PushesOK == \A g \in GroupIds, k \in Positions : pushes[g][k] > 0 => k \in seen[g]

\* Once that set has been made for a conversation it holds the user's messages
\* older than the page, if the user has been the same all along.
SeenOK ==
    ~switched => \A g \in GroupIds :
        seen[g] # {} =>
            \A k \in 1..old[g] : log[g][k] = current => k \in seen[g]

PushInv ==
    TasksOK /\ OldOK /\ PushesOK /\ SeenOK /\ PushedOnce /\ HistoryNotPushed

IInv == ChatInv /\ PushInv

-----------------------------------------------------------------------------
(* Steps that push nothing.                                                *)

\* Each handler in ts is there already or at none of the two points.
Calm(ts) ==
    \A s \in Slots :
        ts[s] = tasks[s] \/ ts[s].pc \notin {"senders", "addresses"}

\* Such handlers are as they should be.
LEMMA CalmTasks ==
    ASSUME TasksOK, old' = old, switched' \in {switched, TRUE},
           switched \in BOOLEAN, NEW ts, Calm(ts), tasks' = ts
    PROVE  TasksOK'
<1> SUFFICES ASSUME NEW s \in Slots
             PROVE  /\ tasks'[s].pc = "senders"
                          => old[tasks'[s].gid] <= tasks'[s].n
                    /\ ~switched' => tasks'[s].pc # "addresses"
  BY DEF TasksOK, TaskOK
<1>1. CASE ts[s] = tasks[s]
  <2>1. tasks'[s] = tasks[s] /\ TaskOK(tasks[s])
    BY <1>1 DEF TasksOK
  <2>2. switched => switched'
    BY Zenon
  <2> QED BY <2>1, <2>2 DEF TaskOK
<1>2. CASE ts[s].pc \notin {"senders", "addresses"}
  BY <1>2
<1> QED BY <1>1, <1>2 DEF Calm

\* One handler goes on or ends.
LEMMA OneCalm ==
    ASSUME ChatInv, NEW s \in Slots, NEW u, u.pc \notin {"senders", "addresses"}
    PROVE  Calm([tasks EXCEPT ![s] = u])
BY DEF Calm, ChatInv, GroupsInv, GroupsTypeOK

\* New handlers start.
LEMMA LaunchedCalm ==
    ASSUME NEW seq, Len(seq) \in Nat,
           \A k \in 1..Len(seq) : seq[k].pc \notin {"senders", "addresses"}
    PROVE  Calm(Launched(tasks, seq))
BY LaunchedMembers DEF Calm

\* One is started for a conversation.
LEMMA StartedCalm ==
    ASSUME NEW pc, pc \notin {"senders", "addresses"}, NEW i, NEW g, NEW who
    PROVE  Calm(Launched(tasks, TaskOn(pc, i, g, who)))
<1>1. PICK seq : seq = TaskOn(pc, i, g, who)
  OBVIOUS
<1>2. Len(seq) \in Nat /\ \A k \in 1..Len(seq) : seq[k] = Call(pc, i, g, who)
  BY <1>1, TaskOnMembers
<1>3. \A k \in 1..Len(seq) : seq[k].pc = pc
  BY <1>2, CallFields
<1> QED BY <1>1, <1>2, <1>3, LaunchedCalm

\* What a step has to show that leaves the pushes alone.
LEMMA NothingPushed ==
    ASSUME IInv, LogGrows, TasksOK',
           UNCHANGED <<current, seen, pushes, old, switched>>
    PROVE  PushInv'
<1>1. \A g \in GroupIds : /\ Len(log[g]) \in Nat /\ Len(log'[g]) \in Nat
                          /\ old[g] \in Nat /\ old[g] <= Len(log[g])
  BY LenProperties, ConstantFacts
     DEF LogGrows, IInv, PushInv, OldOK, ChatInv, ChatTypeOK, GroupsInv, GroupsTypeOK
<1>2. OldOK'
  BY <1>1 DEF OldOK, LogGrows
<1>3. SeenOK'
  <2> SUFFICES ASSUME ~switched, NEW g \in GroupIds, seen[g] # {},
                      NEW k \in 1..old[g], log'[g][k] = current
               PROVE  k \in seen[g]
    BY DEF SeenOK
  <2>1. k \in 1..Len(log[g])
    BY <1>1
  <2>2. log[g][k] = current
    BY <2>1 DEF LogGrows
  <2> QED BY <2>2 DEF IInv, PushInv, SeenOK
<1>4. PushesOK' /\ PushedOnce' /\ HistoryNotPushed'
  BY DEF IInv, PushInv, PushesOK, PushedOnce, HistoryNotPushed
<1> QED BY <1>2, <1>3, <1>4 DEF PushInv

\* In particular when it only starts handlers, ends them or lets them go on.
LEMMA CalmStep ==
    ASSUME IInv, LogGrows, NEW ts, Calm(ts), tasks' = ts,
           UNCHANGED <<current, seen, pushes, old, switched>>
    PROVE  PushInv'
<1>1. TasksOK'
  BY CalmTasks DEF IInv, PushInv, ChatInv, ChatTypeOK
<1> QED BY <1>1, NothingPushed

\* A handler that ends.
LEMMA DoneCalm ==
    ASSUME ChatInv, NEW s \in Slots
    PROVE  Calm(Done(s))
BY IdleHandler, OneCalm DEF Done

\* Answers that hold no messages.
LEMMA AnswersPushNothing ==
    ASSUME IInv, LogGrows, NEW s \in Slots,
           MembersArrive(s) \/ ListArrives(s) \/ Fails(s)
    PROVE  PushInv'
<1>1. tasks' = Done(s) /\ UNCHANGED <<current, seen, pushes, old, switched>>
  BY DEF MembersArrive, ListArrives, Fails, CallFails, Done, chatVars,
         screenVars, pushVars
<1>2. Calm(Done(s))
  BY DoneCalm DEF IInv
<1> QED BY <1>1, <1>2, CalmStep

\* The messages collected are at least those the page found when it loaded.
LEMMA CollectPushesNothing ==
    ASSUME IInv, LogGrows, NEW s \in Slots, CollectMessages(s), UNCHANGED chatVars
    PROVE  PushInv'
<1> DEFINE t == tasks[s]
           n == Len(log[t.gid])
           v == [t EXCEPT !.pc = "senders"]
           u == [v EXCEPT !.n = n]
<1>1. t \in Tasks /\ HandlerOK(t) /\ t.pc = "fetch"
  BY HandlerAt DEF IInv, ChatInv, CollectMessages
<1>2. t.gid \in GroupIds /\ old[t.gid] <= n
  BY <1>1 DEF HandlerOK, IInv, PushInv, OldOK
<1>3. [t EXCEPT !.pc = "senders", !.n = n] = u
  BY <1>1 DEF Tasks
<1>4. tasks' = [tasks EXCEPT ![s] = u]
  BY <1>3 DEF CollectMessages
<1> HIDE DEF n
<1>5. u.pc = "senders" /\ u.gid = t.gid /\ u.n = n
  <2>1. v \in [pc : {"senders"}, id : Ids \cup {NoOne},
               gid : GroupIds \cup {NoOne}, who : Inboxes \cup {NoOne},
               list : Seq(Summary), n : Nat] /\ v.gid = t.gid
    BY <1>1 DEF Tasks
  <2> HIDE DEF v
  <2> QED BY <2>1
<1> HIDE DEF u
<1>6. old' = old /\ switched' = switched
      /\ UNCHANGED <<current, seen, pushes, old, switched>>
  BY DEF chatVars, screenVars, pushVars
<1>7. TasksOK'
  <2> SUFFICES ASSUME NEW r \in Slots
               PROVE  /\ tasks'[r].pc = "senders"
                            => old[tasks'[r].gid] <= tasks'[r].n
                      /\ ~switched => tasks'[r].pc # "addresses"
    BY <1>6 DEF TasksOK, TaskOK
  <2>1. tasks'[r] = IF r = s THEN u ELSE tasks[r]
    BY <1>4 DEF IInv, ChatInv, GroupsInv, GroupsTypeOK
  <2>2. CASE r = s
    BY <1>2, <1>5, <2>1, <2>2
  <2>3. CASE r # s
    BY <2>1, <2>3 DEF IInv, PushInv, TasksOK, TaskOK
  <2> QED BY <2>2, <2>3
<1> QED BY <1>6, <1>7, NothingPushed

\* Any other handler that goes on without reaching the page.
LEMMA ResumesPushNothing ==
    ASSUME IInv, LogGrows, NEW s \in Slots, Resumes(s)
    PROVE  PushInv'
<1>1. UNCHANGED chatVars /\ UNCHANGED <<current, seen, pushes, old, switched>>
  BY DEF Resumes, chatVars, screenVars, pushVars
<1>2. CASE CollectMessages(s)
  BY <1>1, <1>2, CollectPushesNothing
<1>3. CASE CollectList(s)
  <2> DEFINE t == tasks[s]
             list == Listing(t.id)
             v == [t EXCEPT !.pc = "names"]
             u == [v EXCEPT !.list = list]
  <2>1. t \in Tasks
    BY HandlerAt DEF IInv, ChatInv
  <2>2. tasks' = [tasks EXCEPT ![s] = [t EXCEPT !.pc = "names", !.list = list]]
    BY <1>3 DEF CollectList
  <2> HIDE DEF list
  <2>3. [t EXCEPT !.pc = "names", !.list = list] = u
    BY <2>1 DEF Tasks
  <2>4. u.pc = "names"
    <3>1. v \in [pc : {"names"}, id : Ids \cup {NoOne},
                 gid : GroupIds \cup {NoOne}, who : Inboxes \cup {NoOne},
                 list : Seq(Summary), n : Nat]
      BY <2>1 DEF Tasks
    <3> HIDE DEF v
    <3> QED BY <3>1
  <2> HIDE DEF u
  <2>5. Calm([tasks EXCEPT ![s] = u])
    BY <2>4, OneCalm DEF IInv
  <2> QED BY <1>1, <2>2, <2>3, <2>5, CalmStep
<1>4. CASE MessageSent(s)
  <2>1. PICK u : u = [tasks[s] EXCEPT !.pc = "fetch"]
    OBVIOUS
  <2>2. u.pc = "fetch"
    BY <2>1, HandlerAt DEF IInv, ChatInv, Tasks
  <2>3. tasks' = [tasks EXCEPT ![s] = u]
    BY <1>4, <2>1 DEF MessageSent
  <2>4. Calm([tasks EXCEPT ![s] = u])
    BY <2>2, OneCalm DEF IInv
  <2> QED BY <1>1, <2>3, <2>4, CalmStep
<1>5. CASE MembersAdded(s) \/ GroupRenamed(s)
  <2>1. tasks' = [tasks EXCEPT ![s] = ListTask(active)]
    BY <1>5 DEF MembersAdded, GroupRenamed, ThenList
  <2>2. PICK u : u = ListTask(active)
    OBVIOUS
  <2>3. u.pc = "sync"
    BY <2>2, CallFields DEF ListTask
  <2>4. Calm([tasks EXCEPT ![s] = u])
    BY <2>3, OneCalm DEF IInv
  <2> QED BY <1>1, <2>1, <2>2, <2>4, CalmStep
<1>6. CASE MemberRemoved(s) \/ RoleChanged(s)
  <2> DEFINE next == TaskOn("members", active, tasks[s].gid, NoOne)
  <2>1. PICK u : u = IF next = <<>> THEN Idle ELSE next[1]
    OBVIOUS
  <2>2. u = Idle \/ u = Call("members", active, tasks[s].gid, NoOne)
    BY <2>1, TaskOnMembers
  <2>3. u.pc \notin {"senders", "addresses"}
    BY <2>2, IdleHandler, CallFields
  <2>4. tasks' = [tasks EXCEPT ![s] = u]
    BY <1>6, <2>1 DEF MemberRemoved, RoleChanged, ThenMembers
  <2>5. Calm([tasks EXCEPT ![s] = u])
    BY <2>3, OneCalm DEF IInv
  <2> QED BY <1>1, <2>4, <2>5, CalmStep
<1> QED BY <1>2, <1>3, <1>4, <1>5, <1>6 DEF Resumes

\* Requests about a conversation, the chat that opens and the one that closes.
LEMMA RequestsPushNothing ==
    ASSUME IInv, LogGrows,
           \/ OpenChat \/ Back \/ Poll \/ Foreground \/ Send \/ AddMember
           \/ RemoveMember \/ ChangeRole \/ Rename \/ AddFromList \/ Elsewhere
    PROVE  PushInv'
<1>1. UNCHANGED <<current, seen, pushes, old, switched>>
  BY DEF OpenChat, Back, Poll, Foreground, Send, AddMember, RemoveMember,
         ChangeRole, Rename, AddFromList, Elsewhere, Requests, chatVars, screenVars, pushVars
<1>2. CASE Back \/ Elsewhere
  <2>1. tasks' = tasks /\ Calm(tasks)
    BY <1>2 DEF Back, Elsewhere, Hears, backend, Calm
  <2> QED BY <1>1, <2>1, CalmStep
<1>3. CASE OpenChat \/ Foreground
  <2>1. PICK g \in GroupIds : tasks' = Launched(tasks, OpenTasks(active, g))
    BY <1>3 DEF OpenChat, Foreground
  <2>2. active \in Ids
    BY DEF IInv, ChatInv, GroupsInv, GroupsTypeOK
  <2>3. PICK seq : seq = OpenTasks(active, g)
    OBVIOUS
  <2>4. /\ Len(seq) \in Nat
        /\ \A k \in 1..Len(seq) : seq[k].pc \notin {"senders", "addresses"}
    BY <2>2, <2>3, OpenTasksMembers, CallFields
  <2>5. Calm(Launched(tasks, seq))
    BY <2>4, LaunchedCalm
  <2> QED BY <1>1, <2>1, <2>3, <2>5, CalmStep
<1>4. CASE \/ Poll \/ Send \/ AddMember \/ RemoveMember \/ ChangeRole \/ Rename
           \/ AddFromList
  <2>1. PICK pc, g, who :
           /\ pc \in {"fetch", "send", "add", "remove", "role", "rename"}
           /\ tasks' = Launched(tasks, TaskOn(pc, active, g, who))
    BY <1>4 DEF Poll, PollTask, Send, AddMember, RemoveMember, ChangeRole,
                Rename, AddFromList, Requests
  <2>2. Calm(Launched(tasks, TaskOn(pc, active, g, who)))
    BY <2>1, StartedCalm
  <2> QED BY <1>1, <2>1, <2>2, CalmStep
<1> QED BY <1>2, <1>3, <1>4

-----------------------------------------------------------------------------
(* An answer with messages.                                                *)

\* It holds at least the messages that are older than the page.
LEMMA AnswerIsRecent ==
    ASSUME IInv, NEW s \in Slots, NEW n \in MessagesPosted(s)
    PROVE  tasks[s].gid \in GroupIds /\ n \in Nat /\ old[tasks[s].gid] <= n
<1> DEFINE g == tasks[s].gid
<1>1. /\ g \in GroupIds /\ n \in Nat
      /\ \/ tasks[s].pc = "senders" /\ n = tasks[s].n
         \/ log[g] = <<>>
  BY AnswerType DEF IInv, ChatInv
<1>2. old[g] <= Len(log[g]) /\ old[g] \in 0..MaxLog
  BY <1>1 DEF IInv, PushInv, OldOK, ChatInv, ChatTypeOK
<1>3. tasks[s].pc = "senders" => old[g] <= tasks[s].n
  BY DEF IInv, PushInv, TasksOK, TaskOK
<1>4. log[g] = <<>> => old[g] <= n
  BY <1>1, <1>2
<1> QED BY <1>1, <1>3, <1>4

\* What is due was not in the set, which had been made.
LEMMA DueIsNew ==
    ASSUME NEW g \in GroupIds, NEW n \in Nat, NEW k \in Due(g, n)
    PROVE  k \in 1..n /\ log[g][k] = current /\ k \notin seen[g] /\ seen[g] # {}
BY DEF Due, Fresh, OwnDelivered

\* What is pushed is new, and it is in the set from then on.
LEMMA MessagesArriveStep ==
    ASSUME IInv, ChatInv', NEW s \in Slots, MessagesArrive(s)
    PROVE  PushInv'
<1> DEFINE g == tasks[s].gid
<1>1. PICK n \in MessagesPosted(s) :
         /\ seen' = [seen EXCEPT ![g] = SeenAfter(g, n)]
         /\ pushes' = [pushes EXCEPT ![g] =
               [k \in Positions |-> IF k \in Due(g, n) THEN @[k] + 1 ELSE @[k]]]
         /\ tasks' = Done(s)
         /\ UNCHANGED <<network, active, current, view, old, switched>>
  BY DEF MessagesArrive
<1>2. g \in GroupIds /\ n \in Nat /\ old[g] <= n
  BY AnswerIsRecent
<1>3. log' = log /\ old' = old /\ current' = current /\ switched' = switched
  BY <1>1 DEF network
<1>4. TasksOK' /\ OldOK'
  <2>1. Calm(Done(s)) /\ switched \in BOOLEAN
    BY DoneCalm DEF IInv, ChatInv, ChatTypeOK
  <2> QED BY <1>1, <1>3, <2>1, CalmTasks DEF IInv, PushInv, OldOK
<1>5. /\ pushes \in [GroupIds -> [Positions -> Nat]]
      /\ seen \in [GroupIds -> SUBSET Positions] /\ old[g] \in Nat
  BY <1>2 DEF IInv, ChatInv, ChatTypeOK
<1> DEFINE Kept(h) == seen'[h] = seen[h] /\ pushes'[h] = pushes[h]
<1>6. \A h \in GroupIds : h # g => Kept(h)
  BY <1>1, <1>5
<1>7. seen'[g] = seen[g] \cup OwnDelivered(g, n)
  BY <1>1, <1>2, <1>5 DEF SeenAfter
<1>8. \A k \in Positions :
         pushes'[g][k] = IF k \in Due(g, n) THEN pushes[g][k] + 1
                                            ELSE pushes[g][k]
  BY <1>1, <1>2, <1>5
<1>9. \A k \in Due(g, n) : k \in OwnDelivered(g, n)
  BY <1>2, DueIsNew DEF OwnDelivered
<1>10. PushesOK'
  <2> SUFFICES ASSUME NEW h \in GroupIds, NEW k \in Positions, pushes'[h][k] > 0
               PROVE  k \in seen'[h]
    BY DEF PushesOK
  <2>1. CASE h # g
    BY <1>6, <2>1 DEF IInv, PushInv, PushesOK
  <2>2. CASE h = g
    BY <1>7, <1>8, <1>9, <2>2 DEF IInv, PushInv, PushesOK
  <2> QED BY <2>1, <2>2
<1>11. SeenOK'
  <2> SUFFICES ASSUME ~switched, NEW h \in GroupIds, seen'[h] # {},
                      NEW k \in 1..old[h], log[h][k] = current
               PROVE  k \in seen'[h]
    BY <1>3 DEF SeenOK
  <2>1. CASE h # g
    BY <1>6, <2>1 DEF IInv, PushInv, SeenOK
  <2>2. CASE h = g
    <3>1. k \in 1..n
      BY <1>2, <1>5, <2>2
    <3> QED BY <1>7, <2>2, <3>1 DEF OwnDelivered
  <2> QED BY <2>1, <2>2
<1>12. PushedOnce'
  <2> SUFFICES ASSUME NEW h \in GroupIds, NEW k \in Positions
               PROVE  pushes'[h][k] <= 1
    BY DEF PushedOnce
  <2>1. CASE h # g
    BY <1>6, <2>1 DEF IInv, PushInv, PushedOnce
  <2>2. CASE h = g /\ k \notin Due(g, n)
    BY <1>8, <2>2 DEF IInv, PushInv, PushedOnce
  <2>3. CASE h = g /\ k \in Due(g, n)
    <3>1. pushes[g][k] = 0
      BY <1>2, <1>5, <2>3, DueIsNew DEF IInv, PushInv, PushesOK
    <3> QED BY <1>8, <2>3, <3>1
  <2> QED BY <2>1, <2>2, <2>3
<1>13. HistoryNotPushed'
  <2> SUFFICES ASSUME ~switched, NEW h \in GroupIds, NEW k \in Positions,
                      pushes'[h][k] > 0
               PROVE  k > old[h]
    BY <1>3 DEF HistoryNotPushed
  <2>1. CASE h # g
    BY <1>6, <2>1 DEF IInv, PushInv, HistoryNotPushed
  <2>2. CASE h = g /\ k \notin Due(g, n)
    BY <1>8, <2>2 DEF IInv, PushInv, HistoryNotPushed
  <2>3. CASE h = g /\ k \in Due(g, n)
    <3>1. log[g][k] = current /\ k \notin seen[g] /\ seen[g] # {} /\ k \in 1..n
      BY <1>2, <2>3, DueIsNew
    <3>2. k \notin 1..old[g]
      BY <1>2, <3>1 DEF IInv, PushInv, SeenOK
    <3> QED BY <1>2, <1>5, <2>3, <3>1, <3>2
  <2> QED BY <2>1, <2>2, <2>3
<1> QED BY <1>4, <1>10, <1>11, <1>12, <1>13 DEF PushInv

-----------------------------------------------------------------------------
(* Another identity, and a new page.                                       *)

\* The worker switches; from then on the page's user may be another.
LEMMA SwitchStep == IInv /\ Switch => PushInv'
<1> SUFFICES ASSUME IInv, Switch
             PROVE  PushInv'
  OBVIOUS
<1>1. PICK i \in Ids :
         /\ switched' = TRUE /\ tasks' = Launched(tasks, <<SwitchTask(i)>>)
         /\ UNCHANGED <<network, seen, pushes, old>>
  BY DEF Switch, screenVars
<1>2. TasksOK'
  <2> SUFFICES ASSUME NEW s \in Slots
               PROVE  tasks'[s].pc = "senders" => old[tasks'[s].gid] <= tasks'[s].n
    BY <1>1 DEF TasksOK, TaskOK
  <2>1. PICK u : u = SwitchTask(i)
    OBVIOUS
  <2>2. u.pc = "addresses" /\ Len(<<u>>) = 1 /\ <<u>>[1] = u
    BY <2>1, CallFields DEF SwitchTask
  <2>3. tasks'[s] = tasks[s] \/ tasks'[s] = u
    <3>1. PICK seq : seq = <<u>>
      OBVIOUS
    <3>2. /\ Len(seq) \in Nat /\ \A k \in 1..Len(seq) : seq[k] = u
          /\ tasks' = Launched(tasks, seq)
      BY <1>1, <2>1, <2>2, <3>1
    <3> QED BY <3>2, LaunchedMembers
  <2> QED BY <2>2, <2>3 DEF IInv, PushInv, TasksOK, TaskOK
<1> QED
  BY <1>1, <1>2
     DEF IInv, PushInv, OldOK, PushesOK, PushedOnce, SeenOK, HistoryNotPushed,
         network

\* The list of identities is on its way only after a switch.
LEMMA IdentityListArrivesStep ==
    ASSUME IInv, NEW s \in Slots, IdentityListArrives(s)
    PROVE  PushInv'
<1>1. /\ tasks[s].pc = "addresses" /\ tasks' = Done(s)
      /\ UNCHANGED <<network, pushVars>>
  BY DEF IdentityListArrives
<1>2. switched /\ switched' = switched /\ old' = old
  BY <1>1 DEF IInv, PushInv, TasksOK, TaskOK, pushVars
<1>3. TasksOK'
  <2>1. Calm(Done(s)) /\ switched \in BOOLEAN
    BY DoneCalm DEF IInv, ChatInv, ChatTypeOK
  <2> QED BY <1>1, <1>2, <2>1, CalmTasks DEF IInv, PushInv
<1> QED
  BY <1>1, <1>2, <1>3
     DEF IInv, PushInv, OldOK, PushesOK, PushedOnce, SeenOK, HistoryNotPushed,
         network, pushVars

\* A page that has just been loaded has pushed nothing.
LEMMA ReloadStep == IInv /\ Reload => PushInv'
<1> SUFFICES ASSUME IInv, Reload
             PROVE  PushInv'
  OBVIOUS
<1>1. Loaded /\ log' = log /\ tasks' = [s \in Slots |-> Idle]
  BY DEF Reload, network
<1>2. TasksOK'
  BY <1>1, IdleHandler DEF TasksOK, TaskOK
<1>3. OldOK'
  <2>1. \A g \in GroupIds : Len(log[g]) \in Nat
    BY LenProperties DEF IInv, ChatInv, GroupsInv, GroupsTypeOK
  <2> QED BY <1>1, <2>1 DEF OldOK, Loaded
<1>4. \A g \in GroupIds, k \in Positions : pushes'[g][k] = 0 /\ seen'[g] = {}
  BY <1>1 DEF Loaded
<1>5. PushesOK' /\ PushedOnce' /\ HistoryNotPushed'
  BY <1>4 DEF PushesOK, PushedOnce, HistoryNotPushed
<1>6. SeenOK'
  BY <1>1 DEF SeenOK, Loaded
<1> QED BY <1>2, <1>3, <1>5, <1>6 DEF PushInv

-----------------------------------------------------------------------------
(* The theorems.                                                           *)

\* The page as it is first loaded.
LEMMA InitOK == Init => IInv
<1> SUFFICES ASSUME Init
             PROVE  IInv
  OBVIOUS
<1>1. ChatInv
  BY ChatStarts
<1>2. TasksOK
  BY IdleHandler DEF Init, TasksOK, TaskOK
<1>3. OldOK
  <2>1. \A g \in GroupIds : Len(log[g]) \in Nat
    BY <1>1, LenProperties DEF ChatInv, GroupsInv, GroupsTypeOK
  <2> QED BY <2>1 DEF OldOK, Init
<1>4. \A g \in GroupIds, k \in Positions : pushes[g][k] = 0 /\ seen[g] = {}
  BY DEF Init
<1>5. PushesOK /\ PushedOnce /\ HistoryNotPushed
  BY <1>4 DEF PushesOK, PushedOnce, HistoryNotPushed
<1>6. SeenOK
  BY DEF SeenOK, Init
<1> QED BY <1>1, <1>2, <1>3, <1>5, <1>6 DEF IInv, PushInv

\* Every step keeps the invariant.
LEMMA NextOK == IInv /\ [Next]_vars => IInv'
<1> SUFFICES ASSUME IInv, [Next]_vars
             PROVE  PushInv'
  BY ChatNext DEF IInv
<1>1. LogGrows /\ ChatInv'
  BY ChatNext DEF IInv
<1>2. ASSUME NEW s \in Slots, Arrives(s) \/ Resumes(s) \/ Fails(s)
      PROVE  PushInv'
  BY <1>1, <1>2, MessagesArriveStep, AnswersPushNothing,
     IdentityListArrivesStep, ResumesPushNothing DEF Arrives
<1>3. CASE User \/ Poll \/ Foreground \/ Elsewhere
  BY <1>1, <1>3, RequestsPushNothing, SwitchStep, ReloadStep DEF User
<1>4. CASE UNCHANGED vars
  <2>1. tasks' = tasks /\ Calm(tasks)
        /\ UNCHANGED <<current, seen, pushes, old, switched>>
    BY <1>4 DEF vars, backend, chatVars, screenVars, pushVars, Calm
  <2> QED BY <1>1, <2>1, CalmStep
<1> QED BY <1>2, <1>3, <1>4 DEF Next

\* The invariant holds in every reachable state.
THEOREM Invariance == Spec => []IInv
BY InitOK, NextOK, PTL DEF Spec

\* The state of an open chat has its type: the counter of messages to be pushed
\* is never negative, though answers lower it by what they hold, and no more
\* messages are shown than the conversation may have.
THEOREM ChatStateTypes == Spec => []TypeOK
<1>1. IInv => TypeOK
  BY ChatTypes DEF IInv
<1> QED BY <1>1, Invariance, PTL

\* Until the page is reloaded it asks for at most one notification per message,
\* whatever answers repeat it or come late.
THEOREM PushedAtMostOnce == Spec => []PushedOnce
<1>1. IInv => PushedOnce
  BY DEF IInv, PushInv
<1> QED BY <1>1, Invariance, PTL

\* A message older than the page is not pushed unless the identity was switched.
THEOREM HistoryStaysQuiet == Spec => []HistoryNotPushed
<1>1. IInv => HistoryNotPushed
  BY DEF IInv, PushInv
<1> QED BY <1>1, Invariance, PTL
=============================================================================
