----------------------- MODULE ConversationListProofs -----------------------
(***************************************************************************)
(* What the pages show and report of the conversations, for any number of  *)
(* groups, people, messages and requests in flight: every list shown is    *)
(* one of the network's, a conversation stays marked until its newest      *)
(* message is left to the chat, a group is blocked only for who has left   *)
(* it, and the desktop page shows no chat its list does not have.          *)
(***************************************************************************)
EXTENDS DesktopPage, GroupsProofs

-----------------------------------------------------------------------------
(* The largest of a few numbers.                                           *)

\* A set of numbers up to m has a largest one.
LEMMA MaxProperties ==
    ASSUME NEW m \in Nat, NEW T, T \subseteq 0..m, T # {}
    PROVE  Max(T) \in T /\ \A j \in T : j <= Max(T)
<1> DEFINE c == Cardinality(T)
<1>1. T \subseteq Nat /\ IsFiniteSet(T)
  <2>1. IsFiniteSet(0..m)
    BY FS_Interval
  <2>2. IsFiniteSet(T)
    BY <2>1, FS_Subset
  <2> QED BY <2>2
<1>2. c \in Nat /\ c # 0
  BY <1>1, FS_CardinalityType, FS_EmptySet
<1>3. PICK x \in T : Rank(T, x) = c
  <2>1. c \in 1..c
    <3> HIDE DEF c
    <3> QED BY <1>2
  <2> QED BY <1>1, <2>1, RankReaches
<1>4. \A j \in T : x >= j
  <2> SUFFICES ASSUME NEW j \in T, x < j PROVE FALSE
    BY <1>1
  <2>1. Rank(T, x) < Rank(T, j) /\ Rank(T, j) \in 1..c
    BY <1>1, RankOrders
  <2> HIDE DEF c
  <2> QED BY <1>2, <1>3, <2>1
<1>5. Max(T) \in T /\ \A j \in T : Max(T) >= j
  BY <1>3, <1>4 DEF Max
<1>6. \A a, b \in T : a >= b => b <= a
  BY <1>1
<1> QED BY <1>5, <1>6

\* The largest of three.
LEMMA MaxOfThree ==
    ASSUME NEW m \in Nat, NEW a \in 0..m, NEW b \in 0..m, NEW c \in 0..m
    PROVE  /\ Max({a, b, c}) \in 0..m
           /\ a <= Max({a, b, c}) /\ b <= Max({a, b, c}) /\ c <= Max({a, b, c})
<1>1. {a, b, c} \subseteq 0..m /\ {a, b, c} # {}
  OBVIOUS
<1>2. Max({a, b, c}) \in {a, b, c} /\ \A j \in {a, b, c} : j <= Max({a, b, c})
  BY <1>1, MaxProperties
<1> QED BY <1>1, <1>2

-----------------------------------------------------------------------------
(* What the page takes from a list.                                        *)

\* Its entries.
LEMMA Entries ==
    ASSUME NEW list \in Seq(Summary), NEW k \in 1..Len(list)
    PROVE  list[k].id \in GroupIds /\ list[k].n \in Nat
           /\ list[k].from \in Inboxes \cup {NoOne}
<1>1. list[k] \in Summary
  BY ElementOfSeq
<1> QED BY <1>1 DEF Summary

\* The groups it names.
LEMMA NamedGroups ==
    ASSUME NEW list \in Seq(Summary)
    PROVE  /\ ListedIds(list) \subseteq GroupIds
           /\ \A v : Mounted(v, list) \subseteq GroupIds
           /\ \A t : DeskMounted(t, list) \subseteq GroupIds
           /\ \A v : NewIn(list, v) \subseteq GroupIds
BY Entries DEF ListedIds, Mounted, DeskMounted, NewIn

\* The newest message it shows of a group.
LEMMA NewestType ==
    ASSUME GroupsTypeOK, NEW list \in Seq(Summary), ListOK(list),
           NEW g \in GroupIds
    PROVE  /\ NewestIn(list, g) \in 0..Len(log[g])
           /\ NewestIn(list, g) \in 0..MaxLog
           /\ \A k \in 1..Len(list) :
                 list[k].id = g => list[k].n <= NewestIn(list, g)
           /\ NewestIn(list, g) > 0 =>
                 \E k \in 1..Len(list) :
                    list[k].id = g /\ list[k].n = NewestIn(list, g)
<1> DEFINE P == {j \in 1..Len(list) : list[j].id = g}
           T == {list[k].n : k \in P} \cup {0}
           m == Len(log[g])
<1>1. m \in Nat /\ m <= MaxLog /\ MaxLog \in Nat
  BY LenProperties, ConstantFacts DEF GroupsTypeOK
<1>2. \A k \in P : list[k].n \in 0..m
  BY DEF ListOK
<1>3. T \subseteq 0..m /\ T # {}
  <2> HIDE DEF m, P
  <2> QED BY <1>1, <1>2
<1>4. Max(T) \in T /\ \A j \in T : j <= Max(T)
  <2> HIDE DEF m, T
  <2> QED BY <1>1, <1>3, MaxProperties
<1>5. NewestIn(list, g) = Max(T)
  BY DEF NewestIn
<1>6. \A k \in P : list[k].n \in T
  OBVIOUS
<1>7. Max(T) \in 0..m /\ Max(T) \in 0..MaxLog
  <2>1. Max(T) \in 0..m
    BY <1>3, <1>4
  <2> HIDE DEF m, T
  <2> QED BY <1>1, <2>1
<1>8. Max(T) > 0 => \E k \in P : list[k].n = Max(T)
  <2>1. Max(T) \in {list[k].n : k \in P} \/ Max(T) = 0
    BY <1>4
  <2> HIDE DEF T
  <2> QED BY <2>1
<1> HIDE DEF T
<1> QED BY <1>4, <1>5, <1>6, <1>7, <1>8

-----------------------------------------------------------------------------
(* Types.                                                                  *)

\* What can go wrong with a leave or an acceptance.
Faulted == {"astray", "revived", "kept", "refused"} \X (Ids \cup {NoOne}) \X GroupIds

\* TypeOK of what the page itself keeps.
ScreenTypeOK ==
    /\ {current, listOf} \subseteq Ids \cup {NoOne} /\ saved \in Ids
    /\ convs \in Seq(Summary)
    /\ view \in {"home", "identities"} \cup GroupIds
    /\ pendingOpen \in BOOLEAN
    /\ leaving \in GroupIds \cup {NoOne} /\ inChat \in BOOLEAN
    /\ pendingBlocks \in [GroupIds -> Ids \cup {NoOne}]
    /\ blocked \subseteq Ids \X GroupIds
    /\ unread \subseteq GroupIds /\ ihu \subseteq Ids
    /\ lastSeen \in [GroupIds -> 0..MaxLog]
    /\ toChat \in [GroupIds -> 0..MaxLog]
    /\ faults \subseteq Faulted
    /\ mixed \in BOOLEAN
    /\ ops \in 0..MaxOps /\ reloads \in 0..MaxReloads

\* The list shown, and those that handlers hold, were once right.
PageInv == GroupsInv /\ ScreenTypeOK /\ ListOK(convs)

\* Which is what TypeOK asks for, and more.
LEMMA PageTypes == PageInv => TypeOK
BY DEF PageInv, GroupsInv, ScreenTypeOK, TypeOK, Faulted

\* A step of the worker or of other people leaves the page alone.
LEMMA BackendStep ==
    ASSUME PageInv, GroupsInv', LogGrows, UNCHANGED listVars
    PROVE  PageInv'
<1>1. convs \in Seq(Summary) /\ ListOK(convs) /\ convs' = convs
  BY DEF PageInv, ScreenTypeOK, listVars, shownVars
<1>2. PICK list \in Seq(Summary) : list = convs
  BY <1>1
<1>3. ListOK(list)'
  BY <1>1, <1>2, ListStays DEF PageInv, GroupsInv
<1>4. ListOK(convs)'
  BY <1>1, <1>2, <1>3 DEF ListOK
<1>5. ScreenTypeOK'
  BY DEF PageInv, ScreenTypeOK, listVars, shownVars, dialog, savedVars,
         blockVars, boundVars
<1> QED BY <1>4, <1>5 DEF PageInv

\* A list that is shown while nobody writes.
LEMMA ListShown ==
    ASSUME NEW list, ListOK(list), convs' = list, log' = log
    PROVE  ListOK(convs)'
BY DEF ListOK

\* handle_accept_invitation for some groups: a list for each one known.
LEMMA AcceptHandlers ==
    ASSUME NEW ts, Handlers(ts), NEW i \in Ids, NEW gs, gs \subseteq GroupIds
    PROVE  Handlers(Launched(ts, AcceptRequests(i, gs)))
<1> DEFINE n == Cardinality({g \in gs : Known(i, g)})
           seq == AcceptRequests(i, gs)
<1>1. n \in Nat
  <2>1. {g \in gs : Known(i, g)} \subseteq GroupIds
    OBVIOUS
  <2> QED BY <2>1, ConstantFacts, FS_Subset, FS_CardinalityType
<1>2. seq = [k \in 1..n |-> ListTask(i)]
  BY DEF AcceptRequests
<1>3. ListTask(i) \in Tasks /\ HandlerOK(ListTask(i))
  BY ListHandler
<1> HIDE DEF n
<1>4. seq \in Seq(Tasks) /\ Len(seq) = n
  <2>1. seq \in [1..n -> Tasks]
    BY <1>2, <1>3
  <2>2. seq \in Seq(Tasks)
    BY <1>1, <2>1, SeqDef
  <2>3. DOMAIN seq = 1..n
    BY <1>2
  <2> QED BY <1>1, <2>2, <2>3, LenProperties
<1>5. \A k \in 1..Len(seq) : seq[k] = ListTask(i)
  BY <1>2, <1>4
<1> QED BY <1>1, <1>3, <1>4, <1>5, NewHandlers

\* The rows that appear accept their invitations.
LEMMA RowsAppear ==
    ASSUME GroupsInv, NEW ts, Handlers(ts), NEW i \in Ids,
           NEW gs, gs \subseteq GroupIds,
           NEW c \in [Ids -> [GroupIds -> {"unknown", "allowed", "denied"}]],
           consent' = AcceptConsent(c, i, gs),
           tasks' = Launched(ts, AcceptRequests(i, gs)),
           active' \in Ids, UNCHANGED <<member, roster, log, recent>>
    PROVE  GroupsInv' /\ LogGrows
<1>1. consent' \in [Ids -> [GroupIds -> {"unknown", "allowed", "denied"}]]
  BY ConsentedType DEF AcceptConsent
<1>2. NetworkTypeOK' /\ LogGrows
  BY <1>1, LogStays DEF NetworkTypeOK, GroupsInv, GroupsTypeOK
<1>3. Handlers(Launched(ts, AcceptRequests(i, gs)))
  BY AcceptHandlers
<1> QED BY <1>2, <1>3, GroupsStep DEF GroupsInv

\* A list posted by the worker.
LEMMA PostedLists ==
    ASSUME PageInv, NEW s \in Slots, NEW list \in ListPosted(s)
    PROVE  /\ list \in Seq(Summary) /\ ListOK(list) /\ tasks[s].id \in Ids
           /\ ViewAfter(list) \in {"home", "identities"} \cup GroupIds
           /\ SeenAfter(list) \in [GroupIds -> 0..MaxLog]
           /\ Handlers(Done(s))
<1>1. list \in Seq(Summary) /\ ListOK(list) /\ tasks[s].id \in Ids
  BY PostedType DEF PageInv
<1>2. ViewAfter(list) \in {"home", "identities"} \cup GroupIds
  <2>1. ASSUME list # <<>> PROVE list[1].id \in GroupIds
    <3>1. Len(list) \in Nat /\ Len(list) # 0
      BY <1>1, <2>1, EmptySeq, LenProperties
    <3>2. 1 \in 1..Len(list)
      BY <3>1
    <3> QED BY <1>1, <3>2, Entries
  <2> QED BY <2>1 DEF ViewAfter, PageInv, ScreenTypeOK
<1>3. SeenAfter(list) \in [GroupIds -> 0..MaxLog]
  <2>1. \A g \in GroupIds : /\ NewestIn(list, g) \in 0..MaxLog
                            /\ lastSeen[g] \in 0..MaxLog
    BY <1>1, NewestType DEF PageInv, GroupsInv, ScreenTypeOK
  <2> QED BY <2>1 DEF SeenAfter
<1> QED BY <1>1, <1>2, <1>3, DoneHandlers DEF PageInv

\* How far the messages of the chat shown are left to it.
LEMMA ToChatType ==
    ASSUME PageInv, NEW list \in Seq(Summary), ListOK(list), NEW v
    PROVE  [g \in GroupIds |->
               IF g = v THEN Max({toChat[g], NewestIn(list, g), lastSeen[g]})
                        ELSE toChat[g]] \in [GroupIds -> 0..MaxLog]
<1>1. ASSUME NEW g \in GroupIds
      PROVE  /\ toChat[g] \in 0..MaxLog
             /\ Max({toChat[g], NewestIn(list, g), lastSeen[g]}) \in 0..MaxLog
  <2>1. /\ toChat[g] \in 0..MaxLog /\ lastSeen[g] \in 0..MaxLog
        /\ NewestIn(list, g) \in 0..MaxLog
    BY NewestType DEF PageInv, GroupsInv, ScreenTypeOK
  <2> QED BY <2>1, ConstantFacts, MaxOfThree
<1> QED BY <1>1

\* Blocks that are due are reported for who asked.
LEMMA BlocksType ==
    ASSUME PageInv, NEW list
    PROVE  /\ [g \in GroupIds |-> IF g \in BlocksDue(list) THEN NoOne
                                  ELSE pendingBlocks[g]]
                 \in [GroupIds -> Ids \cup {NoOne}]
           /\ {<<pendingBlocks[g], g>> : g \in BlocksDue(list)}
                 \subseteq Ids \X GroupIds
BY DEF PageInv, ScreenTypeOK, BlocksDue

\* The groups done of those whose rows appear have accepted their invitation.
Drawn(v, list, i, c, ts, more, done) ==
    /\ convs' = list /\ view' = v
    /\ done \subseteq Mounted(v, list)
    /\ consent' = AcceptConsent(c, i, done)
    /\ tasks' = Launched(ts, AcceptRequests(i, done))
    /\ faults' = (faults \ Refusals(i, Mounted(v, list)))
                 \cup Refusals(i, Mounted(v, list) \ done)
                 \cup Revivals(i, done) \cup more

\* When the page draws a list there are such groups.
LEMMA DrawnRows ==
    ASSUME NEW v, NEW list \in Seq(Summary), NEW i, NEW c, NEW ts, NEW more,
           Draws(v, list, i, c, ts, more)
    PROVE  \E done \in SUBSET GroupIds : Drawn(v, list, i, c, ts, more, done)
<1>1. Mounted(v, list) \subseteq GroupIds
  BY NamedGroups
<1>2. PICK done \in SUBSET {g \in Mounted(v, list) : Known(i, g)} :
         Drawn(v, list, i, c, ts, more, done)
  BY DEF Draws, Drawn
<1>3. done \in SUBSET GroupIds
  BY <1>1
<1> QED BY <1>2, <1>3

\* The page draws a list.
LEMMA PageDraws ==
    ASSUME PageInv, NEW v \in {"home", "identities"} \cup GroupIds,
           NEW list \in Seq(Summary), ListOK(list), NEW i \in Ids,
           NEW c \in [Ids -> [GroupIds -> {"unknown", "allowed", "denied"}]],
           NEW ts, Handlers(ts), NEW more \in SUBSET Faulted,
           Draws(v, list, i, c, ts, more),
           active' \in Ids, UNCHANGED <<member, roster, log, recent>>
    PROVE  /\ GroupsInv' /\ LogGrows /\ ListOK(convs)'
           /\ convs' = list /\ view' = v /\ faults' \subseteq Faulted
<1>0. PICK done \in SUBSET GroupIds : Drawn(v, list, i, c, ts, more, done)
  BY DrawnRows
<1>1. PICK gs : gs = Mounted(v, list)
  OBVIOUS
<1>2. /\ convs' = list /\ view' = v /\ done \subseteq gs
      /\ consent' = AcceptConsent(c, i, done)
      /\ tasks' = Launched(ts, AcceptRequests(i, done))
      /\ faults' = (faults \ Refusals(i, gs)) \cup Refusals(i, gs \ done)
                   \cup Revivals(i, done) \cup more
  BY <1>0, <1>1 DEF Drawn
<1>3. GroupsInv' /\ LogGrows
  BY <1>2, RowsAppear DEF PageInv
<1>4. Refusals(i, gs \ done) \subseteq Faulted /\ Revivals(i, done) \subseteq Faulted
  <2>1. gs \subseteq GroupIds
    BY <1>1, NamedGroups
  <2> QED BY <2>1 DEF Refusals, Revivals, Faulted
<1>5. faults' \subseteq Faulted
  <2>1. faults \subseteq Faulted
    BY DEF PageInv, ScreenTypeOK
  <2> QED BY <1>2, <1>4, <2>1
<1> QED BY <1>2, <1>3, <1>5, ListShown

-----------------------------------------------------------------------------
(* The mobile page: every step keeps PageInv.                              *)

\* handle_switch_identity, and the end of start-up.
LEMMA SwitchHandler ==
    ASSUME NEW i \in Ids
    PROVE  SwitchTask(i) \in Tasks /\ HandlerOK(SwitchTask(i))
<1>1. "addresses" \in PCs \ {"idle", "senders"}
  BY DEF PCs, Fallible
<1> QED BY <1>1, CallHandler DEF SwitchTask

\* Starting
LEMMA StartingHandlers == Handlers(Starting)
<1>1. SwitchTask(First) \in Tasks /\ HandlerOK(SwitchTask(First))
  BY SwitchHandler, ListAssumption
<1> QED BY <1>1, IdleHandler DEF Handlers, Starting

\* Init
LEMMA PageStarts == Init => PageInv
<1> SUFFICES ASSUME Init
             PROVE  PageInv
  OBVIOUS
<1>1. active \in Ids /\ tasks = Starting
  BY ListAssumption DEF Init
<1>2. Handlers(tasks)
  BY <1>1, StartingHandlers
<1>3. GroupsInv
  BY <1>1, <1>2, NetworkStarts DEF Init
<1>4. convs = <<>> /\ convs \in Seq(Summary) /\ ListOK(convs)
  BY EmptyListOK DEF Init
<1>5. 0 \in 0..MaxLog /\ 0 \in 0..MaxOps /\ 0 \in 0..MaxReloads
  BY ConstantFacts, ListAssumption
<1>6. ScreenTypeOK
  BY <1>1, <1>4, <1>5 DEF Init, ScreenTypeOK
<1> QED BY <1>3, <1>4, <1>6 DEF PageInv

\* The rest of the state when a list arrives, whatever the chat shown.
LEMMA ArrivalTypes ==
    ASSUME PageInv, NEW s \in Slots, NEW list \in ListPosted(s), NEW w,
           NEW vs \in SUBSET GroupIds,
           convs' = list, pendingOpen' = FALSE, lastSeen' = SeenAfter(list),
           view' \in {"home", "identities"} \cup GroupIds,
           unread' = vs \ w,
           ihu' = ihu \cup ({current} \ {NoOne}) \/ ihu' = ihu \ {current},
           pendingBlocks' = [g \in GroupIds |->
               IF g \in BlocksDue(list) THEN NoOne ELSE pendingBlocks[g]],
           blocked' = blocked \cup {<<pendingBlocks[g], g>> : g \in BlocksDue(list)},
           listOf' = tasks[s].id, log' = log,
           NEW v, toChat' = [g \in GroupIds |->
               IF g = v THEN Max({toChat[g], NewestIn(list, g), lastSeen[g]})
                        ELSE toChat[g]],
           faults' \subseteq Faulted,
           mixed' = (mixed \/ listOf \notin {NoOne, tasks[s].id}),
           UNCHANGED <<current, saved, dialog, ops, reloads>>
    PROVE  ScreenTypeOK' /\ ListOK(convs)'
<1>1. list \in Seq(Summary) /\ ListOK(list) /\ tasks[s].id \in Ids
      /\ lastSeen' \in [GroupIds -> 0..MaxLog]
  BY PostedLists
<1>2. ListOK(convs)'
  BY <1>1, ListShown
<1>3. toChat' \in [GroupIds -> 0..MaxLog]
  BY <1>1, ToChatType
<1>4. /\ pendingBlocks' \in [GroupIds -> Ids \cup {NoOne}]
      /\ {<<pendingBlocks[g], g>> : g \in BlocksDue(list)} \subseteq Ids \X GroupIds
  BY BlocksType
<1>5. blocked' \subseteq Ids \X GroupIds
  BY <1>4 DEF PageInv, ScreenTypeOK
<1>6. ihu' \subseteq Ids /\ unread' \subseteq GroupIds
  BY DEF PageInv, ScreenTypeOK
<1>7. mixed' \in BOOLEAN
  BY DEF PageInv, ScreenTypeOK
<1>8. ScreenTypeOK'
  BY <1>1, <1>3, <1>4, <1>5, <1>6, <1>7 DEF PageInv, ScreenTypeOK, dialog
<1> QED BY <1>2, <1>8

\* ConversationsArrive
LEMMA ConversationsArriveStep ==
    ASSUME PageInv, NEW s \in Slots, ConversationsArrive(s)
    PROVE  PageInv' /\ LogGrows
<1>1. PICK list \in ListPosted(s) :
        LET v      == ViewAfter(list)
            marked == unread \cup NewIn(list, v)
        IN  /\ pendingOpen' = FALSE
            /\ lastSeen' = SeenAfter(list)
            /\ unread' = marked \ OpenedAs(v)
            /\ ihu' = IF HasUnread(list, marked)
                      THEN ihu \cup ({current} \ {NoOne}) ELSE ihu \ {current}
            /\ pendingBlocks' = [g \in GroupIds |->
                   IF g \in BlocksDue(list) THEN NoOne ELSE pendingBlocks[g]]
            /\ blocked' = blocked \cup
                   {<<pendingBlocks[g], g>> : g \in BlocksDue(list)}
            /\ Draws(v, list, active, consent, Done(s), {})
            /\ listOf' = tasks[s].id
            /\ mixed' = (mixed \/ listOf \notin {NoOne, tasks[s].id})
            /\ toChat' = [g \in GroupIds |->
                   IF g = v THEN Max({toChat[g], NewestIn(list, g), lastSeen[g]})
                            ELSE toChat[g]]
            /\ UNCHANGED <<member, roster, log, recent, active, current, saved,
                           dialog, ops, reloads>>
  BY DEF ConversationsArrive
<1>v. PICK v : v = ViewAfter(list)
  OBVIOUS
<1>2. /\ list \in Seq(Summary) /\ ListOK(list) /\ Handlers(Done(s))
      /\ v \in {"home", "identities"} \cup GroupIds
  BY <1>v, PostedLists
<1>3. /\ unread \cup NewIn(list, v) \in SUBSET GroupIds /\ active \in Ids
      /\ consent \in [Ids -> [GroupIds -> {"unknown", "allowed", "denied"}]]
  BY <1>2, NamedGroups DEF PageInv, GroupsInv, GroupsTypeOK, ScreenTypeOK
<1>4. /\ pendingOpen' = FALSE /\ lastSeen' = SeenAfter(list)
      /\ unread' = (unread \cup NewIn(list, v)) \ OpenedAs(v)
      /\ ihu' = ihu \cup ({current} \ {NoOne}) \/ ihu' = ihu \ {current}
      /\ pendingBlocks' = [g \in GroupIds |->
            IF g \in BlocksDue(list) THEN NoOne ELSE pendingBlocks[g]]
      /\ blocked' = blocked \cup {<<pendingBlocks[g], g>> : g \in BlocksDue(list)}
      /\ Draws(v, list, active, consent, Done(s), {})
      /\ listOf' = tasks[s].id
      /\ mixed' = (mixed \/ listOf \notin {NoOne, tasks[s].id})
      /\ toChat' = [g \in GroupIds |->
             IF g = v THEN Max({toChat[g], NewestIn(list, g), lastSeen[g]})
                      ELSE toChat[g]]
      /\ UNCHANGED <<member, roster, log, recent, active, current, saved,
                     dialog, ops, reloads>>
  BY <1>1, <1>v
<1>5. /\ GroupsInv' /\ LogGrows /\ convs' = list /\ view' = v
      /\ faults' \subseteq Faulted
  <2>1. PICK i, c, ts : i = active /\ c = consent /\ ts = Done(s)
    OBVIOUS
  <2>2. /\ Draws(v, list, i, c, ts, {}) /\ Handlers(ts) /\ i \in Ids
        /\ c \in [Ids -> [GroupIds -> {"unknown", "allowed", "denied"}]]
        /\ active' \in Ids /\ UNCHANGED <<member, roster, log, recent>>
    BY <1>2, <1>3, <1>4, <2>1
  <2>3. {} \in SUBSET Faulted
    OBVIOUS
  <2> QED BY <1>2, <2>2, <2>3, PageDraws
<1>6. PICK w, vs : w = OpenedAs(v) /\ vs = unread \cup NewIn(list, v)
  OBVIOUS
<1>7. unread' = vs \ w /\ vs \in SUBSET GroupIds
  BY <1>3, <1>4, <1>6
<1>8. ScreenTypeOK' /\ ListOK(convs)'
  <2>1. log' = log /\ UNCHANGED <<current, saved, dialog, ops, reloads>>
    BY <1>4
  <2> QED BY <1>2, <1>4, <1>5, <1>7, <2>1, ArrivalTypes
<1> QED BY <1>5, <1>8 DEF PageInv

\* FirstIdentityListArrives
LEMMA FirstIdentityListArrivesStep ==
    ASSUME PageInv, NEW s \in Slots, FirstIdentityListArrives(s)
    PROVE  PageInv' /\ LogGrows
<1>1. PICK ts, i : ts = Done(s) /\ i = saved
  OBVIOUS
<1>2. Handlers(ts) /\ i \in Ids
  BY <1>1, DoneHandlers DEF PageInv, ScreenTypeOK
<1>3. /\ current' = i /\ active' = i
      /\ tasks' = Launched(ts, <<ListTask(i)>>)
         \/ tasks' = Launched(ts, <<SwitchTask(i), ListTask(i)>>)
      /\ UNCHANGED <<network, convs, view, pendingOpen, dialog, listOf,
                     savedVars, blockVars, boundVars>>
  BY <1>1 DEF FirstIdentityListArrives
<1>4. Handlers(Launched(ts, <<ListTask(i)>>))
  BY <1>2, ListHandler, NewHandler
<1>5. Handlers(Launched(ts, <<SwitchTask(i), ListTask(i)>>))
  <2>1. PICK a, b : a = SwitchTask(i) /\ b = ListTask(i)
    OBVIOUS
  <2>2. a \in Tasks /\ HandlerOK(a) /\ b \in Tasks /\ HandlerOK(b)
    BY <1>2, <2>1, ListHandler, SwitchHandler
  <2>3. Len(<<a, b>>) = 2 /\ <<a, b>>[1] = a /\ <<a, b>>[2] = b
    OBVIOUS
  <2>4. \A k \in 1..Len(<<a, b>>) :
           <<a, b>>[k] \in Tasks /\ HandlerOK(<<a, b>>[k])
    BY <2>2, <2>3
  <2> QED BY <1>2, <2>1, <2>3, <2>4, NewHandlers
<1>6. GroupsInv' /\ LogGrows
  BY <1>2, <1>3, <1>4, <1>5, HandlersStep DEF PageInv
<1>7. ScreenTypeOK'
  BY <1>2, <1>3 DEF PageInv, ScreenTypeOK, dialog, savedVars, blockVars, boundVars
<1>8. ListOK(convs)'
  BY <1>3, ListShown DEF PageInv, network
<1> QED BY <1>6, <1>7, <1>8 DEF PageInv

\* IdentityListArrives
LEMMA IdentityListArrivesStep ==
    ASSUME PageInv, NEW s \in Slots, IdentityListArrives(s)
    PROVE  PageInv' /\ LogGrows
<1> DEFINE ts == [tasks EXCEPT ![s] = ListTask(active)]
<1>1. tasks[s].id \in Ids /\ active \in Ids
  <2>1. tasks[s].pc = "addresses"
    BY DEF IdentityListArrives
  <2> QED BY <2>1, HandlerAt DEF HandlerOK, PageInv, GroupsInv, GroupsTypeOK
<1>2. Handlers(ts)
  BY ThenListHandlers DEF PageInv
<1>3. /\ current' = tasks[s].id /\ saved' = tasks[s].id
      /\ tasks' = Launched(ts, <<ListTask(active)>>)
      /\ UNCHANGED <<network, active, convs, view, pendingOpen, dialog, listOf,
                     unread, lastSeen, ihu, toChat, blockVars, boundVars>>
  BY DEF IdentityListArrives
<1> HIDE DEF ts
<1>4. Handlers(Launched(ts, <<ListTask(active)>>))
  BY <1>1, <1>2, ListHandler, NewHandler
<1>5. GroupsInv' /\ LogGrows
  BY <1>1, <1>3, <1>4, HandlersStep DEF PageInv
<1>6. ScreenTypeOK'
  BY <1>1, <1>3 DEF PageInv, ScreenTypeOK, dialog, blockVars, boundVars
<1>7. ListOK(convs)'
  BY <1>3, ListShown DEF PageInv, network
<1> QED BY <1>5, <1>6, <1>7 DEF PageInv

\* Poll
LEMMA PollStep ==
    ASSUME PageInv, Poll
    PROVE  PageInv' /\ LogGrows
<1>1. active \in Ids /\ UNCHANGED <<network, active, listVars>>
      /\ tasks' = Launched(tasks, <<ListTask(active)>>)
  BY DEF Poll, PageInv, GroupsInv, GroupsTypeOK
<1>2. Handlers(Launched(tasks, <<ListTask(active)>>))
  BY <1>1, HandlersNow, ListHandler, NewHandler DEF PageInv
<1>3. GroupsInv' /\ LogGrows
  BY <1>1, <1>2, HandlersStep DEF PageInv
<1> QED BY <1>1, <1>3, BackendStep

\* A step that leaves the worker and the list alone.
LEMMA ScreenStep ==
    ASSUME PageInv, UNCHANGED <<backend, convs>>, ScreenTypeOK'
    PROVE  PageInv' /\ LogGrows
<1>1. GroupsInv' /\ LogGrows
  <2>1. UNCHANGED network /\ active' \in Ids /\ tasks' = tasks
    BY DEF backend, PageInv, GroupsInv, GroupsTypeOK
  <2> QED BY <2>1, HandlersNow, HandlersStep DEF PageInv
<1>2. ListOK(convs)'
  BY ListShown DEF PageInv, backend, network
<1> QED BY <1>1, <1>2 DEF PageInv

\* A chat that is opened from a row, on either page.
LEMMA ChatOpens ==
    ASSUME PageInv, NEW g \in ListedIds(convs),
           view' = g, unread' = unread \ {g},
           toChat' = [toChat EXCEPT ![g] =
                         Max({@, NewestIn(convs, g), lastSeen[g]})],
           UNCHANGED <<backend, current, convs, pendingOpen, dialog, listOf,
                       saved, lastSeen, ihu, blockVars, boundVars>>
    PROVE  PageInv' /\ LogGrows
<1>1. g \in GroupIds /\ convs \in Seq(Summary)
  BY NamedGroups DEF PageInv, ScreenTypeOK
<1>2. toChat' = [h \in GroupIds |->
             IF h = g THEN Max({toChat[h], NewestIn(convs, h), lastSeen[h]})
                      ELSE toChat[h]]
  BY <1>1 DEF PageInv, ScreenTypeOK
<1>3. toChat' \in [GroupIds -> 0..MaxLog]
  BY <1>1, <1>2, ToChatType, ZenonT(60) DEF PageInv
<1>4. ScreenTypeOK'
  <2>1. view' \in {"home", "identities"} \cup GroupIds /\ unread' \subseteq GroupIds
    BY <1>1 DEF PageInv, ScreenTypeOK
  <2>2. UNCHANGED <<current, convs, pendingOpen, leaving, inChat, pendingBlocks, blocked,
                    listOf, saved, lastSeen, ihu, faults, mixed, ops, reloads>>
    BY DEF dialog, blockVars, boundVars
  <2> QED BY <1>3, <2>1, <2>2 DEF PageInv, ScreenTypeOK
<1> QED BY <1>4, ScreenStep

\* OpenChat
LEMMA OpenChatStep == PageInv /\ OpenChat => PageInv' /\ LogGrows
BY ChatOpens DEF OpenChat, Rows

\* AskLeave
LEMMA AskLeaveStep == PageInv /\ AskLeave => PageInv' /\ LogGrows
<1> SUFFICES ASSUME PageInv, AskLeave
             PROVE  PageInv' /\ LogGrows
  OBVIOUS
<1>1. leaving' \in GroupIds \cup {NoOne} /\ inChat' \in BOOLEAN
  BY NamedGroups DEF AskLeave, Rows, PageInv, ScreenTypeOK
<1>2. ScreenTypeOK' /\ UNCHANGED <<backend, convs>>
  BY <1>1 DEF AskLeave, PageInv, ScreenTypeOK, savedVars, blockVars, boundVars
<1> QED BY <1>2, ScreenStep

\* CancelLeave
LEMMA CancelLeaveStep == PageInv /\ CancelLeave => PageInv' /\ LogGrows
<1> SUFFICES ASSUME PageInv, CancelLeave
             PROVE  PageInv' /\ LogGrows
  OBVIOUS
<1>1. ScreenTypeOK' /\ UNCHANGED <<backend, convs>>
  BY DEF CancelLeave, PageInv, ScreenTypeOK, savedVars, blockVars, boundVars
<1> QED BY <1>1, ScreenStep

\* Navigate
LEMMA NavigateStep == PageInv /\ Navigate => PageInv' /\ LogGrows
<1> SUFFICES ASSUME PageInv, NEW v \in {"home", "identities"},
                    Draws(v, convs, active, consent, tasks, {}),
                    UNCHANGED <<member, roster, log, recent, active, current,
                        pendingOpen, dialog, listOf, savedVars, pendingBlocks,
                        blocked, boundVars>>
             PROVE  PageInv' /\ LogGrows
  BY DEF Navigate
<1>1. PICK list, i, c, ts :
         list = convs /\ i = active /\ c = consent /\ ts = tasks
  OBVIOUS
<1>2. /\ list \in Seq(Summary) /\ ListOK(list) /\ i \in Ids /\ Handlers(ts)
      /\ c \in [Ids -> [GroupIds -> {"unknown", "allowed", "denied"}]]
  BY <1>1, HandlersNow DEF PageInv, ScreenTypeOK, GroupsInv, GroupsTypeOK
<1>3. /\ Draws(v, list, i, c, ts, {}) /\ {} \in SUBSET Faulted /\ active' \in Ids
  BY <1>1, <1>2
<1>4. /\ GroupsInv' /\ LogGrows /\ ListOK(convs)' /\ convs' = list
      /\ view' = v /\ faults' \subseteq Faulted
  BY <1>2, <1>3, PageDraws
<1>5. ScreenTypeOK'
  BY <1>2, <1>4 DEF PageInv, ScreenTypeOK, dialog, savedVars, boundVars
<1> QED BY <1>4, <1>5 DEF PageInv

\* A bound that counts.
LEMMA CountedType ==
    ASSUME ScreenTypeOK, Counted
    PROVE  ops' \in 0..MaxOps
BY ListAssumption DEF ScreenTypeOK, Counted

\* A switch joins the handlers there are.
LEMMA SwitchHandlers ==
    ASSUME GroupsInv, NEW i \in Ids
    PROVE  Handlers(Launched(tasks, <<SwitchTask(i)>>))
BY SwitchHandler, HandlersNow, NewHandler

\* Switch
LEMMA SwitchStep == PageInv /\ Switch => PageInv' /\ LogGrows
<1> SUFFICES ASSUME PageInv, NEW i \in Ids, Counted, active' = i,
                    Draws("home", convs, i, consent,
                          Launched(tasks, <<SwitchTask(i)>>), {}),
                    UNCHANGED <<member, roster, log, recent, current,
                        pendingOpen, dialog, listOf, savedVars, pendingBlocks,
                        blocked, mixed, reloads>>
             PROVE  PageInv' /\ LogGrows
  BY DEF Switch
<1>1. PICK list, c, ts :
         list = convs /\ c = consent /\ ts = Launched(tasks, <<SwitchTask(i)>>)
  OBVIOUS
<1>2. /\ list \in Seq(Summary) /\ ListOK(list) /\ Handlers(ts)
      /\ c \in [Ids -> [GroupIds -> {"unknown", "allowed", "denied"}]]
  BY <1>1, SwitchHandlers DEF PageInv, ScreenTypeOK, GroupsInv, GroupsTypeOK
<1>3. /\ Draws("home", list, i, c, ts, {}) /\ {} \in SUBSET Faulted /\ active' \in Ids
  BY <1>1
<1>4. /\ GroupsInv' /\ LogGrows /\ ListOK(convs)' /\ convs' = list
      /\ view' = "home" /\ faults' \subseteq Faulted
  BY <1>2, <1>3, PageDraws
<1>5. ops' \in 0..MaxOps
  BY CountedType DEF PageInv
<1>6. ScreenTypeOK'
  BY <1>2, <1>4, <1>5 DEF PageInv, ScreenTypeOK, dialog, savedVars
<1> QED BY <1>4, <1>6 DEF PageInv

\* create_group
LEMMA CreateHandlers ==
    ASSUME GroupsInv
    PROVE  Handlers(Launched(tasks, CreateRequest(active)))
<1> DEFINE u == Call("create", active, NoOne, NoOne)
<1>1. "create" \in PCs \ {"idle", "senders"} /\ active \in Ids
  BY DEF PCs, Fallible, GroupsInv, GroupsTypeOK
<1>2. u \in Tasks /\ HandlerOK(u)
  BY <1>1, CallHandler
<1>3. CreateRequest(active) = <<u>>
  BY DEF CreateRequest
<1> HIDE DEF u
<1> QED BY <1>2, <1>3, HandlersNow, NewHandler

\* A new conversation that is asked for, on either page.
LEMMA GroupAsked ==
    ASSUME PageInv, Counted, pendingOpen' = TRUE,
           tasks' = Launched(tasks, CreateRequest(active)),
           UNCHANGED <<network, active, current, convs, view, dialog, listOf,
                       savedVars, blockVars, mixed, reloads>>
    PROVE  PageInv' /\ LogGrows
<1>1. GroupsInv' /\ LogGrows
  <2>1. active' \in Ids
    BY DEF PageInv, GroupsInv, GroupsTypeOK
  <2> QED BY <2>1, CreateHandlers, HandlersStep DEF PageInv
<1>2. ops' \in 0..MaxOps
  BY CountedType DEF PageInv
<1>3. ScreenTypeOK'
  BY <1>2 DEF PageInv, ScreenTypeOK, dialog, savedVars, blockVars
<1>4. ListOK(convs)'
  BY ListShown DEF PageInv, network
<1> QED BY <1>1, <1>3, <1>4 DEF PageInv

\* CreateGroup
LEMMA CreateGroupStep == PageInv /\ CreateGroup => PageInv' /\ LogGrows
BY GroupAsked DEF CreateGroup

\* The list without a conversation.
LEMMA WithoutType ==
    ASSUME PageInv, NEW g
    PROVE  /\ Without(g) \in Seq(Summary) /\ ListOK(Without(g))
           /\ \A h : h \in ListedIds(Without(g)) <=> h \in ListedIds(convs) \ {g}
<1> DEFINE T == {k \in 1..Len(convs) : convs[k].id # g}
           list == Keep(convs, T)
<1>1. convs \in Seq(Summary) /\ T \in SUBSET (1..Len(convs)) /\ ListOK(convs)
  BY DEF PageInv, ScreenTypeOK
<1>2. Without(g) = list
  BY DEF Without
<1>3. \A k \in T : k \in 1..Len(convs) /\ convs[k].id # g
  OBVIOUS
<1>4. \A k \in 1..Len(convs) : convs[k].id # g => k \in T
  OBVIOUS
<1> HIDE DEF T
<1>5. /\ list \in Seq(Summary)
      /\ \A n \in 1..Len(list) : \E k \in T : list[n] = convs[k]
      /\ \A k \in T : \E n \in 1..Len(list) : list[n] = convs[k]
  BY <1>1, KeepProperties
<1> HIDE DEF list
<1>6. ListOK(list)
  <2> SUFFICES ASSUME NEW n \in 1..Len(list)
               PROVE  /\ list[n].n \in 0..Len(log[list[n].id])
                      /\ list[n].from = IF list[n].n = 0 THEN NoOne
                                        ELSE log[list[n].id][list[n].n]
    BY DEF ListOK
  <2>1. PICK k \in T : list[n] = convs[k]
    BY <1>5
  <2>2. k \in 1..Len(convs)
    BY <1>3
  <2> QED BY <1>1, <2>1, <2>2 DEF ListOK
<1>7. \A h : h \in ListedIds(list) => h \in ListedIds(convs) \ {g}
  BY <1>3, <1>5 DEF ListedIds
<1>8. \A h : h \in ListedIds(convs) \ {g} => h \in ListedIds(list)
  <2> TAKE h
  <2> HAVE h \in ListedIds(convs) \ {g}
  <2>1. PICK k \in 1..Len(convs) : convs[k].id = h
    BY DEF ListedIds
  <2>2. k \in T
    BY <1>4, <2>1
  <2>3. PICK n \in 1..Len(list) : list[n] = convs[k]
    BY <1>5, <2>2
  <2> QED BY <2>1, <2>3 DEF ListedIds
<1> QED BY <1>2, <1>5, <1>6, <1>7, <1>8

\* leave_conversation, up to its first await.
LEMMA LeaveHandlers ==
    ASSUME GroupsInv, NEW g \in GroupIds, NEW fails
    PROVE  /\ Handlers(Launched(tasks, LeaveRequest(active, g)))
           /\ LeaveConsent(active, g, fails)
                 \in [Ids -> [GroupIds -> {"unknown", "allowed", "denied"}]]
<1>1. "leave" \in PCs \ {"idle", "senders"} /\ active \in Ids
      /\ consent \in [Ids -> [GroupIds -> {"unknown", "allowed", "denied"}]]
  BY DEF PCs, GroupsInv, GroupsTypeOK
<1>2. Handlers(Launched(tasks, LeaveRequest(active, g)))
  BY <1>1, HandlersNow, NewCall DEF LeaveRequest
<1>3. LeaveConsent(active, g, fails)
         \in [Ids -> [GroupIds -> {"unknown", "allowed", "denied"}]]
  BY <1>1, ConsentedType DEF LeaveConsent
<1> QED BY <1>2, <1>3

\* ConfirmLeave
LEMMA ConfirmLeaveStep == PageInv /\ ConfirmLeave => PageInv' /\ LogGrows
<1> SUFFICES ASSUME PageInv, ConfirmLeave
             PROVE  PageInv' /\ LogGrows
  OBVIOUS
<1>1. PICK g, v, list, i, ts :
         /\ g = leaving /\ v = (IF inChat THEN "home" ELSE view)
         /\ list = Without(g) /\ i = active
         /\ ts = Launched(tasks, LeaveRequest(active, g))
  OBVIOUS
<1>2. /\ g \in GroupIds /\ v \in {"home", "identities"} \cup GroupIds /\ i \in Ids
      /\ current \in Ids \cup {NoOne}
  BY <1>1 DEF ConfirmLeave, NoDialog, PageInv, ScreenTypeOK, GroupsInv, GroupsTypeOK
<1>3. list \in Seq(Summary) /\ ListOK(list)
  BY <1>1, WithoutType
<1>4. /\ leaving' = NoOne /\ inChat' = FALSE /\ Counted
      /\ pendingBlocks' = [pendingBlocks EXCEPT ![g] = current]
      /\ UNCHANGED <<member, roster, log, recent, active, current,
                     pendingOpen, listOf, savedVars, blocked, mixed, reloads>>
  BY <1>1 DEF ConfirmLeave
<1>5. PICK fails \in BOOLEAN :
         Draws(v, list, i, LeaveConsent(active, g, fails), ts,
               Astray(g) \cup Kept(g, fails))
  BY <1>1 DEF ConfirmLeave
<1>6. PICK c, more : /\ c = LeaveConsent(active, g, fails)
                     /\ more = Astray(g) \cup Kept(g, fails)
  OBVIOUS
<1>7. /\ Handlers(ts)
      /\ c \in [Ids -> [GroupIds -> {"unknown", "allowed", "denied"}]]
  BY <1>1, <1>2, <1>6, LeaveHandlers DEF PageInv
<1>8. more \in SUBSET Faulted
  BY <1>1, <1>2, <1>6 DEF Astray, Kept, Faulted
<1>9. /\ GroupsInv' /\ LogGrows /\ ListOK(convs)' /\ convs' = list
      /\ view' = v /\ faults' \subseteq Faulted
  <2>1. Draws(v, list, i, c, ts, more) /\ active' \in Ids
        /\ UNCHANGED <<member, roster, log, recent>>
    BY <1>1, <1>2, <1>4, <1>5, <1>6
  <2> QED BY <1>2, <1>3, <1>7, <1>8, <2>1, PageDraws
<1>10. ops' \in 0..MaxOps
  BY <1>4, CountedType DEF PageInv
<1>11. pendingBlocks' \in [GroupIds -> Ids \cup {NoOne}]
  BY <1>2, <1>4 DEF PageInv, ScreenTypeOK
<1>12. ScreenTypeOK'
  BY <1>2, <1>3, <1>4, <1>9, <1>10, <1>11 DEF PageInv, ScreenTypeOK, savedVars
<1> QED BY <1>9, <1>12 DEF PageInv

\* Reload
LEMMA ReloadStep == PageInv /\ Reload => PageInv' /\ LogGrows
<1> SUFFICES ASSUME PageInv, Reload
             PROVE  PageInv' /\ LogGrows
  OBVIOUS
<1>1. GroupsInv' /\ LogGrows
  <2>1. PICK ts : ts = Starting
    OBVIOUS
  <2>2. Handlers(ts)
    BY <2>1, StartingHandlers
  <2>3. tasks' = ts /\ active' \in Ids /\ UNCHANGED network
    BY <2>1, ListAssumption DEF Reload
  <2> QED BY <2>2, <2>3, HandlersStep DEF PageInv
<1>2. ListOK(convs)' /\ convs' \in Seq(Summary)
  BY EmptyListOK DEF Reload, ListOK
<1>3. reloads' \in 0..MaxReloads
  BY ListAssumption DEF Reload, PageInv, ScreenTypeOK
<1>4. ScreenTypeOK'
  BY <1>2, <1>3 DEF Reload, PageInv, ScreenTypeOK, savedVars
<1> QED BY <1>1, <1>2, <1>4 DEF PageInv

\* Handlers go on without the page, or fail.
LEMMA ResumesStep ==
    ASSUME PageInv, NEW s \in Slots, Resumes(s) \/ Fails(s)
    PROVE  PageInv' /\ LogGrows
<1>1. GroupsInv' /\ LogGrows /\ UNCHANGED listVars
  BY CollectListStep, GroupCreatedStep, LeaveSentStep, CallFailsStep
     DEF PageInv, Resumes, Fails
<1> QED BY <1>1, BackendStep

\* Other people.
LEMMA ElsewhereStep == PageInv /\ Elsewhere => PageInv' /\ LogGrows
<1> SUFFICES ASSUME PageInv, Elsewhere
             PROVE  PageInv' /\ LogGrows
  OBVIOUS
<1>1. GroupsInv' /\ LogGrows /\ UNCHANGED listVars
  BY HearsStep, InvitesStep, ListAssumption DEF PageInv, Elsewhere
<1> QED BY <1>1, BackendStep

\* Nothing happens.
LEMMA PageStutters == PageInv /\ UNCHANGED vars => PageInv' /\ LogGrows
<1> SUFFICES ASSUME PageInv, UNCHANGED vars
             PROVE  PageInv' /\ LogGrows
  OBVIOUS
<1>1. UNCHANGED <<backend, convs>> /\ ScreenTypeOK'
  BY DEF vars, listVars, shownVars, dialog, savedVars, blockVars, boundVars,
         PageInv, ScreenTypeOK
<1> QED BY <1>1, ScreenStep

\* Every step.
LEMMA PageNext == PageInv /\ [Next]_vars => PageInv' /\ LogGrows
<1> SUFFICES ASSUME PageInv, [Next]_vars
             PROVE  PageInv' /\ LogGrows
  OBVIOUS
<1>1. CASE UNCHANGED vars
  BY <1>1, PageStutters
<1>2. CASE \E s \in Slots : Arrives(s) \/ Resumes(s) \/ Fails(s)
  BY <1>2, ConversationsArriveStep, FirstIdentityListArrivesStep,
     IdentityListArrivesStep, ResumesStep DEF Arrives
<1>3. CASE Poll \/ User \/ Elsewhere
  BY <1>3, PollStep, ElsewhereStep, OpenChatStep, NavigateStep, SwitchStep,
     CreateGroupStep, AskLeaveStep, CancelLeaveStep, ConfirmLeaveStep, ReloadStep
     DEF User
<1> QED BY <1>1, <1>2, <1>3 DEF Next

\* TypeOK: the state of the page and of the worker, the lists shown and in
\* flight included, has its type in every reachable state.
THEOREM ListTypes == Spec => []TypeOK
<1>1. Init => PageInv
  BY PageStarts
<1>2. PageInv /\ [Next]_vars => PageInv'
  BY PageNext
<1>3. PageInv => TypeOK
  BY PageTypes
<1> QED BY <1>1, <1>2, <1>3, PTL DEF Spec

-----------------------------------------------------------------------------
(* Unread marks.                                                           *)

\* The watermark of a conversation covers what the list shows of it, and all of
\* it is left to the chat that is open.
SeenOK ==
    /\ \A k \in 1..Len(convs) : convs[k].n <= lastSeen[convs[k].id]
    /\ \A g \in GroupIds : lastSeen[g] <= Len(log[g])
    /\ view \in GroupIds => lastSeen[view] <= toChat[view]

\* UnreadNotMissed of every message up to the watermark, be it the last one of
\* a list or not.
MarksOK ==
    \A g \in GroupIds : \A n \in 1..lastSeen[g] :
        n > toChat[g] /\ log[g][n] \in Others /\ ~Answered(g, n) => g \in unread

MarksInv == SeenOK /\ MarksOK

\* What UnreadNotMissed asks for.
LEMMA MarksSuffice == PageInv /\ MarksInv => UnreadNotMissed
<1> SUFFICES ASSUME PageInv, MarksInv, NEW k \in 1..Len(convs),
                    convs[k].from \in Others, convs[k].n > toChat[convs[k].id],
                    ~Answered(convs[k].id, convs[k].n)
             PROVE  convs[k].id \in unread
  BY DEF UnreadNotMissed
<1> DEFINE g == convs[k].id
           n == convs[k].n
<1>1. g \in GroupIds /\ n \in Nat /\ toChat[g] \in Nat /\ lastSeen[g] \in Nat
  BY Entries, ConstantFacts DEF PageInv, ScreenTypeOK
<1>2. n \in 0..Len(log[g]) /\ convs[k].from = IF n = 0 THEN NoOne ELSE log[g][n]
  BY DEF PageInv, ListOK
<1>3. n <= lastSeen[g]
  BY DEF MarksInv, SeenOK
<1> HIDE DEF g, n
<1>4. n # 0
  BY <1>1 DEF n, g
<1>5. n \in 1..lastSeen[g] /\ log[g][n] \in Others
  BY <1>1, <1>2, <1>3, <1>4 DEF n
<1>6. n > toChat[g] /\ ~Answered(g, n)
  BY DEF n, g
<1> QED BY <1>1, <1>5, <1>6 DEF MarksInv, MarksOK, g

\* At the start there is nothing to mark.
LEMMA MarksStart == Init => MarksInv
<1> SUFFICES ASSUME Init
             PROVE  MarksInv
  OBVIOUS
<1>1. \A g \in GroupIds : Len(log[g]) \in Nat /\ lastSeen[g] = 0 /\ toChat[g] = 0
  BY LenProperties, GroupsAssumption DEF Init, NetworkInit
<1>2. Len(convs) = 0
  BY DEF Init
<1> QED BY <1>1, <1>2 DEF Init, MarksInv, SeenOK, MarksOK

\* Messages that are answered stay so, and what was written stays.
LEMMA MarksStay ==
    ASSUME PageInv, MarksInv, LogGrows, UNCHANGED <<unread, lastSeen, toChat>>,
           convs' = convs \/ convs' = <<>> \/ \E h : convs' = Without(h),
           view' \in GroupIds => view' = view
    PROVE  MarksInv'
<1>1. \A k \in 1..Len(convs') : convs'[k].n <= lastSeen[convs'[k].id]
  <2>1. CASE convs' = convs
    BY <2>1 DEF MarksInv, SeenOK
  <2>2. CASE convs' = <<>>
    BY <2>2
  <2>3. CASE \E h : convs' = Without(h)
    <3>1. PICK h : convs' = Without(h)
      BY <2>3
    <3> DEFINE T == {k \in 1..Len(convs) : convs[k].id # h}
    <3>2. convs \in Seq(Summary) /\ T \in SUBSET (1..Len(convs))
      BY DEF PageInv, ScreenTypeOK
    <3>3. \A k \in 1..Len(Keep(convs, T)) : \E j \in T : Keep(convs, T)[k] = convs[j]
      <4> HIDE DEF T
      <4> QED BY <3>2, KeepProperties
    <3>4. \A k \in 1..Len(convs') : \E j \in 1..Len(convs) : convs'[k] = convs[j]
      BY <3>1, <3>3 DEF Without
    <3> QED BY <3>4 DEF MarksInv, SeenOK
  <2> QED BY <2>1, <2>2, <2>3
<1>2. ASSUME NEW g \in GroupIds
      PROVE  /\ Len(log[g]) \in Nat /\ Len(log'[g]) \in Nat /\ lastSeen[g] \in Nat
             /\ lastSeen[g] <= Len(log[g]) /\ Len(log[g]) <= Len(log'[g])
             /\ \A k \in 1..Len(log[g]) : log'[g][k] = log[g][k]
  BY LenProperties, ConstantFacts
     DEF LogGrows, PageInv, GroupsInv, GroupsTypeOK, ScreenTypeOK, MarksInv, SeenOK
<1>3. \A g \in GroupIds : lastSeen[g] <= Len(log'[g])
  BY <1>2
<1>4. SeenOK'
  BY <1>1, <1>3 DEF MarksInv, SeenOK
<1>5. MarksOK'
  <2> SUFFICES ASSUME NEW g \in GroupIds, NEW n \in 1..lastSeen[g],
                      n > toChat[g], log'[g][n] \in Others, ~Answered(g, n)'
               PROVE  g \in unread
    BY DEF MarksOK
  <2>1. n \in 1..Len(log[g]) /\ log'[g][n] = log[g][n]
    BY <1>2
  <2>2. ~Answered(g, n)
    <3> SUFFICES ASSUME NEW k \in n + 1..Len(log[g]), log[g][k] \in Ids
                 PROVE  FALSE
      BY DEF Answered
    <3>1. k \in 1..Len(log[g]) /\ k \in n + 1..Len(log'[g])
      BY <1>2
    <3>2. log'[g][k] \in Ids
      BY <1>2, <3>1
    <3> QED BY <3>1, <3>2 DEF Answered
  <2> QED BY <2>1, <2>2 DEF MarksInv, MarksOK
<1> QED BY <1>4, <1>5 DEF MarksInv

\* A chat that is opened is left what lies below the watermark.
LEMMA MarksOpened ==
    ASSUME PageInv, MarksInv, NEW g \in ListedIds(convs),
           view' = g, unread' = unread \ {g},
           toChat' = [toChat EXCEPT ![g] =
                         Max({@, NewestIn(convs, g), lastSeen[g]})],
           UNCHANGED <<log, convs, lastSeen>>
    PROVE  MarksInv'
<1>1. g \in GroupIds /\ convs \in Seq(Summary) /\ ListOK(convs) /\ GroupsTypeOK
  BY NamedGroups DEF PageInv, ScreenTypeOK, GroupsInv
<1>2. /\ toChat[g] \in 0..MaxLog /\ lastSeen[g] \in 0..MaxLog
      /\ NewestIn(convs, g) \in 0..MaxLog
  BY <1>1, NewestType DEF PageInv, ScreenTypeOK
<1>3. lastSeen[g] <= Max({toChat[g], NewestIn(convs, g), lastSeen[g]})
  BY <1>2, ConstantFacts, MaxOfThree
<1>4. /\ lastSeen[g] <= toChat'[g]
      /\ \A h \in GroupIds \ {g} : toChat'[h] = toChat[h]
  BY <1>1, <1>3 DEF PageInv, ScreenTypeOK
<1>5. SeenOK'
  BY <1>4 DEF MarksInv, SeenOK
<1>6. MarksOK'
  <2> SUFFICES ASSUME NEW h \in GroupIds, NEW n \in 1..lastSeen[h],
                      n > toChat'[h], log[h][n] \in Others, ~Answered(h, n)
               PROVE  h \in unread \ {g}
    BY DEF MarksOK, Answered
  <2>1. h # g
    <3> SUFFICES ASSUME h = g PROVE FALSE
      OBVIOUS
    <3>1. toChat'[g] \in Nat /\ lastSeen[g] \in Nat
      <4>1. Max({toChat[g], NewestIn(convs, g), lastSeen[g]}) \in 0..MaxLog
        BY <1>2, ConstantFacts, MaxOfThree
      <4> QED BY <1>1, <1>2, <4>1, ConstantFacts DEF PageInv, ScreenTypeOK
    <3> QED BY <1>4, <3>1
  <2> QED BY <1>4, <2>1 DEF MarksInv, MarksOK
<1> QED BY <1>5, <1>6 DEF MarksInv

\* A list that arrives marks what is new in it; v is the chat it leaves open,
\* unless the page goes back to its first screen.
LEMMA MarksArrive ==
    ASSUME PageInv, MarksInv, NEW s \in Slots, NEW list \in ListPosted(s),
           NEW v, view' \in {v, "home"},
           convs' = list, lastSeen' = SeenAfter(list),
           unread' = (unread \cup NewIn(list, v)) \ OpenedAs(view'),
           toChat' = [g \in GroupIds |->
               IF g = v THEN Max({toChat[g], NewestIn(list, g), lastSeen[g]})
                        ELSE toChat[g]],
           log' = log
    PROVE  MarksInv'
<1>1. list \in Seq(Summary) /\ ListOK(list) /\ GroupsTypeOK
  BY PostedLists DEF PageInv, GroupsInv
<1>2. ASSUME NEW g \in GroupIds
      PROVE  /\ toChat[g] \in 0..MaxLog /\ lastSeen[g] \in 0..MaxLog
             /\ NewestIn(list, g) \in 0..MaxLog /\ NewestIn(list, g) \in 0..Len(log[g])
             /\ Len(log[g]) \in Nat /\ lastSeen[g] <= Len(log[g])
             /\ log[g] \in Seq(Inboxes) /\ MaxLog \in Nat
  BY <1>1, NewestType, LenProperties, ConstantFacts
     DEF PageInv, ScreenTypeOK, GroupsTypeOK, MarksInv, SeenOK
<1>3. ASSUME NEW g \in GroupIds
      PROVE  lastSeen'[g] = IF NewestIn(list, g) > 0 THEN NewestIn(list, g)
                                                     ELSE lastSeen[g]
  BY DEF SeenAfter
<1>4. ASSUME v \in GroupIds
      PROVE  toChat'[v] \in Nat /\ lastSeen'[v] \in Nat /\ lastSeen'[v] <= toChat'[v]
  <2>1. toChat'[v] = Max({toChat[v], NewestIn(list, v), lastSeen[v]})
    BY <1>4
  <2> DEFINE m == Max({toChat[v], NewestIn(list, v), lastSeen[v]})
  <2>2. m \in 0..MaxLog /\ NewestIn(list, v) <= m /\ lastSeen[v] <= m
    BY <1>2, <1>4, MaxOfThree
  <2> HIDE DEF m
  <2> QED BY <1>2, <1>3, <1>4, <2>1, <2>2 DEF m
<1>5. "home" \notin GroupIds
  BY ListAssumption
<1>6. SeenOK'
  <2>1. ASSUME NEW k \in 1..Len(list)
        PROVE  list[k].n <= lastSeen'[list[k].id]
    <3>1. list[k].id \in GroupIds /\ list[k].n \in Nat
      BY <1>1, Entries
    <3>2. list[k].n <= NewestIn(list, list[k].id)
      BY <1>1, <3>1, NewestType
    <3> DEFINE m == NewestIn(list, list[k].id)
               g == list[k].id
    <3>3. m \in Nat /\ lastSeen[g] \in Nat /\ lastSeen'[g] = IF m > 0 THEN m ELSE lastSeen[g]
      BY <1>2, <1>3, <3>1
    <3> HIDE DEF m, g
    <3>4. list[k].n <= m
      BY <3>2 DEF m
    <3>5. list[k].n <= lastSeen'[g]
      BY <3>1, <3>3, <3>4
    <3> QED BY <3>5 DEF g
  <2>2. \A g \in GroupIds : lastSeen'[g] <= Len(log'[g])
    BY <1>2, <1>3
  <2>3. view' \in GroupIds => lastSeen'[view'] <= toChat'[view']
    BY <1>4, <1>5
  <2> QED BY <2>1, <2>2, <2>3 DEF SeenOK
<1>7. MarksOK'
  <2> SUFFICES ASSUME NEW g \in GroupIds, NEW n \in 1..lastSeen'[g],
                      n > toChat'[g], log[g][n] \in Others, ~Answered(g, n)
               PROVE  g \in unread'
    BY DEF MarksOK, Answered
  <2>1. g # v
    <3> SUFFICES ASSUME g = v PROVE FALSE
      OBVIOUS
    <3> QED BY <1>4
  <2>2. g \notin OpenedAs(view') /\ toChat'[g] = toChat[g]
    BY <1>5, <2>1 DEF OpenedAs
  <2> DEFINE m == NewestIn(list, g)
  <2>3. m \in Nat /\ m <= Len(log[g]) /\ lastSeen[g] \in Nat
        /\ lastSeen'[g] = IF m > 0 THEN m ELSE lastSeen[g]
    BY <1>2, <1>3
  <2> HIDE DEF m
  <2>4. CASE n <= lastSeen[g]
    <3>1. n \in 1..lastSeen[g]
      BY <2>3, <2>4
    <3>2. g \in unread
      BY <2>2, <3>1 DEF MarksInv, MarksOK
    <3> QED BY <2>2, <3>2
  <2>5. CASE ~(n <= lastSeen[g])
    <3>1. m > 0 /\ n \in 1..m /\ m > lastSeen[g] /\ m \in 1..Len(log[g])
      BY <2>3, <2>5
    <3>2. PICK k \in 1..Len(list) : list[k].id = g /\ list[k].n = m
      BY <1>1, <3>1, NewestType DEF m
    <3>3. list[k].from = log[g][m]
      BY <1>1, <3>1, <3>2 DEF ListOK
    <3>4. log[g][m] \in Others
      <4>1. CASE m = n
        BY <4>1
      <4>2. CASE m # n
        <5>1. m \in n + 1..Len(log[g])
          BY <1>2, <3>1, <4>2
        <5>2. log[g][m] \notin Ids
          BY <5>1 DEF Answered
        <5>3. log[g][m] \in Inboxes
          BY <1>2, <3>1, ElementOfSeq
        <5> QED BY <5>2, <5>3 DEF Inboxes
      <4> QED BY <4>1, <4>2
    <3>5. list[k].from # current
      BY <3>3, <3>4, GroupsAssumption DEF PageInv, ScreenTypeOK, Inboxes
    <3>6. g \in NewIn(list, v)
      BY <2>1, <3>1, <3>2, <3>5 DEF NewIn
    <3> QED BY <2>2, <3>6
  <2> QED BY <2>4, <2>5
<1> QED BY <1>6, <1>7 DEF MarksInv

\* Every step of the mobile page.
LEMMA MarksNext == PageInv /\ MarksInv /\ [Next]_vars => MarksInv'
<1> SUFFICES ASSUME PageInv, MarksInv, [Next]_vars
             PROVE  MarksInv'
  OBVIOUS
<1>1. LogGrows
  BY PageNext
<1>2. "home" \notin GroupIds /\ "identities" \notin GroupIds
  BY ListAssumption
<1>3. ASSUME NEW s \in Slots, ConversationsArrive(s)
      PROVE  MarksInv'
  <2>1. PICK list \in ListPosted(s) :
           LET v == ViewAfter(list)
           IN  /\ lastSeen' = SeenAfter(list)
               /\ unread' = (unread \cup NewIn(list, v)) \ OpenedAs(v)
               /\ toChat' = [g \in GroupIds |->
                     IF g = v THEN Max({toChat[g], NewestIn(list, g), lastSeen[g]})
                              ELSE toChat[g]]
               /\ convs' = list /\ view' = v /\ log' = log
    BY <1>3 DEF ConversationsArrive, Draws
  <2> DEFINE v == ViewAfter(list)
  <2>2. PICK w : w = v
    OBVIOUS
  <2>3. /\ lastSeen' = SeenAfter(list)
        /\ unread' = (unread \cup NewIn(list, w)) \ OpenedAs(view')
        /\ toChat' = [g \in GroupIds |->
              IF g = w THEN Max({toChat[g], NewestIn(list, g), lastSeen[g]})
                       ELSE toChat[g]]
        /\ convs' = list /\ view' = w /\ log' = log
    BY <2>1, <2>2
  <2> QED BY <2>3, MarksArrive
<1>4. ASSUME OpenChat
      PROVE  MarksInv'
  BY <1>4, MarksOpened DEF OpenChat, Rows, backend, network
<1>5. ASSUME UNCHANGED <<convs, view, unread, lastSeen, toChat>>
      PROVE  MarksInv'
  BY <1>1, <1>5, MarksStay
<1>6. ASSUME NEW s \in Slots,
             FirstIdentityListArrives(s) \/ IdentityListArrives(s)
             \/ Resumes(s) \/ Fails(s)
      PROVE  MarksInv'
  BY <1>5, <1>6
     DEF FirstIdentityListArrives, IdentityListArrives, Resumes, Fails, savedVars, listVars, shownVars
<1>7. ASSUME Poll \/ Elsewhere \/ CreateGroup \/ AskLeave \/ CancelLeave
             \/ UNCHANGED vars
      PROVE  MarksInv'
  BY <1>5, <1>7
     DEF Poll, Elsewhere, CreateGroup, AskLeave, CancelLeave, vars, savedVars,
         listVars, shownVars
<1>8. ASSUME Navigate
      PROVE  MarksInv'
  <2>1. /\ convs' = convs /\ view' \in {"home", "identities"}
        /\ UNCHANGED <<unread, lastSeen, toChat>>
    BY <1>8 DEF Navigate, Draws, savedVars
  <2> QED BY <1>1, <1>2, <2>1, MarksStay
<1>9. ASSUME Switch
      PROVE  MarksInv'
  <2>1. /\ convs' = convs /\ view' = "home"
        /\ UNCHANGED <<unread, lastSeen, toChat>>
    BY <1>9 DEF Switch, Draws, savedVars
  <2> QED BY <1>1, <1>2, <2>1, MarksStay
<1>10. ASSUME ConfirmLeave
       PROVE  MarksInv'
  <2>1. /\ convs' = Without(leaving) /\ view' \in {"home", view}
        /\ UNCHANGED <<unread, lastSeen, toChat>>
    BY <1>10 DEF ConfirmLeave, Draws, savedVars
  <2> QED BY <1>1, <1>2, <2>1, MarksStay
<1>11. ASSUME Reload
       PROVE  MarksInv'
  <2>1. /\ convs' = <<>> /\ view' = "home"
        /\ UNCHANGED <<unread, lastSeen, toChat>>
    BY <1>11 DEF Reload, savedVars
  <2> QED BY <1>1, <1>2, <2>1, MarksStay
<1> QED
  BY <1>3, <1>4, <1>6, <1>7, <1>8, <1>9, <1>10, <1>11 DEF Next, Arrives, User

\* UnreadNotMissed: a conversation stays marked until its newest message has been
\* left to the chat: no list that comes late or again, no switch and no reload
\* drops the mark before.  Whether the chat gets to show the message is not
\* part of it.
THEOREM MarksUntilOpened == Spec => []UnreadNotMissed
<1>1. Init => PageInv /\ MarksInv
  BY PageStarts, MarksStart
<1>2. PageInv /\ MarksInv /\ [Next]_vars => PageInv' /\ MarksInv'
  BY PageNext, MarksNext
<1>3. PageInv /\ MarksInv => UnreadNotMissed
  BY MarksSuffice
<1> QED BY <1>1, <1>2, <1>3, PTL DEF Spec

-----------------------------------------------------------------------------
(* Blocks.                                                                 *)

\* Identity i has left g, or one of the ways a leave goes wrong happened to it.
LeftBy(i, g) ==
    \/ HasLeft(i, g)
    \/ \E what \in {"astray", "revived", "kept"} : <<what, i, g>> \in faults

\* A block that waits for a list waits for who has left.
BlocksOK ==
    \A g \in GroupIds :
        pendingBlocks[g] # NoOne => LeftBy(pendingBlocks[g], g)

\* The handlers in ts that leave a group leave one with members.
LeavesOK(ts) ==
    \A s \in Slots : ts[s].pc = "leave" => roster[ts[s].gid] # {}

\* A group somebody knows, or has left, was made: its id is not free for a new
\* group, whose maker would allow it.
RosterOK ==
    /\ \A i \in Ids, g \in GroupIds :
          Known(i, g) \/ consent[i][g] = "denied" => roster[g] # {}
    /\ LeavesOK(tasks)

BlocksInv == RosterOK /\ BlocksOK /\ BlockedHasLeft

\* BlockedHasLeft in terms of LeftBy.
LEMMA BlockedAre == BlockedHasLeft <=> \A b \in blocked : LeftBy(b[1], b[2])
BY DEF BlockedHasLeft, LeftBy

\* A worker that starts leaves nothing.
LEMMA LeavesStarting ==
    ASSUME NEW ts, ts = Starting
    PROVE  LeavesOK(ts)
<1>1. SwitchTask(First).pc = "addresses"
  BY CallFields DEF SwitchTask
<1> QED BY <1>1, IdleHandler DEF Starting, LeavesOK

\* At the start nobody has left.
LEMMA BlocksStart == Init => BlocksInv
<1> SUFFICES ASSUME Init
             PROVE  BlocksInv
  OBVIOUS
<1>1. \A i \in Ids, g \in GroupIds :
         Known(i, g) \/ consent[i][g] = "denied" => roster[g] # {}
  BY DEF Init, NetworkInit, Known
<1>2. LeavesOK(tasks)
  BY LeavesStarting DEF Init
<1>3. BlocksOK /\ BlockedHasLeft
  BY DEF Init, BlocksOK, BlockedHasLeft
<1> QED BY <1>1, <1>2, <1>3 DEF BlocksInv, RosterOK

\* Who has left has still left, unless a fault says otherwise.
LeftStays == \A i \in Ids, g \in GroupIds : LeftBy(i, g) => LeftBy(i, g)'

\* A step under which nobody is forgotten to have left.
LEMMA BlocksStay ==
    ASSUME PageInv, BlocksInv, RosterOK', LeftStays,
           blocked' = blocked,
           \A g \in GroupIds : pendingBlocks'[g] \in {pendingBlocks[g], NoOne}
    PROVE  BlocksInv'
<1>1. BlocksOK'
  <2> SUFFICES ASSUME NEW g \in GroupIds, pendingBlocks'[g] # NoOne
               PROVE  LeftBy(pendingBlocks[g], g)' /\ pendingBlocks'[g] = pendingBlocks[g]
    BY DEF BlocksOK, LeftBy, HasLeft
  <2>1. pendingBlocks'[g] = pendingBlocks[g] /\ pendingBlocks[g] \in Ids
    BY DEF PageInv, ScreenTypeOK
  <2>2. PICK i \in Ids : i = pendingBlocks[g]
    BY <2>1
  <2>3. LeftBy(i, g)'
    BY <2>1, <2>2 DEF BlocksInv, BlocksOK, LeftStays
  <2> QED BY <2>1, <2>2, <2>3 DEF LeftBy, HasLeft
<1>2. BlockedHasLeft'
  <2> SUFFICES ASSUME NEW b \in blocked
               PROVE  LeftBy(b[1], b[2])'
    BY DEF BlockedHasLeft, LeftBy, HasLeft
  <2>1. b[1] \in Ids /\ b[2] \in GroupIds
    BY DEF PageInv, ScreenTypeOK
  <2> QED BY <2>1, BlockedAre DEF BlocksInv, LeftStays
<1> QED BY <1>1, <1>2 DEF BlocksInv

\* The rosters and consents of a step after which every leave has its group.
LEMMA RosterStays ==
    ASSUME RosterOK, NEW ts, tasks' = ts, LeavesOK(ts),
           \A g \in GroupIds : roster[g] # {} => roster'[g] # {},
           \A s \in Slots : ts[s].pc = "leave" => ts[s].gid \in GroupIds,
           \A i \in Ids, g \in GroupIds :
              Known(i, g)' => Known(i, g) \/ roster'[g] # {},
           \A i \in Ids, g \in GroupIds :
              consent'[i][g] = "denied" => consent[i][g] = "denied" \/ roster'[g] # {}
    PROVE  RosterOK'
BY DEF RosterOK, LeavesOK

\* Handlers that are started without a leave among them.
LEMMA LeavesLaunched ==
    ASSUME NEW ts, LeavesOK(ts), NEW seq, Len(seq) \in Nat,
           \A k \in 1..Len(seq) : seq[k].pc = "leave" => roster[seq[k].gid] # {}
    PROVE  LeavesOK(Launched(ts, seq))
<1> SUFFICES ASSUME NEW s \in Slots, Launched(ts, seq)[s].pc = "leave"
             PROVE  roster[Launched(ts, seq)[s].gid] # {}
  BY DEF LeavesOK
<1> QED BY LaunchedMembers DEF LeavesOK

\* One handler goes on as something else.
LEMMA LeavesOne ==
    ASSUME NEW ts, LeavesOK(ts), NEW s \in Slots, NEW u, u.pc # "leave",
           DOMAIN ts = Slots
    PROVE  LeavesOK([ts EXCEPT ![s] = u])
BY DEF LeavesOK

\* The lists that follow accepted invitations are no leaves.
LEMMA LeavesAccepted ==
    ASSUME NEW ts, LeavesOK(ts), NEW i, NEW gs, gs \subseteq GroupIds
    PROVE  LeavesOK(Launched(ts, AcceptRequests(i, gs)))
<1> DEFINE n == Cardinality({g \in gs : Known(i, g)})
           seq == AcceptRequests(i, gs)
<1>1. n \in Nat
  <2>1. {g \in gs : Known(i, g)} \subseteq GroupIds
    OBVIOUS
  <2> QED BY <2>1, ConstantFacts, FS_Subset, FS_CardinalityType
<1>2. seq = [k \in 1..n |-> ListTask(i)]
  BY DEF AcceptRequests
<1>3. ListTask(i).pc = "sync"
  BY CallFields DEF ListTask
<1> HIDE DEF n
<1> DEFINE T == {ListTask(i)}
<1>4. seq \in Seq(T) /\ Len(seq) = n
  <2>1. seq \in [1..n -> T]
    BY <1>2
  <2> HIDE DEF T
  <2>2. seq \in Seq(T)
    BY <1>1, <2>1, SeqDef
  <2>3. DOMAIN seq = 1..n
    BY <1>2
  <2> QED BY <1>1, <2>2, <2>3, LenProperties
<1>5. \A k \in 1..Len(seq) : seq[k].pc = "sync"
  BY <1>2, <1>3, <1>4
<1> HIDE DEF seq, T
<1>6. \A k \in 1..Len(seq) : seq[k].pc = "leave" => roster[seq[k].gid] # {}
  BY <1>5
<1>7. LeavesOK(Launched(ts, seq))
  BY <1>1, <1>4, <1>6, LeavesLaunched
<1> QED BY <1>7 DEF seq

\* update_consent_state, for one identity and the groups of gs that it has.
LEMMA ConsentedValue ==
    ASSUME NEW c \in [Ids -> [GroupIds -> {"unknown", "allowed", "denied"}]],
           NEW i \in Ids, NEW gs, NEW state, NEW j \in Ids, NEW g \in GroupIds
    PROVE  Consented(c, i, gs, state)[j][g] =
              IF j = i /\ g \in gs /\ Known(i, g) THEN state ELSE c[j][g]
<1> DEFINE row == [h \in GroupIds |-> IF h \in gs /\ Known(i, h) THEN state
                                      ELSE c[i][h]]
<1>1. Consented(c, i, gs, state) = [c EXCEPT ![i] = row]
  BY DEF Consented
<1>2. row[g] = IF g \in gs /\ Known(i, g) THEN state ELSE c[i][g]
  OBVIOUS
<1>3. [c EXCEPT ![i] = row][j] = IF j = i THEN row ELSE c[j]
  <2> HIDE DEF row
  <2> QED OBVIOUS
<1> QED BY <1>1, <1>2, <1>3

\* Consents that forget nobody who has left, and no leave of a group that was
\* never made.
LeavesKept(c) ==
    \A j \in Ids, g \in GroupIds :
        /\ c[j][g] = "denied" => consent[j][g] = "denied" \/ roster[g] # {}
        /\ consent[j][g] = "denied" => c[j][g] = "denied"

\* Who has left by the consents c has left still, but for the groups gs.
DenialsStay(c, gs) ==
    \A j \in Ids, g \in GroupIds :
        c[j][g] = "denied" /\ g \notin gs => consent'[j][g] = "denied"

\* A leave that went wrong stays on record.
FaultsStay ==
    \A what \in {"astray", "revived", "kept"} : \A i, g :
        <<what, i, g>> \in faults => <<what, i, g>> \in faults'

\* Rows that appear accept what the identity has left only when that is noted.
LEMMA BlocksDrawn ==
    ASSUME PageInv, BlocksInv, NEW v, NEW list \in Seq(Summary), NEW i \in Ids,
           NEW c \in [Ids -> [GroupIds -> {"unknown", "allowed", "denied"}]],
           NEW ts, LeavesOK(ts), NEW more, Draws(v, list, i, c, ts, more),
           LeavesKept(c), UNCHANGED <<member, roster>>
    PROVE  /\ RosterOK' /\ LeftStays /\ DenialsStay(c, Mounted(v, list))
           /\ more \subseteq faults'
<1>a. PICK done \in SUBSET GroupIds : Drawn(v, list, i, c, ts, more, done)
  BY DrawnRows
<1>0. PICK gs : gs = Mounted(v, list)
  OBVIOUS
<1>1. /\ done \subseteq gs /\ consent' = AcceptConsent(c, i, done)
      /\ tasks' = Launched(ts, AcceptRequests(i, done))
      /\ faults' = (faults \ Refusals(i, gs)) \cup Refusals(i, gs \ done)
                   \cup Revivals(i, done) \cup more
  BY <1>a, <1>0 DEF Drawn
<1>2. consent' = Consented(c, i, done, "allowed")
  BY <1>1 DEF AcceptConsent
<1>3. Revivals(i, done) \subseteq faults' /\ more \subseteq faults' /\ FaultsStay
  BY <1>1 DEF FaultsStay, Refusals
<1>4. \A j \in Ids, g \in GroupIds :
         consent'[j][g] = IF j = i /\ g \in done /\ Known(i, g) THEN "allowed"
                                                                ELSE c[j][g]
  BY <1>2, ConsentedValue
<1>5. LeavesOK(Launched(ts, AcceptRequests(i, done)))
  BY LeavesAccepted
<1>6. RosterOK'
  <2>1. LeavesOK(tasks)'
    BY <1>1, <1>5 DEF LeavesOK
  <2>2. \A j \in Ids, g \in GroupIds :
           Known(j, g)' \/ consent'[j][g] = "denied" => roster'[g] # {}
    BY <1>4 DEF BlocksInv, RosterOK, Known, LeavesKept
  <2> QED BY <2>1, <2>2 DEF RosterOK, Known
<1>7. LeftStays
  <2> SUFFICES ASSUME NEW j \in Ids, NEW g \in GroupIds, LeftBy(j, g)
               PROVE  LeftBy(j, g)'
    BY DEF LeftStays
  <2>1. CASE consent[j][g] = "denied"
    <3>1. CASE j = i /\ g \in done
      <4>1. <<"revived", j, g>> \in faults'
        BY <1>3, <2>1, <3>1 DEF Revivals
      <4> QED BY <4>1 DEF LeftBy
    <3>2. CASE ~(j = i /\ g \in done)
      <4>1. consent'[j][g] = c[j][g]
        BY <1>4, <3>2
      <4> QED BY <2>1, <4>1 DEF LeftBy, HasLeft, LeavesKept
    <3> QED BY <3>1, <3>2
  <2>2. CASE member[j][g] = "leaving"
    BY <2>2 DEF LeftBy, HasLeft
  <2>3. CASE \E what \in {"astray", "revived", "kept"} : <<what, j, g>> \in faults
    BY <1>3, <2>3 DEF LeftBy, FaultsStay
  <2> QED BY <2>1, <2>2, <2>3 DEF LeftBy, HasLeft
<1>8. DenialsStay(c, gs)
  BY <1>1, <1>4 DEF DenialsStay
<1> QED BY <1>0, <1>3, <1>6, <1>7, <1>8

\* A step that changes no membership and no consent, and starts no leave.
LEMMA BlocksKept ==
    ASSUME PageInv, BlocksInv, UNCHANGED network, NEW ts, tasks' = ts,
           LeavesOK(ts), UNCHANGED <<blocked, faults>>,
           \A g \in GroupIds : pendingBlocks'[g] \in {pendingBlocks[g], NoOne}
    PROVE  BlocksInv'
<1>1. RosterOK'
  BY DEF BlocksInv, RosterOK, LeavesOK, Known, network
<1>2. LeftStays
  BY DEF LeftStays, LeftBy, HasLeft, network
<1> QED BY <1>1, <1>2, BlocksStay

\* The handlers there are.
LEMMA LeavesNow ==
    ASSUME PageInv, BlocksInv
    PROVE  LeavesOK(tasks) /\ DOMAIN tasks = Slots
BY DEF BlocksInv, RosterOK, PageInv, GroupsInv, GroupsTypeOK

\* One handler more, which leaves nothing.
LEMMA LeavesNew ==
    ASSUME NEW ts, LeavesOK(ts), NEW u, u.pc # "leave"
    PROVE  LeavesOK(Launched(ts, <<u>>))
<1>1. Len(<<u>>) = 1 /\ <<u>>[1] = u
  OBVIOUS
<1> QED BY <1>1, LeavesLaunched

\* ConversationsArrive: a block is reported for whom the page asked for it.
LEMMA BlocksArrive ==
    ASSUME PageInv, BlocksInv, NEW s \in Slots, ConversationsArrive(s)
    PROVE  BlocksInv'
<1>1. PICK list \in ListPosted(s) :
        /\ Draws(ViewAfter(list), list, active, consent, Done(s), {})
        /\ pendingBlocks' = [g \in GroupIds |->
               IF g \in BlocksDue(list) THEN NoOne ELSE pendingBlocks[g]]
        /\ blocked' = blocked \cup
               {<<pendingBlocks[g], g>> : g \in BlocksDue(list)}
        /\ UNCHANGED <<member, roster, active>>
  BY DEF ConversationsArrive
<1>2. /\ list \in Seq(Summary) /\ active \in Ids
      /\ consent \in [Ids -> [GroupIds -> {"unknown", "allowed", "denied"}]]
  BY PostedLists DEF PageInv, GroupsInv, GroupsTypeOK
<1>3. LeavesOK(Done(s))
  BY LeavesNow, LeavesOne, IdleHandler DEF Done
<1>4. PICK v, j, c, ts : /\ v = ViewAfter(list) /\ j = active /\ c = consent
                         /\ ts = Done(s)
  OBVIOUS
<1>5. RosterOK' /\ LeftStays
  <2>1. LeavesKept(c)
    BY <1>4 DEF LeavesKept
  <2>2. /\ Draws(v, list, j, c, ts, {}) /\ LeavesOK(ts) /\ j \in Ids
        /\ c \in [Ids -> [GroupIds -> {"unknown", "allowed", "denied"}]]
        /\ UNCHANGED <<member, roster>>
    BY <1>1, <1>2, <1>3, <1>4
  <2> QED BY <1>2, <2>1, <2>2, BlocksDrawn
<1>6. BlocksOK'
  <2> SUFFICES ASSUME NEW g \in GroupIds, pendingBlocks'[g] # NoOne
               PROVE  LeftBy(pendingBlocks[g], g)' /\ pendingBlocks'[g] = pendingBlocks[g]
    BY DEF BlocksOK, LeftBy, HasLeft
  <2>1. pendingBlocks'[g] = pendingBlocks[g] /\ pendingBlocks[g] \in Ids
    BY <1>1 DEF PageInv, ScreenTypeOK
  <2>2. PICK i \in Ids : i = pendingBlocks[g]
    BY <2>1
  <2>3. LeftBy(i, g)'
    BY <1>5, <2>1, <2>2 DEF BlocksInv, BlocksOK, LeftStays
  <2> QED BY <2>1, <2>2, <2>3 DEF LeftBy, HasLeft
<1>7. BlockedHasLeft'
  <2> SUFFICES ASSUME NEW b \in blocked'
               PROVE  LeftBy(b[1], b[2])'
    BY DEF BlockedHasLeft, LeftBy, HasLeft
  <2>1. CASE b \in blocked
    <3>1. b[1] \in Ids /\ b[2] \in GroupIds
      BY <2>1 DEF PageInv, ScreenTypeOK
    <3> QED BY <1>5, <2>1, <3>1, BlockedAre DEF BlocksInv, LeftStays
  <2>2. CASE b \notin blocked
    <3>1. PICK g \in BlocksDue(list) : b = <<pendingBlocks[g], g>>
      BY <1>1, <2>2
    <3>2. g \in GroupIds /\ pendingBlocks[g] # NoOne /\ pendingBlocks[g] \in Ids
      BY <3>1 DEF BlocksDue, PageInv, ScreenTypeOK
    <3>3. PICK i \in Ids : i = pendingBlocks[g]
      BY <3>2
    <3>4. LeftBy(i, g)'
      BY <1>5, <3>2, <3>3 DEF BlocksInv, BlocksOK, LeftStays
    <3>5. b[1] = i /\ b[2] = g
      BY <3>1, <3>3
    <3> QED BY <3>4, <3>5 DEF LeftBy, HasLeft
  <2> QED BY <2>1, <2>2
<1> QED BY <1>5, <1>6, <1>7 DEF BlocksInv

\* ConfirmLeave: the leave is denied at once, it has gone astray, or the denial
\* has failed.
LEMMA BlocksLeave ==
    ASSUME PageInv, BlocksInv, ConfirmLeave
    PROVE  BlocksInv'
<1>a. PICK g, me, i : g = leaving /\ me = current /\ i = active
  OBVIOUS
<1>b. PICK v, list : /\ v = (IF inChat THEN "home" ELSE view)
                     /\ list = Without(g)
  OBVIOUS
<1>c. PICK fails \in BOOLEAN :
         Draws(v, list, i, LeaveConsent(i, g, fails),
               Launched(tasks, LeaveRequest(i, g)), Astray(g) \cup Kept(g, fails))
  BY <1>a, <1>b DEF ConfirmLeave
<1>d. PICK c, ts, more : /\ c = LeaveConsent(i, g, fails)
                         /\ ts = Launched(tasks, LeaveRequest(i, g))
                         /\ more = Astray(g) \cup Kept(g, fails)
  OBVIOUS
<1>1. g \in GroupIds /\ i \in Ids /\ me \in Ids \cup {NoOne}
      /\ consent \in [Ids -> [GroupIds -> {"unknown", "allowed", "denied"}]]
  BY <1>a DEF ConfirmLeave, NoDialog, PageInv, ScreenTypeOK, GroupsInv, GroupsTypeOK
<1>2. list \in Seq(Summary) /\ g \notin ListedIds(list)
  BY <1>b, WithoutType
<1>3. c \in [Ids -> [GroupIds -> {"unknown", "allowed", "denied"}]]
  BY <1>1, <1>a, <1>d, LeaveHandlers DEF PageInv
<1>4. \A j \in Ids, h \in GroupIds :
         c[j][h] = IF ~fails /\ j = i /\ h = g /\ Known(i, g) THEN "denied"
                                                              ELSE consent[j][h]
  BY <1>1, <1>d, ConsentedValue DEF LeaveConsent
<1>5. /\ pendingBlocks' = [pendingBlocks EXCEPT ![g] = me]
      /\ Draws(v, list, i, c, ts, more)
      /\ UNCHANGED <<member, roster, blocked>>
  BY <1>a, <1>b, <1>c, <1>d DEF ConfirmLeave
<1>6. LeavesOK(ts)
  <2>1. LeavesOK(tasks)
    BY LeavesNow
  <2>2. CASE Known(i, g)
    <3>1. roster[g] # {}
      BY <1>1, <2>2 DEF BlocksInv, RosterOK
    <3>2. /\ Len(LeaveRequest(i, g)) \in Nat
          /\ \A k \in 1..Len(LeaveRequest(i, g)) :
                LeaveRequest(i, g)[k].gid = g
      BY TaskOnMembers, CallFields DEF LeaveRequest
    <3> QED BY <1>d, <2>1, <3>1, <3>2, LeavesLaunched
  <2>3. CASE ~Known(i, g)
    <3>1. LeaveRequest(i, g) = <<>>
      BY <2>3 DEF LeaveRequest, TaskOn
    <3> QED BY <1>d, <2>1, <3>1, LeavesLaunched
  <2> QED BY <2>2, <2>3
<1>7. g \notin Mounted(v, list)
  BY <1>2 DEF Mounted, ListedIds
<1>8. LeavesKept(c)
  BY <1>4 DEF BlocksInv, RosterOK, LeavesKept
<1>9. /\ RosterOK' /\ LeftStays /\ DenialsStay(c, Mounted(v, list))
      /\ more \subseteq faults'
  BY <1>1, <1>2, <1>3, <1>5, <1>6, <1>8, BlocksDrawn
<1>10. ASSUME me # NoOne PROVE LeftBy(me, g)'
  <2>1. CASE i = me /\ Known(i, g) /\ ~fails
    <3>1. consent'[me][g] = "denied"
      BY <1>1, <1>4, <1>7, <1>9, <2>1 DEF DenialsStay
    <3> QED BY <3>1 DEF LeftBy, HasLeft
  <2>2. CASE ~(i = me /\ Known(i, g))
    <3>1. <<"astray", me, g>> \in more
      BY <1>a, <1>d, <2>2 DEF Astray
    <3> QED BY <1>9, <3>1 DEF LeftBy
  <2>3. CASE i = me /\ fails
    <3>1. <<"kept", me, g>> \in more
      BY <1>a, <1>d, <2>3 DEF Kept
    <3> QED BY <1>9, <3>1 DEF LeftBy
  <2> QED BY <2>1, <2>2, <2>3
<1>11. BlocksOK'
  <2> SUFFICES ASSUME NEW h \in GroupIds, pendingBlocks'[h] # NoOne
               PROVE  LeftBy(pendingBlocks[h], h)'
    BY DEF BlocksOK
  <2>1. CASE h = g
    <3>1. pendingBlocks'[h] = me
      BY <1>1, <1>5, <2>1 DEF PageInv, ScreenTypeOK
    <3> QED BY <1>10, <2>1, <3>1 DEF LeftBy, HasLeft
  <2>2. CASE h # g
    <3>1. pendingBlocks'[h] = pendingBlocks[h] /\ pendingBlocks[h] \in Ids
      BY <1>1, <1>5, <2>2 DEF PageInv, ScreenTypeOK
    <3>2. PICK j \in Ids : j = pendingBlocks[h]
      BY <3>1
    <3>3. LeftBy(j, h)'
      BY <1>9, <3>1, <3>2 DEF BlocksInv, BlocksOK, LeftStays
    <3> QED BY <3>1, <3>2, <3>3 DEF LeftBy, HasLeft
  <2> QED BY <2>1, <2>2
<1>12. BlockedHasLeft'
  <2> SUFFICES ASSUME NEW b \in blocked
               PROVE  LeftBy(b[1], b[2])'
    BY <1>5 DEF BlockedHasLeft, LeftBy, HasLeft
  <2>1. b[1] \in Ids /\ b[2] \in GroupIds
    BY DEF PageInv, ScreenTypeOK
  <2> QED BY <1>9, <2>1, BlockedAre DEF BlocksInv, LeftStays
<1> QED BY <1>9, <1>11, <1>12 DEF BlocksInv

\* Navigate and Switch: the list is drawn again, for the identity that is active
\* from now on.
LEMMA BlocksRedrawn ==
    ASSUME PageInv, BlocksInv, NEW v, NEW i \in Ids, NEW ts, LeavesOK(ts),
           Draws(v, convs, i, consent, ts, {}),
           UNCHANGED <<member, roster, pendingBlocks, blocked>>
    PROVE  BlocksInv'
<1>1. PICK list \in Seq(Summary) : list = convs
  BY DEF PageInv, ScreenTypeOK
<1>2. PICK c : c = consent
  OBVIOUS
<1>3. c \in [Ids -> [GroupIds -> {"unknown", "allowed", "denied"}]] /\ LeavesKept(c)
  BY <1>2 DEF PageInv, GroupsInv, GroupsTypeOK, LeavesKept
<1>4. Draws(v, list, i, c, ts, {})
  BY <1>1, <1>2
<1>5. RosterOK' /\ LeftStays
  BY <1>3, <1>4, BlocksDrawn
<1> QED BY <1>5, BlocksStay

\* GroupCreated: the maker of a new group has not left it.
LEMMA BlocksCreated ==
    ASSUME PageInv, BlocksInv, NEW s \in Slots, GroupCreated(s), UNCHANGED listVars
    PROVE  BlocksInv'
<1>1. tasks[s].id \in Ids
  <2>1. tasks[s].pc = "create"
    BY DEF GroupCreated
  <2> QED BY <2>1, HandlerAt DEF HandlerOK, PageInv
<1>2. PICK i \in Ids : i = tasks[s].id
  BY <1>1
<1>3. PICK g \in GroupIds :
        /\ roster[g] = {} /\ roster' = [roster EXCEPT ![g] = {i}]
        /\ member' = [member EXCEPT ![i][g] = "in"]
        /\ consent' = [consent EXCEPT ![i][g] = "allowed"]
  BY <1>2 DEF GroupCreated, NewGroup
<1>4. /\ roster \in [GroupIds -> SUBSET Inboxes]
      /\ member \in [Ids -> [GroupIds -> {"none", "invited", "in", "leaving"}]]
      /\ consent \in [Ids -> [GroupIds -> {"unknown", "allowed", "denied"}]]
  BY DEF PageInv, GroupsInv, GroupsTypeOK
<1>5. \A h \in GroupIds : roster'[h] = IF h = g THEN {i} ELSE roster[h]
  BY <1>3, <1>4
<1>6. \A j \in Ids, h \in GroupIds :
         /\ member'[j][h] = IF j = i /\ h = g THEN "in" ELSE member[j][h]
         /\ consent'[j][h] = IF j = i /\ h = g THEN "allowed" ELSE consent[j][h]
  BY <1>3, <1>4
<1>7. RosterOK'
  <2>1. \A j \in Ids, h \in GroupIds :
           Known(j, h)' \/ consent'[j][h] = "denied" => roster'[h] # {}
    BY <1>5, <1>6 DEF BlocksInv, RosterOK, Known
  <2>2. LeavesOK(tasks)'
    <3>1. ListTask(active).pc = "sync"
      BY CallFields DEF ListTask
    <3>2. PICK u : u = ListTask(active)
      OBVIOUS
    <3>3. tasks' = [tasks EXCEPT ![s] = u] /\ u.pc # "leave"
      BY <3>1, <3>2 DEF GroupCreated, ThenList
    <3>4. ASSUME NEW r \in Slots, tasks'[r].pc = "leave"
          PROVE  roster'[tasks'[r].gid] # {}
      <4>1. tasks'[r] = tasks[r]
        BY <3>3, <3>4, LeavesNow
      <4>2. tasks[r].gid \in GroupIds
        BY <3>4, <4>1, HandlerAt DEF HandlerOK, PageInv
      <4>3. roster[tasks[r].gid] # {}
        BY <3>4, <4>1, LeavesNow DEF LeavesOK
      <4> QED BY <1>5, <4>1, <4>2, <4>3
    <3> QED BY <3>4 DEF LeavesOK
  <2> QED BY <2>1, <2>2 DEF RosterOK, Known
<1>8. LeftStays
  <2> SUFFICES ASSUME NEW j \in Ids, NEW h \in GroupIds, LeftBy(j, h)
               PROVE  LeftBy(j, h)'
    BY DEF LeftStays
  <2>1. faults' = faults
    BY DEF listVars, blockVars
  <2>2. HasLeft(j, h) => ~(j = i /\ h = g)
    BY <1>3 DEF BlocksInv, RosterOK, HasLeft, Known
  <2>3. HasLeft(j, h) => HasLeft(j, h)'
    BY <1>6, <2>2 DEF HasLeft
  <2> QED BY <2>1, <2>3 DEF LeftBy
<1> QED BY <1>7, <1>8, BlocksStay DEF listVars, blockVars

\* A step after which rosters have grown, memberships only where somebody is,
\* and the handlers that leave are among those there were.
LEMMA BlocksGrow ==
    ASSUME PageInv, BlocksInv, UNCHANGED <<consent, listVars>>,
           \A g \in GroupIds : roster[g] # {} => roster'[g] # {},
           \A i \in Ids, g \in GroupIds :
              Known(i, g)' => Known(i, g) \/ roster'[g] # {},
           \A i \in Ids, g \in GroupIds :
              member[i][g] = "leaving" => member'[i][g] = "leaving",
           \A r \in Slots : tasks'[r].pc = "leave" => tasks'[r] = tasks[r]
    PROVE  BlocksInv'
<1>1. \A i \in Ids, g \in GroupIds :
         Known(i, g)' \/ consent'[i][g] = "denied" => roster'[g] # {}
  BY DEF BlocksInv, RosterOK
<1>2. ASSUME NEW r \in Slots, tasks'[r].pc = "leave"
      PROVE  roster'[tasks'[r].gid] # {}
  <2>1. tasks'[r] = tasks[r] /\ tasks[r].pc = "leave"
    BY <1>2
  <2>2. tasks[r].gid \in GroupIds
    BY <2>1, HandlerAt DEF HandlerOK, PageInv
  <2>3. roster[tasks[r].gid] # {}
    BY <2>1, LeavesNow DEF LeavesOK
  <2> QED BY <2>1, <2>2, <2>3
<1>3. RosterOK'
  BY <1>1, <1>2 DEF RosterOK, LeavesOK, Known
<1>4. LeftStays
  BY DEF LeftStays, LeftBy, HasLeft, listVars, blockVars
<1> QED BY <1>3, <1>4, BlocksStay DEF listVars, blockVars

\* LeaveSent: who leaves a group leaves one with members.
LEMMA BlocksSent ==
    ASSUME PageInv, BlocksInv, NEW s \in Slots, LeaveSent(s), UNCHANGED listVars
    PROVE  BlocksInv'
<1>1. tasks[s].pc = "leave" /\ tasks[s].id \in Ids /\ tasks[s].gid \in GroupIds
  <2>1. tasks[s].pc = "leave"
    BY DEF LeaveSent
  <2> QED BY <2>1, HandlerAt DEF HandlerOK, PageInv
<1>2. PICK i \in Ids, g \in GroupIds : i = tasks[s].id /\ g = tasks[s].gid
  BY <1>1
<1>3. member' = member \/ member' = [member EXCEPT ![i][g] = "leaving"]
  BY <1>2 DEF LeaveSent
<1>4. \A j \in Ids, h \in GroupIds :
         \/ member'[j][h] = member[j][h]
         \/ j = i /\ h = g /\ member'[j][h] = "leaving"
  <2>1. CASE member' = member
    BY <2>1
  <2>2. CASE member' = [member EXCEPT ![i][g] = "leaving"]
    BY <2>2 DEF PageInv, GroupsInv, GroupsTypeOK
  <2> QED BY <1>3, <2>1, <2>2
<1>5. roster[g] # {} /\ roster' = roster /\ consent' = consent
  BY <1>1, <1>2, LeavesNow DEF LeavesOK, LeaveSent
<1>6. \A r \in Slots : tasks'[r].pc = "leave" => tasks'[r] = tasks[r]
  <2>1. ListTask(active).pc = "sync"
    BY CallFields DEF ListTask
  <2> QED BY <2>1, LeavesNow DEF LeaveSent, ThenList
<1> QED BY <1>4, <1>5, <1>6, BlocksGrow DEF Known

\* Hears and Invites: others write and invite.
LEMMA BlocksElsewhere == PageInv /\ BlocksInv /\ Elsewhere => BlocksInv'
<1> SUFFICES ASSUME PageInv, BlocksInv, Elsewhere
             PROVE  BlocksInv'
  OBVIOUS
<1>1. ASSUME NEW g \in GroupIds, NEW from, Hears(g, from), UNCHANGED listVars
      PROVE  BlocksInv'
  BY <1>1, BlocksGrow DEF Hears, Known
<1>2. ASSUME NEW g \in GroupIds, NEW i \in Ids, NEW by, Invites(i, g, by),
             UNCHANGED listVars
      PROVE  BlocksInv'
  <2>1. /\ member' = [member EXCEPT ![i][g] = "invited"] /\ member[i][g] = "none"
        /\ roster' = [roster EXCEPT ![g] = @ \cup {i, by}]
        /\ UNCHANGED <<consent, tasks>>
    BY <1>2 DEF Invites
  <2>2. /\ roster \in [GroupIds -> SUBSET Inboxes]
        /\ member \in [Ids -> [GroupIds -> {"none", "invited", "in", "leaving"}]]
    BY DEF PageInv, GroupsInv, GroupsTypeOK
  <2>3. \A h \in GroupIds :
           roster'[h] = IF h = g THEN roster[h] \cup {i, by} ELSE roster[h]
    BY <2>1, <2>2
  <2>4. \A j \in Ids, h \in GroupIds :
           /\ member'[j][h] = member[j][h] \/ h = g
           /\ member[j][h] = "leaving" => member'[j][h] = "leaving"
    BY <2>1, <2>2
  <2>5. \A h \in GroupIds : roster[h] # {} => roster'[h] # {}
    BY <2>3
  <2>6. \A j \in Ids, h \in GroupIds :
           Known(j, h)' => Known(j, h) \/ roster'[h] # {}
    BY <2>3, <2>4 DEF Known
  <2> QED BY <1>2, <2>1, <2>4, <2>5, <2>6, BlocksGrow
<1> QED BY <1>1, <1>2, ListAssumption DEF Elsewhere

\* Every step of the mobile page.
LEMMA BlocksNext == PageInv /\ BlocksInv /\ [Next]_vars => BlocksInv'
<1> SUFFICES ASSUME PageInv, BlocksInv, [Next]_vars
             PROVE  BlocksInv'
  OBVIOUS
<1> USE DEF blockVars, backend
<1>1. LeavesOK(tasks) /\ DOMAIN tasks = Slots
  BY LeavesNow
<1>2. \A i : ListTask(i).pc = "sync" /\ SwitchTask(i).pc = "addresses"
  BY CallFields DEF ListTask, SwitchTask
<1>3. ASSUME NEW s \in Slots, IdentityListArrives(s)
      PROVE  BlocksInv'
  <2>1. PICK u : u = ListTask(active)
    OBVIOUS
  <2>2. LeavesOK([tasks EXCEPT ![s] = u])
    BY <1>1, <1>2, <2>1, LeavesOne
  <2>3. LeavesOK(Launched([tasks EXCEPT ![s] = u], <<u>>))
    BY <1>2, <2>1, <2>2, LeavesNew
  <2>4. /\ tasks' = Launched([tasks EXCEPT ![s] = u], <<u>>)
        /\ UNCHANGED <<network, blocked, faults, pendingBlocks>>
    BY <1>3, <2>1 DEF IdentityListArrives
  <2> QED BY <2>3, <2>4, BlocksKept
<1>f. ASSUME NEW s \in Slots, FirstIdentityListArrives(s)
      PROVE  BlocksInv'
  <2>1. PICK a, b : a = SwitchTask(saved) /\ b = ListTask(saved)
    OBVIOUS
  <2>2. LeavesOK(Done(s))
    BY <1>1, IdleHandler, LeavesOne DEF Done
  <2>3. LeavesOK(Launched(Done(s), <<b>>))
    BY <1>2, <2>1, <2>2, LeavesNew
  <2>4. LeavesOK(Launched(Done(s), <<a, b>>))
    <3>1. /\ Len(<<a, b>>) = 2 /\ <<a, b>>[1] = a /\ <<a, b>>[2] = b
          /\ a.pc # "leave" /\ b.pc # "leave"
      BY <1>2, <2>1
    <3>2. \A k \in 1..Len(<<a, b>>) : <<a, b>>[k].pc # "leave"
      BY <3>1
    <3> QED BY <2>2, <3>1, <3>2, LeavesLaunched
  <2>5. /\ tasks' = Launched(Done(s), <<b>>) \/ tasks' = Launched(Done(s), <<a, b>>)
        /\ UNCHANGED <<network, blocked, faults, pendingBlocks>>
    BY <1>f, <2>1 DEF FirstIdentityListArrives
  <2> QED BY <2>3, <2>4, <2>5, BlocksKept
<1>4. ASSUME Poll
      PROVE  BlocksInv'
  <2>1. LeavesOK(Launched(tasks, <<ListTask(active)>>))
    BY <1>1, <1>2, LeavesNew
  <2> QED BY <1>4, <2>1, BlocksKept DEF Poll, listVars
<1>5. ASSUME OpenChat \/ AskLeave \/ CancelLeave \/ UNCHANGED vars
      PROVE  BlocksInv'
  <2>1. UNCHANGED <<backend, blocked, faults, pendingBlocks>>
    BY <1>5 DEF OpenChat, AskLeave, CancelLeave, vars, listVars
  <2> QED BY <1>1, <2>1, BlocksKept
<1>6. ASSUME CreateGroup
      PROVE  BlocksInv'
  <2>1. Call("create", active, NoOne, NoOne).pc = "create"
    BY CallFields
  <2>2. LeavesOK(Launched(tasks, CreateRequest(active)))
    BY <1>1, <2>1, LeavesNew DEF CreateRequest
  <2> QED BY <1>6, <2>2, BlocksKept DEF CreateGroup
<1>7. ASSUME Navigate
      PROVE  BlocksInv'
  <2>1. PICK v \in {"home", "identities"} :
           /\ Draws(v, convs, active, consent, tasks, {})
           /\ UNCHANGED <<member, roster, pendingBlocks, blocked>>
    BY <1>7 DEF Navigate
  <2>2. active \in Ids
    BY DEF PageInv, GroupsInv, GroupsTypeOK
  <2> QED BY <1>1, <2>1, <2>2, BlocksRedrawn
<1>8. ASSUME Switch
      PROVE  BlocksInv'
  <2>1. PICK i \in Ids :
           /\ Draws("home", convs, i, consent, Launched(tasks, <<SwitchTask(i)>>), {})
           /\ UNCHANGED <<member, roster, pendingBlocks, blocked>>
    BY <1>8 DEF Switch
  <2>2. LeavesOK(Launched(tasks, <<SwitchTask(i)>>))
    BY <1>1, <1>2, LeavesNew
  <2> QED BY <2>1, <2>2, BlocksRedrawn
<1>9. ASSUME Reload
      PROVE  BlocksInv'
  <2>1. PICK ts : ts = Starting /\ LeavesOK(ts)
    BY LeavesStarting
  <2>2. /\ tasks' = ts /\ UNCHANGED <<network, blocked, faults>>
        /\ pendingBlocks' = [g \in GroupIds |-> NoOne]
    BY <1>9, <2>1 DEF Reload
  <2> QED BY <2>1, <2>2, BlocksKept
<1>10. ASSUME NEW s \in Slots, Fails(s) \/ (CollectList(s) /\ UNCHANGED listVars)
       PROVE  BlocksInv'
  <2>1. PICK u : tasks' = [tasks EXCEPT ![s] = u] /\ u.pc # "leave"
    <3>1. CASE Fails(s)
      BY <3>1, IdleHandler DEF Fails, CallFails
    <3>2. CASE CollectList(s)
      <4> DEFINE t == tasks[s]
                 v == [t EXCEPT !.pc = "names"]
                 w == [v EXCEPT !.list = Listing(t.id)]
      <4>1. t \in Tasks /\ tasks' = [tasks EXCEPT ![s] =
               [t EXCEPT !.pc = "names", !.list = Listing(t.id)]]
        BY <3>2, HandlerAt DEF CollectList, PageInv
      <4>2. [t EXCEPT !.pc = "names", !.list = Listing(t.id)] = w
        BY <4>1 DEF Tasks
      <4>3. v.pc = "names"
        BY <4>1 DEF Tasks
      <4>4. w.pc = "names"
        <5> HIDE DEF v
        <5> QED BY <4>3
      <4> HIDE DEF w
      <4> QED BY <4>1, <4>2, <4>4
    <3> QED BY <1>10, <3>1, <3>2
  <2>2. LeavesOK([tasks EXCEPT ![s] = u])
    BY <1>1, <2>1, LeavesOne
  <2>3. UNCHANGED <<network, blocked, faults, pendingBlocks>>
    BY <1>10 DEF Fails, CallFails, CollectList, listVars
  <2> QED BY <2>1, <2>2, <2>3, BlocksKept
<1> QED
  BY <1>3, <1>f, <1>4, <1>5, <1>6, <1>7, <1>8, <1>9, <1>10, BlocksArrive, BlocksLeave,
     BlocksCreated, BlocksSent, BlocksElsewhere
     DEF Next, Arrives, Resumes, User

\* BlockedHasLeft: however leaves, lists, switches, invitations and reloads
\* interleave, and whichever of their calls fail, the push worker is told to block
\* a group only for an inbox that
\* has left it, by refusing it or by the network's word, but for the leaves that
\* went wrong in one of three ways: taken for another identity, undone by an
\* acceptance that came late, or confirmed though the refusal had failed.
THEOREM OnlyLeaversAreBlocked == Spec => []BlockedHasLeft
<1>1. Init => PageInv /\ BlocksInv
  BY PageStarts, BlocksStart
<1>2. PageInv /\ BlocksInv /\ [Next]_vars => PageInv' /\ BlocksInv'
  BY PageNext, BlocksNext
<1>3. BlocksInv => BlockedHasLeft
  BY DEF BlocksInv
<1> QED BY <1>1, <1>2, <1>3, PTL DEF Spec

-----------------------------------------------------------------------------
(* The desktop page.                                                       *)

\* DeskTypeOK and OpenIsListed, and what they need.
DeskInv == PageInv /\ tab \in {"conversations", "identities"} /\ OpenIsListed

\* The sidebar draws a list.
LEMMA DeskDrawsStep ==
    ASSUME PageInv, NEW t, NEW list \in Seq(Summary), ListOK(list), NEW i \in Ids,
           NEW c \in [Ids -> [GroupIds -> {"unknown", "allowed", "denied"}]],
           NEW ts, Handlers(ts), DeskDraws(t, list, i, c, ts),
           active' \in Ids, UNCHANGED <<member, roster, log, recent>>
    PROVE  /\ GroupsInv' /\ LogGrows /\ ListOK(convs)' /\ convs' = list
           /\ tab' = t /\ faults' = faults
<1>1. PICK gs : gs = DeskMounted(t, list) /\ gs \subseteq GroupIds
  BY NamedGroups
<1>2. PICK done \in SUBSET {g \in gs : Known(i, g)} :
         /\ convs' = list /\ tab' = t /\ consent' = AcceptConsent(c, i, done)
         /\ tasks' = Launched(ts, AcceptRequests(i, done)) /\ faults' = faults
  BY <1>1 DEF DeskDraws
<1>3. done \subseteq GroupIds
  BY <1>1
<1>4. GroupsInv' /\ LogGrows
  BY <1>2, <1>3, RowsAppear DEF PageInv
<1> QED BY <1>2, <1>4, ListShown

\* DeskConversationsArrive: a chat the list does not have is closed.
LEMMA DeskArriveStep ==
    ASSUME DeskInv, NEW s \in Slots, DeskConversationsArrive(s)
    PROVE  /\ DeskInv'
           /\ MarksInv => MarksInv'
<1>0. PICK list \in ListPosted(s) :
        LET v      == ViewAfter(list)
            marked == unread \cup NewIn(list, v)
        IN  /\ pendingOpen' = FALSE
            /\ lastSeen' = SeenAfter(list)
            /\ view' = FallBack(v, list)
            /\ unread' = marked \ OpenedAs(view')
            /\ ihu' = IF HasUnread(list, marked)
                      THEN ihu \cup ({current} \ {NoOne}) ELSE ihu \ {current}
            /\ pendingBlocks' = [g \in GroupIds |->
                   IF g \in BlocksDue(list) THEN NoOne ELSE pendingBlocks[g]]
            /\ blocked' = blocked \cup
                   {<<pendingBlocks[g], g>> : g \in BlocksDue(list)}
            /\ DeskDraws(tab, list, active, consent, Done(s))
            /\ listOf' = tasks[s].id
            /\ mixed' = (mixed \/ listOf \notin {NoOne, tasks[s].id})
            /\ toChat' = [g \in GroupIds |->
                   IF g = v THEN Max({toChat[g], NewestIn(list, g), lastSeen[g]})
                            ELSE toChat[g]]
            /\ UNCHANGED <<member, roster, log, recent, active, current, saved,
                           dialog, ops, reloads>>
  BY DEF DeskConversationsArrive
<1>v. PICK v : v = ViewAfter(list)
  OBVIOUS
<1>1. /\ pendingOpen' = FALSE
      /\ lastSeen' = SeenAfter(list)
      /\ view' = FallBack(v, list)
      /\ unread' = (unread \cup NewIn(list, v)) \ OpenedAs(view')
      /\ ihu' = ihu \cup ({current} \ {NoOne}) \/ ihu' = ihu \ {current}
      /\ pendingBlocks' = [g \in GroupIds |->
             IF g \in BlocksDue(list) THEN NoOne ELSE pendingBlocks[g]]
      /\ blocked' = blocked \cup
             {<<pendingBlocks[g], g>> : g \in BlocksDue(list)}
      /\ DeskDraws(tab, list, active, consent, Done(s))
      /\ listOf' = tasks[s].id
      /\ mixed' = (mixed \/ listOf \notin {NoOne, tasks[s].id})
      /\ toChat' = [g \in GroupIds |->
             IF g = v THEN Max({toChat[g], NewestIn(list, g), lastSeen[g]})
                      ELSE toChat[g]]
      /\ UNCHANGED <<member, roster, log, recent, active, current, saved,
                     dialog, ops, reloads>>
  BY <1>0, <1>v
<1>2. /\ list \in Seq(Summary) /\ Handlers(Done(s)) /\ ListOK(list)
      /\ v \in {"home", "identities"} \cup GroupIds
  BY <1>v, PostedLists DEF DeskInv
<1>3. /\ unread \cup NewIn(list, v) \in SUBSET GroupIds /\ active \in Ids
      /\ consent \in [Ids -> [GroupIds -> {"unknown", "allowed", "denied"}]]
  BY <1>2, NamedGroups DEF DeskInv, PageInv, GroupsInv, GroupsTypeOK, ScreenTypeOK
<1>4. /\ GroupsInv' /\ LogGrows /\ convs' = list /\ tab' = tab /\ faults' = faults
  <2>1. PICK i, c, ts, t : i = active /\ c = consent /\ ts = Done(s) /\ t = tab
    OBVIOUS
  <2>2. DeskDraws(t, list, i, c, ts) /\ Handlers(ts) /\ i \in Ids
        /\ c \in [Ids -> [GroupIds -> {"unknown", "allowed", "denied"}]]
        /\ active' \in Ids /\ UNCHANGED <<member, roster, log, recent>>
    BY <1>1, <1>2, <1>3, <2>1
  <2>3. /\ GroupsInv' /\ LogGrows /\ ListOK(convs)' /\ convs' = list
        /\ tab' = t /\ faults' = faults
    BY <1>2, <2>2, DeskDrawsStep DEF DeskInv
  <2> QED BY <2>1, <2>3
<1>5. view' \in {"home", "identities"} \cup GroupIds /\ view' \in {v, "home"}
  BY <1>1, <1>2 DEF FallBack
<1>6. faults' \subseteq Faulted
  BY <1>4 DEF DeskInv, PageInv, ScreenTypeOK
<1>7. ScreenTypeOK' /\ ListOK(convs)'
  <2>1. PICK w : w = OpenedAs(view')
    OBVIOUS
  <2>2. PICK vs \in SUBSET GroupIds : vs = unread \cup NewIn(list, v)
    BY <1>3
  <2>3. unread' = vs \ w
    BY <1>1, <2>1, <2>2
  <2>4. /\ pendingOpen' = FALSE /\ lastSeen' = SeenAfter(list)
        /\ ihu' = ihu \cup ({current} \ {NoOne}) \/ ihu' = ihu \ {current}
        /\ mixed' = (mixed \/ listOf \notin {NoOne, tasks[s].id})
        /\ pendingBlocks' = [g \in GroupIds |->
               IF g \in BlocksDue(list) THEN NoOne ELSE pendingBlocks[g]]
        /\ blocked' = blocked \cup
               {<<pendingBlocks[g], g>> : g \in BlocksDue(list)}
        /\ listOf' = tasks[s].id /\ log' = log
        /\ toChat' = [g \in GroupIds |->
               IF g = v THEN Max({toChat[g], NewestIn(list, g), lastSeen[g]})
                        ELSE toChat[g]]
        /\ UNCHANGED <<current, saved, dialog, ops, reloads>>
    BY <1>1
  <2> QED BY <1>2, <1>4, <1>5, <1>6, <2>3, <2>4, ArrivalTypes DEF DeskInv
<1>8. OpenIsListed'
  <2>1. "home" \notin GroupIds
    BY ListAssumption
  <2>2. view' \in GroupIds => view' \in ListedIds(list)
    BY <1>1, <2>1 DEF FallBack
  <2> QED BY <1>4, <2>2 DEF OpenIsListed, ListedIds
<1>9. ASSUME MarksInv PROVE MarksInv'
  <2>1. /\ lastSeen' = SeenAfter(list) /\ log' = log
        /\ unread' = (unread \cup NewIn(list, v)) \ OpenedAs(view')
        /\ toChat' = [g \in GroupIds |->
               IF g = v THEN Max({toChat[g], NewestIn(list, g), lastSeen[g]})
                        ELSE toChat[g]]
    BY <1>1
  <2> QED BY <1>4, <1>5, <1>9, <2>1, MarksArrive DEF DeskInv
<1> QED BY <1>4, <1>7, <1>8, <1>9 DEF DeskInv, PageInv

\* A step of DeskInv that leaves list and chat as they are.
LEMMA DeskSameStep ==
    ASSUME DeskInv, PageInv', tab' = tab, convs' = convs, view' = view
    PROVE  DeskInv'
BY DEF DeskInv, OpenIsListed, ListedIds

\* A click on a row.
LEMMA DeskOpenStep ==
    ASSUME DeskInv, DeskOpenChat
    PROVE  /\ DeskInv'
           /\ MarksInv => MarksInv'
<1>1. PICK g \in ListedIds(DeskOnScreen) :
        /\ view' = g /\ unread' = unread \ {g}
        /\ toChat' = [toChat EXCEPT ![g] =
                         Max({@, NewestIn(convs, g), lastSeen[g]})]
        /\ UNCHANGED <<backend, current, convs, pendingOpen, dialog, listOf,
                       saved, lastSeen, ihu, blockVars, boundVars, tab>>
  BY DEF DeskOpenChat
<1>2. g \in ListedIds(convs)
  BY DEF DeskOnScreen, ListedIds
<1>3. PageInv'
  BY <1>1, <1>2, ChatOpens DEF DeskInv
<1>4. OpenIsListed'
  BY <1>1, <1>2 DEF OpenIsListed, ListedIds
<1>5. MarksInv => MarksInv'
  BY <1>1, <1>2, MarksOpened DEF DeskInv, backend, network
<1> QED BY <1>1, <1>3, <1>4, <1>5 DEF DeskInv

\* A tab is selected.
LEMMA SelectTabStep ==
    ASSUME DeskInv, SelectTab
    PROVE  /\ DeskInv' /\ LogGrows
           /\ UNCHANGED <<convs, view, unread, lastSeen, toChat>>
<1>1. PICK t \in {"conversations", "identities"} :
        /\ DeskDraws(t, convs, active, consent, tasks)
        /\ UNCHANGED <<member, roster, log, recent, active, current, view,
                       pendingOpen, dialog, listOf, savedVars, pendingBlocks,
                       blocked, boundVars>>
  BY DEF SelectTab
<1>2. PICK list, i, c, ts :
         list = convs /\ i = active /\ c = consent /\ ts = tasks
  OBVIOUS
<1>3. /\ list \in Seq(Summary) /\ ListOK(list) /\ i \in Ids /\ Handlers(ts)
      /\ c \in [Ids -> [GroupIds -> {"unknown", "allowed", "denied"}]]
  BY <1>2, HandlersNow DEF DeskInv, PageInv, ScreenTypeOK, GroupsInv, GroupsTypeOK
<1>4. DeskDraws(t, list, i, c, ts) /\ active' \in Ids
      /\ UNCHANGED <<member, roster, log, recent>>
  BY <1>1, <1>2, <1>3
<1>5. /\ GroupsInv' /\ LogGrows /\ ListOK(convs)' /\ convs' = list
      /\ tab' = t /\ faults' = faults
  BY <1>3, <1>4, DeskDrawsStep DEF DeskInv
<1>6. ScreenTypeOK'
  BY <1>1, <1>2, <1>5
     DEF DeskInv, PageInv, ScreenTypeOK, dialog, savedVars, boundVars
<1>7. OpenIsListed'
  BY <1>1, <1>2, <1>5 DEF DeskInv, OpenIsListed, ListedIds
<1> QED BY <1>1, <1>2, <1>5, <1>6, <1>7 DEF DeskInv, PageInv, savedVars

\* A click on an identity.
LEMMA DeskSwitchStep ==
    ASSUME DeskInv, DeskSwitch
    PROVE  /\ DeskInv' /\ LogGrows /\ convs' = convs /\ view' = "home"
           /\ UNCHANGED <<unread, lastSeen, toChat>>
<1>1. PICK i \in Ids :
        /\ Counted /\ active' = i /\ view' = "home"
        /\ DeskDraws("conversations", convs, i, consent,
                     Launched(tasks, <<SwitchTask(i)>>))
        /\ UNCHANGED <<member, roster, log, recent, current, pendingOpen,
                       dialog, listOf, savedVars, pendingBlocks, blocked,
                       mixed, reloads>>
  BY DEF DeskSwitch
<1>2. PICK list, c, ts :
         list = convs /\ c = consent /\ ts = Launched(tasks, <<SwitchTask(i)>>)
  OBVIOUS
<1>3. /\ list \in Seq(Summary) /\ ListOK(list) /\ Handlers(ts)
      /\ c \in [Ids -> [GroupIds -> {"unknown", "allowed", "denied"}]]
  BY <1>2, SwitchHandlers DEF DeskInv, PageInv, ScreenTypeOK, GroupsInv, GroupsTypeOK
<1>4. DeskDraws("conversations", list, i, c, ts) /\ active' \in Ids
      /\ UNCHANGED <<member, roster, log, recent>>
  BY <1>1, <1>2
<1>5. /\ GroupsInv' /\ LogGrows /\ ListOK(convs)' /\ convs' = list
      /\ tab' = "conversations" /\ faults' = faults
  BY <1>3, <1>4, DeskDrawsStep DEF DeskInv
<1>6. ops' \in 0..MaxOps
  BY <1>1, CountedType DEF DeskInv, PageInv
<1>7. ScreenTypeOK'
  BY <1>1, <1>2, <1>5, <1>6 DEF DeskInv, PageInv, ScreenTypeOK, dialog, savedVars
<1>8. OpenIsListed'
  BY <1>1, ListAssumption DEF OpenIsListed
<1> QED BY <1>1, <1>2, <1>5, <1>7, <1>8 DEF DeskInv, PageInv, savedVars

\* A leave is confirmed: the chat that stays open is another one.
LEMMA DeskConfirmStep ==
    ASSUME DeskInv, DeskConfirmLeave
    PROVE  /\ DeskInv' /\ LogGrows /\ convs' = Without(leaving)
           /\ view' \in {"home", view}
           /\ UNCHANGED <<unread, lastSeen, toChat>>
<1>0. PICK fails \in BOOLEAN :
         DeskDraws(tab, Without(leaving), active, LeaveConsent(active, leaving, fails),
                   Launched(tasks, LeaveRequest(active, leaving)))
  BY DEF DeskConfirmLeave
<1>1. PICK g, list, i, c, ts, t :
         /\ g = leaving /\ list = Without(g) /\ i = active /\ t = tab
         /\ c = LeaveConsent(active, g, fails)
         /\ ts = Launched(tasks, LeaveRequest(active, g))
  OBVIOUS
<1>2. g \in GroupIds /\ i \in Ids
  BY <1>1 DEF DeskConfirmLeave, NoDialog, DeskInv, PageInv, ScreenTypeOK,
              GroupsInv, GroupsTypeOK
<1>3. /\ list \in Seq(Summary) /\ ListOK(list)
      /\ \A h : h \in ListedIds(list) <=> h \in ListedIds(convs) \ {g}
  BY <1>1, WithoutType DEF DeskInv
<1>4. /\ Handlers(ts)
      /\ c \in [Ids -> [GroupIds -> {"unknown", "allowed", "denied"}]]
  BY <1>1, <1>2, LeaveHandlers DEF DeskInv, PageInv
<1>5. /\ leaving' = NoOne /\ inChat' = FALSE /\ Counted
      /\ view' = IF inChat \/ view = g THEN "home" ELSE view
      /\ pendingBlocks' = [pendingBlocks EXCEPT ![g] = current]
      /\ DeskDraws(t, list, i, c, ts)
      /\ UNCHANGED <<member, roster, log, recent, active, current,
                     pendingOpen, listOf, savedVars, blocked, mixed, reloads>>
  BY <1>0, <1>1 DEF DeskConfirmLeave
<1>6. active' \in Ids
  BY <1>1, <1>2, <1>5
<1>7. /\ GroupsInv' /\ LogGrows /\ ListOK(convs)' /\ convs' = list
      /\ tab' = t /\ faults' = faults
  BY <1>2, <1>3, <1>4, <1>5, <1>6, DeskDrawsStep DEF DeskInv
<1>8. ops' \in 0..MaxOps
  BY <1>5, CountedType DEF DeskInv, PageInv
<1>9. pendingBlocks' \in [GroupIds -> Ids \cup {NoOne}]
  BY <1>2, <1>5 DEF DeskInv, PageInv, ScreenTypeOK
<1>10. ScreenTypeOK'
  BY <1>3, <1>5, <1>7, <1>8, <1>9 DEF DeskInv, PageInv, ScreenTypeOK, savedVars
<1>11. OpenIsListed'
  <2>1. view' \in GroupIds => view' = view /\ view # g
    BY <1>5, ListAssumption
  <2>2. view' \in GroupIds => view' \in ListedIds(list)
    BY <1>3, <2>1 DEF DeskInv, OpenIsListed
  <2> QED BY <1>7, <2>2 DEF OpenIsListed, ListedIds
<1> QED BY <1>1, <1>5, <1>7, <1>10, <1>11 DEF DeskInv, PageInv, savedVars

\* Every step of the desktop page keeps types and marks, and the chat listed.
LEMMA DeskStep ==
    ASSUME DeskInv, [DeskNext]_deskVars
    PROVE  /\ DeskInv'
           /\ MarksInv => MarksInv'
<1>1. PageInv /\ "home" \notin GroupIds
  BY ListAssumption DEF DeskInv
<1>2. ASSUME PageInv', LogGrows, UNCHANGED <<tab, convs, view, unread, lastSeen, toChat>>
      PROVE  DeskInv' /\ (MarksInv => MarksInv')
  <2>1. DeskInv'
    BY <1>2, DeskSameStep
  <2> QED BY <1>1, <1>2, <2>1, MarksStay
<1>3. ASSUME UNCHANGED deskVars
      PROVE  DeskInv' /\ (MarksInv => MarksInv')
  <2>1. PageInv' /\ LogGrows /\ UNCHANGED <<tab, convs, view, unread, lastSeen, toChat>>
    BY <1>1, <1>3, PageStutters DEF deskVars, vars, listVars, shownVars, savedVars
  <2> QED BY <1>2, <2>1
<1>4. ASSUME NEW s \in Slots, DeskIdentityListArrives(s)
      PROVE  DeskInv' /\ (MarksInv => MarksInv')
  <2>1. UNCHANGED <<tab, convs, view, unread, lastSeen, toChat>>
    BY <1>4 DEF DeskIdentityListArrives, FirstIdentityListArrives,
                IdentityListArrives, savedVars
  <2>2. PageInv' /\ LogGrows
    BY <1>1, <1>4, FirstIdentityListArrivesStep, IdentityListArrivesStep
       DEF DeskIdentityListArrives
  <2> QED BY <1>2, <2>1, <2>2
<1>5. ASSUME NEW s \in Slots, DeskResumes(s)
      PROVE  DeskInv' /\ (MarksInv => MarksInv')
  <2>1. UNCHANGED <<tab, convs, view, unread, lastSeen, toChat>>
    BY <1>5 DEF DeskResumes, Resumes, Fails, listVars, shownVars, savedVars
  <2>2. PageInv' /\ LogGrows
    BY <1>1, <1>5, ResumesStep DEF DeskResumes
  <2> QED BY <1>2, <2>1, <2>2
<1>6. ASSUME DeskPoll \/ DeskElsewhere \/ DeskCancelLeave
      PROVE  DeskInv' /\ (MarksInv => MarksInv')
  <2>1. UNCHANGED <<tab, convs, view, unread, lastSeen, toChat>>
    BY <1>6 DEF DeskPoll, Poll, DeskElsewhere, Elsewhere, DeskCancelLeave,
                CancelLeave, listVars, shownVars, savedVars
  <2>2. PageInv' /\ LogGrows
    BY <1>1, <1>6, PollStep, ElsewhereStep, CancelLeaveStep
       DEF DeskPoll, DeskElsewhere, DeskCancelLeave
  <2> QED BY <1>2, <2>1, <2>2
<1>7. ASSUME DeskCreateGroup
      PROVE  DeskInv' /\ (MarksInv => MarksInv')
  <2>1. UNCHANGED <<tab, convs, view, unread, lastSeen, toChat>>
    BY <1>7 DEF DeskCreateGroup, savedVars
  <2>2. PageInv' /\ LogGrows
    BY <1>1, <1>7, GroupAsked DEF DeskCreateGroup
  <2> QED BY <1>2, <2>1, <2>2
<1>8. ASSUME DeskAskLeave
      PROVE  DeskInv' /\ (MarksInv => MarksInv')
  <2>1. UNCHANGED <<backend, tab, convs, view, unread, lastSeen, toChat>>
    BY <1>8 DEF DeskAskLeave, savedVars
  <2>2. leaving' \in GroupIds \cup {NoOne} /\ inChat' \in BOOLEAN
    <3>1. ListedIds(DeskOnScreen) \subseteq ListedIds(convs)
      BY DEF DeskOnScreen, ListedIds
    <3> QED
      BY <1>1, <1>8, <3>1, NamedGroups DEF DeskAskLeave, PageInv, ScreenTypeOK
  <2>3. ScreenTypeOK'
    BY <1>1, <1>8, <2>2
       DEF DeskAskLeave, PageInv, ScreenTypeOK, savedVars, blockVars, boundVars
  <2>4. PageInv' /\ LogGrows
    BY <1>1, <2>1, <2>3, ScreenStep
  <2> QED BY <1>2, <2>1, <2>4
<1>9. ASSUME SelectTab
      PROVE  DeskInv' /\ (MarksInv => MarksInv')
  BY <1>1, <1>9, SelectTabStep, MarksStay
<1>10. ASSUME DeskSwitch
       PROVE  DeskInv' /\ (MarksInv => MarksInv')
  BY <1>1, <1>10, DeskSwitchStep, MarksStay
<1>11. ASSUME DeskConfirmLeave
       PROVE  DeskInv' /\ (MarksInv => MarksInv')
  <2>1. /\ DeskInv' /\ LogGrows /\ convs' = Without(leaving)
        /\ view' \in {"home", view}
        /\ UNCHANGED <<unread, lastSeen, toChat>>
    BY <1>11, DeskConfirmStep
  <2> QED BY <1>1, <2>1, MarksStay
<1> QED
  BY <1>3, <1>4, <1>5, <1>6, <1>7, <1>8, <1>9, <1>10, <1>11, DeskArriveStep,
     DeskOpenStep
     DEF DeskNext, DeskArrives

\* At the start no chat is open.
LEMMA DeskStarts == DeskInit => DeskInv /\ MarksInv
<1> SUFFICES ASSUME DeskInit
             PROVE  DeskInv /\ MarksInv
  OBVIOUS
<1>1. PageInv /\ MarksInv /\ tab = "conversations"
  BY PageStarts, MarksStart DEF DeskInit
<1>2. OpenIsListed
  BY ListAssumption DEF DeskInit, Init, OpenIsListed
<1> QED BY <1>1, <1>2 DEF DeskInv

\* DeskTypeOK: the desktop page too keeps the type of its state.
THEOREM DeskTypes == DeskSpec => []DeskTypeOK
<1>1. DeskInit => DeskInv
  BY DeskStarts
<1>2. DeskInv /\ [DeskNext]_deskVars => DeskInv'
  BY DeskStep
<1>3. DeskInv => DeskTypeOK
  BY PageTypes DEF DeskInv, DeskTypeOK
<1> QED BY <1>1, <1>2, <1>3, PTL DEF DeskSpec

\* OpenIsListed: the chat on the desktop page is always one of the list beside
\* it, also when a late list of another identity arrives or a leave from its own
\* settings closes a chat that has changed meanwhile.
THEOREM OpenChatIsListed == DeskSpec => []OpenIsListed
<1>1. DeskInit => DeskInv
  BY DeskStarts
<1>2. DeskInv /\ [DeskNext]_deskVars => DeskInv'
  BY DeskStep
<1>3. DeskInv => OpenIsListed
  BY DEF DeskInv
<1> QED BY <1>1, <1>2, <1>3, PTL DEF DeskSpec

\* UnreadNotMissed, up to the chat, holds of the desktop page as well, which
\* closes chats the mobile page keeps open.
THEOREM MarksUntilOpenedOnDesk == DeskSpec => []UnreadNotMissed
<1>1. DeskInit => DeskInv /\ MarksInv
  BY DeskStarts
<1>2. DeskInv /\ MarksInv /\ [DeskNext]_deskVars => DeskInv' /\ MarksInv'
  BY DeskStep
<1>3. DeskInv /\ MarksInv => UnreadNotMissed
  BY MarksSuffice DEF DeskInv
<1> QED BY <1>1, <1>2, <1>3, PTL DEF DeskSpec
=============================================================================
