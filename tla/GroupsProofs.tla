---------------------------- MODULE GroupsProofs ----------------------------
(***************************************************************************)
(* What the operators of Groups return, for any groups, people and         *)
(* requests in flight: lists that are filtered, handlers that are started, *)
(* and the steps of the worker and of other people, all of which keep      *)
(* GroupsTypeOK.  The proofs about the components that extend Groups rest  *)
(* on these lemmas.                                                        *)
(***************************************************************************)
EXTENDS Groups, FiniteSetTheorems, FunctionTheorems, SequenceTheorems, TLAPS

-----------------------------------------------------------------------------
(* Keep                                                                    *)

\* Positions have different ranks, all of them up to their number.
LEMMA RankOrders ==
    ASSUME NEW T, T \subseteq Nat, IsFiniteSet(T), NEW i \in T
    PROVE  /\ Rank(T, i) \in 1..Cardinality(T)
           /\ \A j \in T : i < j => Rank(T, i) < Rank(T, j)
<1> DEFINE Upto(k) == {j \in T : j <= k}
<1>1. \A k : IsFiniteSet(Upto(k)) /\ Cardinality(Upto(k)) \in Nat
             /\ Cardinality(Upto(k)) <= Cardinality(T)
  BY FS_Subset, FS_CardinalityType
<1>2. i \in Upto(i) /\ Cardinality(Upto(i)) # 0
  <2>1. i \in Upto(i)
    OBVIOUS
  <2> QED BY <1>1, <2>1, FS_EmptySet
<1>3. ASSUME NEW j \in T, i < j PROVE Rank(T, i) < Rank(T, j)
  <2>1. Upto(i) \in SUBSET Upto(j) /\ j \in Upto(j) /\ j \notin Upto(i)
    <3>1. \A k \in T : k \in Nat
      OBVIOUS
    <3>2. i \in Nat /\ j \in Nat /\ \A k \in T : k <= i => k <= j
      BY <1>3, <3>1
    <3>3. j <= j /\ ~(j <= i)
      BY <1>3, <3>2
    <3> QED BY <3>2, <3>3, Zenon
  <2>2. Cardinality(Upto(i)) <= Cardinality(Upto(j)) /\ Upto(i) # Upto(j)
    BY <1>1, <2>1, FS_Subset
  <2>3. Cardinality(Upto(j)) # Cardinality(Upto(i))
    BY <1>1, <2>1, <2>2, FS_Subset
  <2>4. Cardinality(Upto(i)) \in Nat /\ Cardinality(Upto(j)) \in Nat
    BY <1>1
  <2>5. Cardinality(Upto(i)) < Cardinality(Upto(j))
    <3> HIDE DEF Upto
    <3> QED BY <2>2, <2>3, <2>4
  <2> QED BY <2>5 DEF Rank
<1>4. Cardinality(T) \in Nat
  BY FS_CardinalityType
<1> QED BY <1>1, <1>2, <1>3, <1>4 DEF Rank

\* Every rank is that of exactly one position.
LEMMA RankReaches ==
    ASSUME NEW T, T \subseteq Nat, IsFiniteSet(T), NEW n \in 1..Cardinality(T)
    PROVE  \E k \in T : Rank(T, k) = n /\ \A j \in T : Rank(T, j) = n => j = k
<1> DEFINE c == Cardinality(T)
           R == [k \in T |-> Rank(T, k)]
<1>1. c \in Nat
  BY FS_CardinalityType
<1>2. IsFiniteSet(1..c) /\ Cardinality(1..c) = c
  BY <1>1, FS_Interval
<1>3. R \in [T -> 1..c]
  BY RankOrders
<1>4. \A i, j \in T : R[i] = R[j] => i = j
  <2> SUFFICES ASSUME NEW i \in T, NEW j \in T, R[i] = R[j] PROVE i = j
    OBVIOUS
  <2>1. Rank(T, i) = Rank(T, j) /\ i \in Nat /\ j \in Nat
    OBVIOUS
  <2>2. Rank(T, i) \in 1..c /\ Rank(T, j) \in 1..c
    BY RankOrders
  <2>3. i < j => Rank(T, i) < Rank(T, j)
    BY RankOrders
  <2>4. j < i => Rank(T, j) < Rank(T, i)
    BY RankOrders
  <2> HIDE DEF R, c
  <2>5. Rank(T, i) \in Nat
    BY <1>1, <2>2
  <2> QED BY <2>1, <2>3, <2>4, <2>5
<1>5. R \in Injection(T, 1..c)
  BY <1>3, <1>4, Fun_IsInj
<1>6. R \in Surjection(T, 1..c)
  BY <1>2, <1>5, FS_Injection
<1>7. \A m \in 1..c : \E k \in T : R[k] = m
  <2> HIDE DEF R, c
  <2> QED BY <1>6, Fun_SurjectionProperties
<1>8. PICK k \in T : R[k] = n
  BY <1>7
<1>9. \A j \in T : Rank(T, j) = n => j = k
  BY <1>4, <1>8
<1> QED BY <1>8, <1>9

\* Keep returns the entries at the positions in T, and no others.
LEMMA KeepProperties ==
    ASSUME NEW S, NEW s \in Seq(S), NEW T \in SUBSET (1..Len(s))
    PROVE  /\ Keep(s, T) \in Seq(S)
           /\ Len(Keep(s, T)) = Cardinality(T)
           /\ \A n \in 1..Len(Keep(s, T)) : \E k \in T : Keep(s, T)[n] = s[k]
           /\ \A k \in T : \E n \in 1..Len(Keep(s, T)) : Keep(s, T)[n] = s[k]
<1> DEFINE c == Cardinality(T)
           at(n) == CHOOSE k \in T : Rank(T, k) = n
<1>1. T \subseteq Nat /\ IsFiniteSet(T) /\ c \in Nat
  <2>1. Len(s) \in Nat
    BY LenProperties
  <2>2. IsFiniteSet(1..Len(s))
    BY <2>1, FS_Interval
  <2>3. IsFiniteSet(T)
    BY <2>2, FS_Subset
  <2> QED BY <2>1, <2>3, FS_CardinalityType
<1>2. \A n \in 1..c : at(n) \in T /\ Rank(T, at(n)) = n
  <2> TAKE n \in 1..c
  <2>1. \E k \in T : Rank(T, k) = n
    BY <1>1, RankReaches
  <2> QED BY <2>1
<1>3. \A n \in 1..c : s[at(n)] \in S
  BY <1>2, ElementOfSeq
<1>4. Keep(s, T) \in [1..c -> S] /\ Keep(s, T) \in Seq(S)
  <2>1. Keep(s, T) \in [1..c -> S]
    BY <1>3 DEF Keep
  <2> QED BY <1>1, <2>1, SeqDef
<1>5. Len(Keep(s, T)) = c
  <2>1. DOMAIN Keep(s, T) = 1..c
    BY DEF Keep
  <2> QED BY <1>1, <1>4, <2>1, LenProperties
<1>6. \A n \in 1..c : Keep(s, T)[n] = s[at(n)]
  BY DEF Keep
<1>7. \A k \in T : Rank(T, k) \in 1..c /\ at(Rank(T, k)) = k
  <2> TAKE k \in T
  <2>1. Rank(T, k) \in 1..c
    BY <1>1, RankOrders
  <2>2. PICK i \in T : /\ Rank(T, i) = Rank(T, k)
                       /\ \A j \in T : Rank(T, j) = Rank(T, k) => j = i
    BY <1>1, <2>1, RankReaches
  <2>3. at(Rank(T, k)) \in T /\ Rank(T, at(Rank(T, k))) = Rank(T, k)
    BY <1>2, <2>1
  <2> QED BY <2>1, <2>2, <2>3
<1> QED BY <1>2, <1>4, <1>5, <1>6, <1>7

-----------------------------------------------------------------------------
(* Handlers in flight.                                                     *)

GroupsInv == GroupsTypeOK /\ HandlersOK

\* Messages are only ever added to a conversation.
LogGrows ==
    /\ log' \in [GroupIds -> Seq(Inboxes)]
    /\ \A g \in GroupIds :
          /\ Len(log'[g]) <= MaxLog
          /\ Len(log[g]) <= Len(log'[g])
          /\ \A k \in 1..Len(log[g]) : log'[g][k] = log[g][k]

\* The network keeps its type.
NetworkTypeOK ==
    /\ member \in [Ids -> [GroupIds -> {"none", "invited", "in", "leaving"}]]
    /\ consent \in [Ids -> [GroupIds -> {"unknown", "allowed", "denied"}]]
    /\ roster \in [GroupIds -> SUBSET Inboxes]
    /\ recent \in Seq(GroupIds)

\* The constants as sets of each other.
LEMMA ConstantFacts ==
    /\ Ids \subseteq Inboxes /\ Others \subseteq Inboxes
    /\ NoOne \notin Ids /\ NoOne \notin Inboxes /\ NoOne \notin GroupIds
    /\ MaxTasks \in Nat /\ MaxTasks # 0 /\ MaxLog \in Nat
    /\ Slots \subseteq Nat /\ IsFiniteSet(Slots) /\ IsFiniteSet(GroupIds)
<1>1. IsFiniteSet(Slots)
  BY FS_Interval, GroupsAssumption DEF Slots
<1> QED BY <1>1, GroupsAssumption DEF Inboxes, Slots

\* A call that is about to be made has the type of a handler.
LEMMA CallType ==
    ASSUME NEW pc \in PCs, NEW i \in Ids \cup {NoOne},
           NEW g \in GroupIds \cup {NoOne}, NEW who \in Inboxes \cup {NoOne}
    PROVE  Call(pc, i, g, who) \in Tasks
<1>1. <<>> \in Seq(Summary)
  OBVIOUS
<1> QED BY <1>1 DEF Call, Tasks

\* It has collected nothing yet.
LEMMA CallFields ==
    ASSUME NEW pc, NEW i, NEW g, NEW who
    PROVE  /\ Call(pc, i, g, who).pc = pc /\ Call(pc, i, g, who).id = i
           /\ Call(pc, i, g, who).gid = g /\ Call(pc, i, g, who).who = who
           /\ Call(pc, i, g, who).list = <<>> /\ Call(pc, i, g, who).n = 0
BY DEF Call

\* An empty list shows nothing.
LEMMA EmptyListOK == ListOK(<<>>) /\ ListOK(<<>>)'
BY DEF ListOK

\* An idle slot.
LEMMA IdleHandler ==
    Idle \in Tasks /\ HandlerOK(Idle) /\ HandlerOK(Idle)' /\ Idle.pc = "idle"
<1>1. Idle \in Tasks
  BY CallType DEF Idle, PCs, Fallible
<1> QED BY <1>1, EmptyListOK DEF HandlerOK, Idle, Call

\* What a list shows stays true as messages are added.
LEMMA ListStays ==
    ASSUME GroupsTypeOK, LogGrows, NEW list \in Seq(Summary), ListOK(list)
    PROVE  ListOK(list)'
<1> SUFFICES ASSUME NEW k \in 1..Len(list)
             PROVE  /\ list[k].n \in 0..Len(log'[list[k].id])
                    /\ list[k].from = IF list[k].n = 0 THEN NoOne
                                      ELSE log'[list[k].id][list[k].n]
  BY DEF ListOK
<1> DEFINE c == list[k]
           g == c.id
           n == c.n
<1>1. c \in Summary /\ g \in GroupIds /\ n \in Nat
  <2>1. list[k] \in Summary
    BY ElementOfSeq
  <2> QED BY <2>1 DEF Summary
<1>2. n \in 0..Len(log[g]) /\ c.from = IF n = 0 THEN NoOne ELSE log[g][n]
  BY DEF ListOK
<1>3. Len(log[g]) \in Nat /\ Len(log'[g]) \in Nat
  BY <1>1, LenProperties DEF GroupsTypeOK, LogGrows
<1>4. /\ Len(log[g]) <= Len(log'[g])
      /\ \A j \in 1..Len(log[g]) : log'[g][j] = log[g][j]
  BY <1>1 DEF LogGrows
<1> HIDE DEF n, g
<1>5. n \in 0..Len(log'[g])
  BY <1>1, <1>2, <1>3, <1>4
<1>6. n # 0 => log'[g][n] = log[g][n]
  BY <1>1, <1>2, <1>3, <1>4
<1> QED BY <1>2, <1>5, <1>6 DEF n, g

\* And so does what a handler holds.
LEMMA HandlerStays ==
    ASSUME GroupsTypeOK, LogGrows, NEW t \in Tasks, HandlerOK(t)
    PROVE  HandlerOK(t)'
<1>1. ListOK(t.list)'
  BY ListStays DEF HandlerOK, Tasks
<1>2. ASSUME t.pc = "senders" PROVE t.n <= Len(log'[t.gid])
  <2>1. t.gid \in GroupIds /\ t.n \in Nat /\ t.n <= Len(log[t.gid])
    BY <1>2 DEF HandlerOK, Tasks
  <2>2. /\ Len(log[t.gid]) \in Nat /\ Len(log'[t.gid]) \in Nat
        /\ Len(log[t.gid]) <= Len(log'[t.gid])
    BY <2>1, LenProperties DEF GroupsTypeOK, LogGrows
  <2> QED BY <2>1, <2>2
<1> QED BY <1>1, <1>2 DEF HandlerOK

\* The handlers in ts are such handlers.
Handlers(ts) == ts \in [Slots -> Tasks] /\ \A s \in Slots : HandlerOK(ts[s])

\* The handlers there are.
LEMMA HandlersNow == GroupsInv => Handlers(tasks)
BY DEF GroupsInv, GroupsTypeOK, HandlersOK, Handlers

\* A step may leave such handlers behind.
LEMMA HandlersNext ==
    ASSUME GroupsTypeOK, LogGrows, NEW ts, Handlers(ts), tasks' = ts
    PROVE  tasks' \in [Slots -> Tasks] /\ HandlersOK'
<1>1. ASSUME NEW s \in Slots PROVE HandlerOK(tasks[s])'
  <2>1. PICK t \in Tasks : t = ts[s]
    BY DEF Handlers
  <2>2. HandlerOK(t)'
    BY <2>1, HandlerStays DEF Handlers
  <2> QED BY <2>1, <2>2 DEF HandlerOK, ListOK
<1> QED BY <1>1 DEF HandlersOK, Handlers

\* One handler goes on or ends.
LEMMA OneHandler ==
    ASSUME NEW ts, Handlers(ts), NEW s \in Slots, NEW u \in Tasks, HandlerOK(u)
    PROVE  Handlers([ts EXCEPT ![s] = u])
BY DEF Handlers

\* What Launched puts into a slot is one of the new handlers or the old one.
LEMMA LaunchedMembers ==
    ASSUME NEW ts, NEW seq, Len(seq) \in Nat, NEW s \in Slots
    PROVE  \/ Launched(ts, seq)[s] = ts[s]
           \/ \E k \in 1..Len(seq) : Launched(ts, seq)[s] = seq[k]
<1> DEFINE free == {r \in Slots : ts[r] = Idle}
           F(r) == {f \in free : f <= r}
<1>1. CASE s \in free /\ Cardinality(F(s)) <= Len(seq)
  <2>1. IsFiniteSet(F(s)) /\ s \in F(s)
    <3>1. s \in Nat /\ s <= s /\ IsFiniteSet(Slots)
      BY ConstantFacts
    <3>2. F(s) \subseteq Slots
      OBVIOUS
    <3> QED BY <1>1, <3>1, <3>2, FS_Subset
  <2>2. Cardinality(F(s)) \in Nat /\ Cardinality(F(s)) # 0
    BY <2>1, FS_CardinalityType, FS_EmptySet
  <2>3. Cardinality(F(s)) \in 1..Len(seq)
    BY <1>1, <2>2
  <2>4. Launched(ts, seq)[s] = seq[Cardinality(F(s))]
    BY <1>1 DEF Launched
  <2> QED BY <2>3, <2>4
<1>2. CASE ~(s \in free /\ Cardinality(F(s)) <= Len(seq))
  BY <1>2 DEF Launched
<1> QED BY <1>1, <1>2

\* New handlers join those there are.
LEMMA NewHandlers ==
    ASSUME NEW ts, Handlers(ts), NEW seq, Len(seq) \in Nat,
           \A k \in 1..Len(seq) : seq[k] \in Tasks /\ HandlerOK(seq[k])
    PROVE  Handlers(Launched(ts, seq))
<1>1. \A s \in Slots : /\ Launched(ts, seq)[s] \in Tasks
                       /\ HandlerOK(Launched(ts, seq)[s])
  BY LaunchedMembers DEF Handlers
<1>2. DOMAIN Launched(ts, seq) = Slots
      /\ Launched(ts, seq) = [s \in Slots |-> Launched(ts, seq)[s]]
  BY DEF Launched
<1> QED BY <1>1, <1>2 DEF Handlers

\* One new handler.
LEMMA NewHandler ==
    ASSUME NEW ts, Handlers(ts), NEW u \in Tasks, HandlerOK(u)
    PROVE  Handlers(Launched(ts, <<u>>))
<1>1. Len(<<u>>) = 1 /\ <<u>>[1] = u
  OBVIOUS
<1> QED BY <1>1, NewHandlers

\* A call for identity i, about a conversation or not.
LEMMA CallHandler ==
    ASSUME NEW pc \in PCs \ {"idle", "senders"}, NEW i \in Ids,
           NEW g \in GroupIds \cup {NoOne}, NEW who \in Inboxes \cup {NoOne},
           pc \notin {"sync", "names", "create", "addresses"} => g \in GroupIds,
           pc = "add" => who \in Inboxes
    PROVE  Call(pc, i, g, who) \in Tasks /\ HandlerOK(Call(pc, i, g, who))
<1>1. Call(pc, i, g, who) \in Tasks
  BY CallType
<1> QED BY <1>1, CallFields, EmptyListOK DEF HandlerOK

\* handle_list
LEMMA ListHandler ==
    ASSUME NEW i \in Ids
    PROVE  ListTask(i) \in Tasks /\ HandlerOK(ListTask(i))
<1>1. "sync" \in PCs \ {"idle", "senders"}
  BY DEF PCs, Fallible
<1> QED BY <1>1, CallHandler DEF ListTask

\* TaskOn is at most one call, and what it holds is that call.
LEMMA TaskOnMembers ==
    ASSUME NEW pc, NEW i, NEW g, NEW who
    PROVE  /\ Len(TaskOn(pc, i, g, who)) \in {0, 1}
           /\ TaskOn(pc, i, g, who) = <<>> \/ TaskOn(pc, i, g, who)[1] = Call(pc, i, g, who)
           /\ \A k \in 1..Len(TaskOn(pc, i, g, who)) :
                 TaskOn(pc, i, g, who)[k] = Call(pc, i, g, who)
BY DEF TaskOn

\* A call on a conversation joins the handlers there are.
LEMMA NewCall ==
    ASSUME NEW ts, Handlers(ts), NEW pc \in PCs \ {"idle", "senders"},
           NEW i \in Ids, NEW g \in GroupIds, NEW who \in Inboxes \cup {NoOne},
           pc = "add" => who \in Inboxes
    PROVE  Handlers(Launched(ts, TaskOn(pc, i, g, who)))
BY CallHandler, TaskOnMembers, NewHandlers

-----------------------------------------------------------------------------
(* Lists.                                                                  *)

\* What a list says of a group.
LEMMA SummaryType ==
    ASSUME GroupsTypeOK, NEW i \in Ids, NEW g \in GroupIds
    PROVE  /\ SummaryOf(i, g) \in Summary
           /\ SummaryOf(i, g).id = g
           /\ SummaryOf(i, g).n \in 0..Len(log[g])
           /\ SummaryOf(i, g).from = IF SummaryOf(i, g).n = 0 THEN NoOne
                                     ELSE log[g][SummaryOf(i, g).n]
<1> DEFINE q == log[g]
<1>1. q \in Seq(Inboxes) /\ Len(q) \in Nat
  BY LenProperties DEF GroupsTypeOK
<1>2. q = <<>> <=> Len(q) = 0
  BY <1>1, EmptySeq
<1>3. q # <<>> => Last(q) \in Inboxes /\ Last(q) = q[Len(q)]
  <2>1. ASSUME q # <<>> PROVE q[Len(q)] \in Inboxes
    <3>1. Len(q) \in 1..Len(q)
      BY <1>1, <1>2, <2>1
    <3> QED BY <1>1, <3>1, ElementOfSeq
  <2> QED BY <2>1 DEF Last
<1>4. IsPending(i, g) \in BOOLEAN
  BY DEF IsPending
<1>5. SummaryOf(i, g) = [id |-> g, n |-> Len(q),
                         from |-> IF q = <<>> THEN NoOne ELSE Last(q),
                         pending |-> IsPending(i, g)]
  BY DEF SummaryOf
<1> HIDE DEF q
<1>6. SummaryOf(i, g) \in Summary
  BY <1>1, <1>3, <1>4, <1>5 DEF Summary
<1>7. /\ SummaryOf(i, g).id = g /\ SummaryOf(i, g).n = Len(q)
      /\ SummaryOf(i, g).from = IF q = <<>> THEN NoOne ELSE Last(q)
  BY <1>5
<1>8. Len(q) \in 0..Len(q)
  BY <1>1
<1> QED BY <1>2, <1>3, <1>6, <1>7, <1>8 DEF q

\* A list that is collected shows each group as it is.
LEMMA ListingType ==
    ASSUME GroupsTypeOK, NEW i \in Ids
    PROVE  Listing(i) \in Seq(Summary) /\ ListOK(Listing(i))
<1> DEFINE T == {k \in 1..Len(recent) : InList(i, recent[k])}
           ids == Keep(recent, T)
           n == Len(ids)
<1>1. recent \in Seq(GroupIds) /\ T \in SUBSET (1..Len(recent))
  BY DEF GroupsTypeOK
<1>2. ids \in Seq(GroupIds)
  <2> HIDE DEF T
  <2> QED BY <1>1, KeepProperties
<1>3. Listing(i) = [k \in 1..n |-> SummaryOf(i, ids[k])]
  BY DEF Listing
<1> HIDE DEF T, ids
<1>4. n \in Nat /\ \A k \in 1..n : ids[k] \in GroupIds
  BY <1>2, LenProperties, ElementOfSeq
<1>5. Listing(i) \in [1..n -> Summary]
  BY <1>3, <1>4, SummaryType
<1>6. Listing(i) \in Seq(Summary) /\ Len(Listing(i)) = n
  <2> HIDE DEF n
  <2>1. Listing(i) \in Seq(Summary)
    BY <1>4, <1>5, SeqDef
  <2>2. DOMAIN Listing(i) = 1..n
    BY <1>5
  <2> QED BY <1>4, <2>1, <2>2, LenProperties
<1>7. ASSUME NEW k \in 1..Len(Listing(i))
      PROVE  /\ Listing(i)[k].n \in 0..Len(log[Listing(i)[k].id])
             /\ Listing(i)[k].from =
                   IF Listing(i)[k].n = 0 THEN NoOne
                   ELSE log[Listing(i)[k].id][Listing(i)[k].n]
  <2>1. k \in 1..n /\ Listing(i)[k] = SummaryOf(i, ids[k]) /\ ids[k] \in GroupIds
    BY <1>3, <1>4, <1>6
  <2> QED BY <2>1, SummaryType
<1> QED BY <1>6, <1>7 DEF ListOK

\* A list that is posted was collected by its handler, or is collected now.
LEMMA PostedType ==
    ASSUME GroupsInv, NEW s \in Slots, NEW list \in ListPosted(s)
    PROVE  list \in Seq(Summary) /\ ListOK(list)
           /\ tasks[s].id \in Ids
<1> DEFINE t == tasks[s]
<1>1. t \in Tasks /\ HandlerOK(t)
  BY DEF GroupsInv, GroupsTypeOK, HandlersOK
<1>2. \/ t.pc = "names" /\ list = t.list
      \/ t.pc = "sync" /\ list = Listing(t.id)
  BY DEF ListPosted
<1>3. t.id \in Ids
  BY <1>1, <1>2 DEF HandlerOK
<1> QED BY <1>1, <1>2, <1>3, ListingType DEF HandlerOK, Tasks, GroupsInv

\* The group with the latest activity is a group.
LEMMA ToFrontType ==
    ASSUME recent \in Seq(GroupIds), NEW g \in GroupIds
    PROVE  ToFront(g) \in Seq(GroupIds)
<1> DEFINE T == {k \in 1..Len(recent) : recent[k] # g}
<1>1. T \in SUBSET (1..Len(recent))
  OBVIOUS
<1>2. Keep(recent, T) \in Seq(GroupIds)
  <2> HIDE DEF T
  <2> QED BY <1>1, KeepProperties
<1>3. <<g>> \in Seq(GroupIds)
  OBVIOUS
<1> QED BY <1>2, <1>3, ConcatProperties DEF ToFront

-----------------------------------------------------------------------------
(* Steps.                                                                  *)

\* Nobody writes.
LEMMA LogStays == GroupsTypeOK /\ log' = log => LogGrows
BY LenProperties DEF GroupsTypeOK, LogGrows

\* One message is written.
LEMMA WrittenStep ==
    ASSUME GroupsTypeOK, NEW g \in GroupIds, NEW from \in Inboxes,
           Written(g, from)
    PROVE  LogGrows /\ recent' \in Seq(GroupIds)
<1> DEFINE q == log[g]
           r == Append(q, from)
<1>1. q \in Seq(Inboxes) /\ Len(q) \in Nat /\ Len(q) < MaxLog
  BY LenProperties DEF GroupsTypeOK, Written
<1>2. /\ r \in Seq(Inboxes) /\ Len(r) = Len(q) + 1
      /\ \A k \in 1..Len(q) : r[k] = q[k]
  <2> HIDE DEF q
  <2> QED BY <1>1, AppendProperties
<1>3. log' = [log EXCEPT ![g] = r]
  BY DEF Written
<1>4. \A h \in GroupIds : log'[h] = IF h = g THEN r ELSE log[h]
  BY <1>3 DEF GroupsTypeOK
<1> HIDE DEF r
<1>5. log' \in [GroupIds -> Seq(Inboxes)]
  BY <1>2, <1>3 DEF GroupsTypeOK
<1>6. Len(r) <= MaxLog /\ Len(q) <= Len(r)
  <2> HIDE DEF q
  <2> QED BY <1>1, <1>2, ConstantFacts
<1>7. ASSUME NEW h \in GroupIds
      PROVE  /\ Len(log'[h]) <= MaxLog
             /\ Len(log[h]) <= Len(log'[h])
             /\ \A k \in 1..Len(log[h]) : log'[h][k] = log[h][k]
  <2>1. CASE h = g
    BY <1>2, <1>4, <1>6, <2>1
  <2>2. CASE h # g
    <3>1. log'[h] = log[h] /\ Len(log[h]) \in Nat
      BY <1>4, <2>2, LenProperties DEF GroupsTypeOK
    <3> QED BY <3>1 DEF GroupsTypeOK
  <2> QED BY <2>1, <2>2
<1>8. recent' \in Seq(GroupIds)
  BY ToFrontType DEF Written, GroupsTypeOK
<1> QED BY <1>5, <1>7, <1>8 DEF LogGrows

\* A step keeps GroupsInv when messages are only added and each part of the
\* state keeps its type.
LEMMA GroupsStep ==
    ASSUME GroupsTypeOK, LogGrows, NetworkTypeOK', active' \in Ids,
           NEW ts, Handlers(ts), tasks' = ts
    PROVE  GroupsInv'
<1>1. tasks' \in [Slots -> Tasks] /\ HandlersOK'
  BY HandlersNext
<1> QED BY <1>1 DEF GroupsInv, GroupsTypeOK, NetworkTypeOK, LogGrows

\* So does one that only starts handlers, ends them or lets them go on.
LEMMA HandlersStep ==
    ASSUME GroupsInv, UNCHANGED network, active' \in Ids,
           NEW ts, Handlers(ts), tasks' = ts
    PROVE  GroupsInv' /\ LogGrows
<1>1. LogGrows /\ NetworkTypeOK'
  BY LogStays DEF network, GroupsInv, GroupsTypeOK, NetworkTypeOK
<1> QED BY <1>1, GroupsStep DEF GroupsInv

\* A handler is known by its slot.
LEMMA HandlerAt ==
    ASSUME GroupsInv, NEW s \in Slots
    PROVE  tasks[s] \in Tasks /\ HandlerOK(tasks[s])
BY DEF GroupsInv, GroupsTypeOK, HandlersOK

\* Done: a handler ends.
LEMMA DoneHandlers == \A s \in Slots : GroupsInv => Handlers(Done(s))
BY HandlersNow, IdleHandler, OneHandler DEF Done

\* Its slot goes to handle_list.
LEMMA ThenListHandlers ==
    ASSUME GroupsInv, NEW s \in Slots
    PROVE  Handlers([tasks EXCEPT ![s] = ListTask(active)])
<1>1. active \in Ids
  BY DEF GroupsInv, GroupsTypeOK
<1> QED BY <1>1, HandlersNow, ListHandler, OneHandler

\* Or to the members of its conversation.
LEMMA ThenMembersHandlers ==
    ASSUME GroupsInv, NEW s \in Slots, tasks[s].gid \in GroupIds
    PROVE  LET next == TaskOn("members", active, tasks[s].gid, NoOne)
           IN  Handlers([tasks EXCEPT ![s] = IF next = <<>> THEN Idle ELSE next[1]])
<1> DEFINE next == TaskOn("members", active, tasks[s].gid, NoOne)
           u == IF next = <<>> THEN Idle ELSE next[1]
           call == Call("members", active, tasks[s].gid, NoOne)
<1>1. active \in Ids /\ "members" \in PCs \ {"idle", "senders"}
  BY DEF GroupsInv, GroupsTypeOK, PCs, Fallible
<1>2. call \in Tasks /\ HandlerOK(call)
  BY <1>1, CallHandler
<1>3. u = Idle \/ u = call
  BY TaskOnMembers
<1> HIDE DEF u, call
<1>4. u \in Tasks /\ HandlerOK(u)
  BY <1>2, <1>3, IdleHandler
<1>5. Handlers([tasks EXCEPT ![s] = u])
  BY <1>4, HandlersNow, OneHandler
<1> QED BY <1>5 DEF u

\* CollectList
LEMMA CollectListStep ==
    ASSUME GroupsInv, NEW s \in Slots, CollectList(s)
    PROVE  GroupsInv' /\ LogGrows
<1> DEFINE t == tasks[s]
           list == Listing(t.id)
           u == [t EXCEPT !.pc = "names", !.list = list]
           v == [t EXCEPT !.pc = "names"]
           w == [v EXCEPT !.list = list]
<1>1. t \in Tasks /\ HandlerOK(t) /\ t.pc = "sync"
  BY HandlerAt DEF CollectList
<1>2. t.id \in Ids
  BY <1>1 DEF HandlerOK
<1>3. list \in Seq(Summary) /\ ListOK(list)
  BY <1>2, ListingType DEF GroupsInv
<1>4. tasks' = [tasks EXCEPT ![s] = u] /\ UNCHANGED network /\ active' \in Ids
  BY DEF CollectList, GroupsInv, GroupsTypeOK
<1>5. u = w
  BY <1>1 DEF Tasks
<1> HIDE DEF u, list, t
<1>6. v \in Tasks /\ v.pc = "names" /\ v.id = t.id
  BY <1>1 DEF Tasks, PCs
<1> HIDE DEF v
<1>7. w \in Tasks /\ w.pc = "names" /\ w.id = t.id /\ w.list = list
  BY <1>3, <1>6 DEF Tasks
<1> HIDE DEF w
<1>8. HandlerOK(w)
  BY <1>2, <1>3, <1>7 DEF HandlerOK
<1>9. Handlers([tasks EXCEPT ![s] = u])
  BY <1>5, <1>7, <1>8, HandlersNow, OneHandler
<1> QED BY <1>4, <1>9, HandlersStep

\* CollectMessages
LEMMA CollectMessagesStep ==
    ASSUME GroupsInv, NEW s \in Slots, CollectMessages(s)
    PROVE  GroupsInv' /\ LogGrows
<1> DEFINE t == tasks[s]
           n == Len(log[t.gid])
           u == [t EXCEPT !.pc = "senders", !.n = n]
           v == [t EXCEPT !.pc = "senders"]
           w == [v EXCEPT !.n = n]
<1>1. t \in Tasks /\ HandlerOK(t) /\ t.pc = "fetch"
  BY HandlerAt DEF CollectMessages
<1>2. t.id \in Ids /\ t.gid \in GroupIds
  BY <1>1 DEF HandlerOK
<1>3. n \in Nat
  BY <1>2, LenProperties DEF GroupsInv, GroupsTypeOK
<1>4. tasks' = [tasks EXCEPT ![s] = u] /\ UNCHANGED network /\ active' \in Ids
  BY DEF CollectMessages, GroupsInv, GroupsTypeOK
<1>5. u = w
  BY <1>1 DEF Tasks
<1> HIDE DEF u, t
<1>6. v \in Tasks /\ v.pc = "senders" /\ v.id = t.id /\ v.gid = t.gid
      /\ v.list = t.list
  BY <1>1 DEF Tasks, PCs
<1> HIDE DEF v
<1>7. n <= Len(log[t.gid])
  BY <1>3
<1> HIDE DEF n
<1>8. w \in Tasks /\ w.pc = "senders" /\ w.id = t.id /\ w.gid = t.gid
      /\ w.list = t.list /\ w.n = n
  BY <1>3, <1>6 DEF Tasks
<1> HIDE DEF w
<1>9. HandlerOK(w)
  BY <1>1, <1>2, <1>7, <1>8 DEF HandlerOK
<1>10. Handlers([tasks EXCEPT ![s] = u])
  BY <1>5, <1>8, <1>9, HandlersNow, OneHandler
<1> QED BY <1>4, <1>10, HandlersStep

\* CallFails
LEMMA CallFailsStep ==
    ASSUME GroupsInv, NEW s \in Slots, CallFails(s)
    PROVE  GroupsInv' /\ LogGrows
<1>1. tasks' = Done(s) /\ UNCHANGED network /\ active' \in Ids
  BY DEF CallFails, GroupsInv, GroupsTypeOK, Done
<1> QED BY <1>1, DoneHandlers, HandlersStep

\* GroupCreated
LEMMA GroupCreatedStep ==
    ASSUME GroupsInv, NEW s \in Slots, GroupCreated(s)
    PROVE  GroupsInv' /\ LogGrows
<1> DEFINE i == tasks[s].id
<1>1. i \in Ids
  <2>1. tasks[s].pc = "create"
    BY DEF GroupCreated
  <2> QED BY <2>1, HandlerAt DEF HandlerOK
<1>2. PICK g \in GroupIds :
        /\ roster' = [roster EXCEPT ![g] = {i}]
        /\ member' = [member EXCEPT ![i][g] = "in"]
        /\ consent' = [consent EXCEPT ![i][g] = "allowed"]
        /\ recent' = ToFront(g)
  BY DEF GroupCreated, NewGroup
<1>3. LogGrows
  BY LogStays DEF GroupCreated, GroupsInv
<1> HIDE DEF i
<1>4. recent' \in Seq(GroupIds)
  BY <1>2, ToFrontType DEF GroupsInv, GroupsTypeOK
<1>5. roster' \in [GroupIds -> SUBSET Inboxes]
  BY <1>1, <1>2, ConstantFacts DEF GroupsInv, GroupsTypeOK
<1>6. /\ member' \in [Ids -> [GroupIds -> {"none", "invited", "in", "leaving"}]]
      /\ consent' \in [Ids -> [GroupIds -> {"unknown", "allowed", "denied"}]]
  BY <1>1, <1>2 DEF GroupsInv, GroupsTypeOK
<1>7. active' \in Ids /\ tasks' = [tasks EXCEPT ![s] = ListTask(active)]
  BY DEF GroupCreated, ThenList, GroupsInv, GroupsTypeOK
<1>8. Handlers([tasks EXCEPT ![s] = ListTask(active)])
  BY ThenListHandlers
<1>9. NetworkTypeOK'
  BY <1>4, <1>5, <1>6 DEF NetworkTypeOK
<1> QED BY <1>3, <1>7, <1>8, <1>9, GroupsStep DEF GroupsInv

\* LeaveSent
LEMMA LeaveSentStep ==
    ASSUME GroupsInv, NEW s \in Slots, LeaveSent(s)
    PROVE  GroupsInv' /\ LogGrows
<1> DEFINE t == tasks[s]
<1>1. t.id \in Ids /\ t.gid \in GroupIds
  <2>1. t.pc = "leave"
    BY DEF LeaveSent
  <2> QED BY <2>1, HandlerAt DEF HandlerOK
<1> DEFINE i == t.id
           g == t.gid
<1>2. member' = member \/ member' = [member EXCEPT ![i][g] = "leaving"]
  BY DEF LeaveSent
<1> HIDE DEF i, g
<1>3. member' \in [Ids -> [GroupIds -> {"none", "invited", "in", "leaving"}]]
  <2>1. i \in Ids /\ g \in GroupIds
    BY <1>1 DEF i, g
  <2>2. CASE member' = member
    BY <2>2 DEF GroupsInv, GroupsTypeOK
  <2>3. CASE member' = [member EXCEPT ![i][g] = "leaving"]
    BY <2>1, <2>3 DEF GroupsInv, GroupsTypeOK
  <2> QED BY <1>2, <2>2, <2>3
<1>4. LogGrows /\ NetworkTypeOK' /\ active' \in Ids
  BY <1>3, LogStays DEF LeaveSent, GroupsInv, GroupsTypeOK, NetworkTypeOK
<1>5. tasks' = [tasks EXCEPT ![s] = ListTask(active)]
  BY DEF LeaveSent, ThenList
<1> QED BY <1>4, <1>5, ThenListHandlers, GroupsStep DEF GroupsInv

\* MembersAdded
LEMMA MembersAddedStep ==
    ASSUME GroupsInv, NEW s \in Slots, MembersAdded(s)
    PROVE  GroupsInv' /\ LogGrows
<1> DEFINE t == tasks[s]
<1>1. t.gid \in GroupIds /\ t.who \in Inboxes
  <2>1. t.pc = "add"
    BY DEF MembersAdded
  <2> QED BY <2>1, HandlerAt DEF HandlerOK
<1>2. roster' = [roster EXCEPT ![t.gid] = @ \cup {t.who}]
  BY DEF MembersAdded
<1> HIDE DEF t
<1>3. roster' \in [GroupIds -> SUBSET Inboxes]
  BY <1>1, <1>2 DEF GroupsInv, GroupsTypeOK
<1>4. LogGrows /\ NetworkTypeOK' /\ active' \in Ids
  BY <1>3, LogStays DEF MembersAdded, GroupsInv, GroupsTypeOK, NetworkTypeOK
<1>5. tasks' = [tasks EXCEPT ![s] = ListTask(active)]
  BY DEF MembersAdded, ThenList
<1> QED BY <1>4, <1>5, ThenListHandlers, GroupsStep DEF GroupsInv

\* GroupRenamed
LEMMA GroupRenamedStep ==
    ASSUME GroupsInv, NEW s \in Slots, GroupRenamed(s)
    PROVE  GroupsInv' /\ LogGrows
<1>1. /\ tasks' = [tasks EXCEPT ![s] = ListTask(active)]
      /\ UNCHANGED network /\ active' \in Ids
  BY DEF GroupRenamed, ThenList, GroupsInv, GroupsTypeOK
<1> QED BY <1>1, ThenListHandlers, HandlersStep

\* MemberRemoved
LEMMA MemberRemovedStep ==
    ASSUME GroupsInv, NEW s \in Slots, MemberRemoved(s)
    PROVE  GroupsInv' /\ LogGrows
<1> DEFINE t == tasks[s]
           next == TaskOn("members", active, tasks[s].gid, NoOne)
<1>1. t.gid \in GroupIds
  <2>1. t.pc = "remove"
    BY DEF MemberRemoved
  <2> QED BY <2>1, HandlerAt DEF HandlerOK
<1>2. roster' = [roster EXCEPT ![t.gid] = @ \ {t.who}]
  BY DEF MemberRemoved
<1>3. roster' \in [GroupIds -> SUBSET Inboxes]
  <2> HIDE DEF t
  <2> QED BY <1>1, <1>2 DEF GroupsInv, GroupsTypeOK
<1>4. LogGrows /\ NetworkTypeOK' /\ active' \in Ids
  BY <1>3, LogStays DEF MemberRemoved, GroupsInv, GroupsTypeOK, NetworkTypeOK
<1>5. tasks' = [tasks EXCEPT ![s] = IF next = <<>> THEN Idle ELSE next[1]]
  BY DEF MemberRemoved, ThenMembers
<1> QED BY <1>1, <1>4, <1>5, ThenMembersHandlers, GroupsStep DEF GroupsInv

\* RoleChanged
LEMMA RoleChangedStep ==
    ASSUME GroupsInv, NEW s \in Slots, RoleChanged(s)
    PROVE  GroupsInv' /\ LogGrows
<1> DEFINE next == TaskOn("members", active, tasks[s].gid, NoOne)
<1>1. tasks[s].gid \in GroupIds
  <2>1. tasks[s].pc = "role"
    BY DEF RoleChanged
  <2> QED BY <2>1, HandlerAt DEF HandlerOK
<1>2. /\ tasks' = [tasks EXCEPT ![s] = IF next = <<>> THEN Idle ELSE next[1]]
      /\ UNCHANGED network /\ active' \in Ids
  BY DEF RoleChanged, ThenMembers, GroupsInv, GroupsTypeOK
<1> QED BY <1>1, <1>2, ThenMembersHandlers, HandlersStep

\* MessageSent
LEMMA MessageSentStep ==
    ASSUME GroupsInv, NEW s \in Slots, MessageSent(s)
    PROVE  GroupsInv' /\ LogGrows
<1> DEFINE t == tasks[s]
           u == [t EXCEPT !.pc = "fetch"]
<1>1. t \in Tasks /\ HandlerOK(t) /\ t.pc = "send"
  BY HandlerAt DEF MessageSent
<1>2. t.id \in Ids /\ t.gid \in GroupIds
  BY <1>1 DEF HandlerOK
<1>3. u \in Tasks /\ u.pc = "fetch" /\ u.id = t.id /\ u.gid = t.gid
      /\ u.list = t.list
  <2> HIDE DEF t
  <2> QED BY <1>1 DEF Tasks, PCs, Fallible
<1>4. Written(t.gid, t.id) /\ tasks' = [tasks EXCEPT ![s] = u]
      /\ UNCHANGED <<member, consent, roster, active>>
  BY DEF MessageSent
<1> HIDE DEF u, t
<1>5. HandlerOK(u)
  BY <1>1, <1>2, <1>3 DEF HandlerOK
<1>6. Handlers([tasks EXCEPT ![s] = u])
  BY <1>3, <1>5, HandlersNow, OneHandler
<1>7. LogGrows /\ recent' \in Seq(GroupIds)
  BY <1>2, <1>4, WrittenStep, ConstantFacts DEF GroupsInv
<1>8. NetworkTypeOK' /\ active' \in Ids
  BY <1>4, <1>7 DEF NetworkTypeOK, GroupsInv, GroupsTypeOK
<1> QED BY <1>4, <1>6, <1>7, <1>8, GroupsStep DEF GroupsInv

\* Hears
LEMMA HearsStep ==
    ASSUME GroupsInv, NEW g \in GroupIds, NEW from, Hears(g, from)
    PROVE  GroupsInv' /\ LogGrows
<1>1. from \in Inboxes
  BY DEF Hears, GroupsInv, GroupsTypeOK
<1>2. LogGrows /\ recent' \in Seq(GroupIds)
  BY <1>1, WrittenStep DEF Hears, GroupsInv
<1>3. NetworkTypeOK' /\ active' \in Ids /\ tasks' = tasks
  BY <1>2 DEF Hears, NetworkTypeOK, GroupsInv, GroupsTypeOK
<1> QED BY <1>2, <1>3, HandlersNow, GroupsStep DEF GroupsInv

\* Invites
LEMMA InvitesStep ==
    ASSUME GroupsInv, NEW i \in Ids, NEW g \in GroupIds, NEW by,
           Invites(i, g, by)
    PROVE  GroupsInv' /\ LogGrows
<1>1. by \in Inboxes /\ i \in Inboxes
  BY ConstantFacts DEF Invites
<1>2. /\ member' = [member EXCEPT ![i][g] = "invited"]
      /\ roster' = [roster EXCEPT ![g] = @ \cup {i, by}]
      /\ recent' = ToFront(g)
  BY DEF Invites
<1>3. member' \in [Ids -> [GroupIds -> {"none", "invited", "in", "leaving"}]]
  BY <1>2 DEF GroupsInv, GroupsTypeOK
<1>4. roster' \in [GroupIds -> SUBSET Inboxes]
  BY <1>1, <1>2 DEF GroupsInv, GroupsTypeOK
<1>5. recent' \in Seq(GroupIds)
  BY <1>2, ToFrontType DEF GroupsInv, GroupsTypeOK
<1>6. NetworkTypeOK' /\ active' \in Ids /\ LogGrows /\ tasks' = tasks
  BY <1>3, <1>4, <1>5, LogStays
     DEF Invites, NetworkTypeOK, GroupsInv, GroupsTypeOK
<1> QED BY <1>6, HandlersNow, GroupsStep DEF GroupsInv

\* Consented
LEMMA ConsentedType ==
    ASSUME NEW c \in [Ids -> [GroupIds -> {"unknown", "allowed", "denied"}]],
           NEW i \in Ids, NEW gs,
           NEW state \in {"unknown", "allowed", "denied"}
    PROVE  Consented(c, i, gs, state)
              \in [Ids -> [GroupIds -> {"unknown", "allowed", "denied"}]]
<1> DEFINE row == [g \in GroupIds |->
                     IF g \in gs /\ Known(i, g) THEN state ELSE c[i][g]]
<1>1. row \in [GroupIds -> {"unknown", "allowed", "denied"}]
  OBVIOUS
<1>2. Consented(c, i, gs, state) = [c EXCEPT ![i] = row]
  BY DEF Consented
<1> HIDE DEF row
<1> QED BY <1>1, <1>2

\* The network at the start.
LEMMA NetworkStarts ==
    ASSUME NetworkInit, active \in Ids, Handlers(tasks)
    PROVE  GroupsInv
<1>1. recent \in Seq(GroupIds)
  <2>1. Cardinality(GroupIds) \in Nat
    BY FS_CardinalityType, ConstantFacts
  <2>2. recent \in [1..Cardinality(GroupIds) -> GroupIds]
    BY DEF NetworkInit
  <2> QED BY <2>1, <2>2, SeqDef
<1>2. /\ member \in [Ids -> [GroupIds -> {"none", "invited", "in", "leaving"}]]
      /\ consent \in [Ids -> [GroupIds -> {"unknown", "allowed", "denied"}]]
  BY DEF NetworkInit
<1>3. /\ roster \in [GroupIds -> SUBSET Inboxes]
      /\ log \in [GroupIds -> Seq(Inboxes)]
      /\ \A g \in GroupIds : Len(log[g]) <= MaxLog
  BY GroupsAssumption DEF NetworkInit
<1>4. tasks \in [Slots -> Tasks] /\ HandlersOK
  BY DEF Handlers, HandlersOK
<1> QED BY <1>1, <1>2, <1>3, <1>4 DEF GroupsInv, GroupsTypeOK
=============================================================================
