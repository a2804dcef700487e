------------------------- MODULE IdentityPageProofs -------------------------
(***************************************************************************)
(* Proofs about IdentityPage, for any identities, stored keys, requests    *)
(* and bounds, with the worker that XmtpWorkerProofs is about.             *)
(*                                                                         *)
(* The page's part of the invariant says which list it has stored: that of *)
(* the last change as soon as it has received it.  The second part is the  *)
(* argument for SettlesUnlessTorn: as long as no list is collected during  *)
(* a change, somebody is always about to bring the page the current list.  *)
(* The third part is that for KeysKept: what is stored, the lists on their *)
(* way and the identities of the worker each hold what the one before held. *)
(* The last is about the start of a session: SelectionRestored.            *)
(***************************************************************************)
EXTENDS IdentityPage, XmtpWorkerProofs, FiniteSetTheorems, FunctionTheorems,
        WellFoundedInduction

-----------------------------------------------------------------------------
(* Lists.  GroupsProofs says the same of Keep for the components that       *)
(* extend Groups; the names of XmtpWorker and of Groups do not mix.        *)

\* Positions have different ranks, all of them up to their number.
LEMMA RankGrows ==
    ASSUME NEW T, T \subseteq Nat, IsFiniteSet(T), NEW i \in T
    PROVE  /\ Rank(T, i) \in 1..Cardinality(T)
           /\ \A j \in T : i < j => Rank(T, i) < Rank(T, j)
<1> DEFINE Upto(k) == {j \in T : j <= k}
<1>1. \A k : IsFiniteSet(Upto(k)) /\ Cardinality(Upto(k)) \in Nat
             /\ Cardinality(Upto(k)) <= Cardinality(T)
  BY FS_Subset, FS_CardinalityType
<1>2. i \in Upto(i) /\ Cardinality(Upto(i)) # 0
  <2>1. i \in Upto(i)
    OBVIOUS
  <2> QED BY <1>1, <2>1, FS_EmptySet
<1>3. ASSUME NEW j \in T, i < j PROVE Rank(T, i) < Rank(T, j)
  <2>1. Upto(i) \in SUBSET Upto(j) /\ j \in Upto(j) /\ j \notin Upto(i)
    <3>1. \A k \in T : k \in Nat
      OBVIOUS
    <3>2. i \in Nat /\ j \in Nat /\ \A k \in T : k <= i => k <= j
      BY <1>3, <3>1
    <3>3. j <= j /\ ~(j <= i)
      BY <1>3, <3>2
    <3> QED BY <3>2, <3>3, Zenon
  <2>2. Cardinality(Upto(i)) <= Cardinality(Upto(j)) /\ Upto(i) # Upto(j)
    BY <1>1, <2>1, FS_Subset
  <2>3. Cardinality(Upto(j)) # Cardinality(Upto(i))
    BY <1>1, <2>1, <2>2, FS_Subset
  <2>4. Cardinality(Upto(i)) \in Nat /\ Cardinality(Upto(j)) \in Nat
    BY <1>1
  <2>5. Cardinality(Upto(i)) < Cardinality(Upto(j))
    <3> HIDE DEF Upto
    <3> QED BY <2>2, <2>3, <2>4
  <2> QED BY <2>5 DEF Rank
<1>4. Cardinality(T) \in Nat
  BY FS_CardinalityType
<1> QED BY <1>1, <1>2, <1>3, <1>4 DEF Rank

\* So there is a position of every rank: what Vec::retain leaves of a list of
\* identities is a list of identities.
LEMMA KeepType ==
    ASSUME NEW S, NEW s \in Seq(S), NEW T \in SUBSET (1..Len(s))
    PROVE  Keep(s, T) \in Seq(S)
<1> DEFINE c == Cardinality(T)
           R == [k \in T |-> Rank(T, k)]
<1>1. T \subseteq Nat /\ IsFiniteSet(T) /\ c \in Nat
  <2>1. Len(s) \in Nat
    BY LenProperties
  <2>2. IsFiniteSet(1..Len(s))
    BY <2>1, FS_Interval
  <2>3. IsFiniteSet(T)
    BY <2>2, FS_Subset
  <2> QED BY <2>1, <2>3, FS_CardinalityType
<1>2. IsFiniteSet(1..c) /\ Cardinality(1..c) = c
  BY <1>1, FS_Interval
<1>3. R \in [T -> 1..c]
  BY <1>1, RankGrows
<1>4. \A i, j \in T : R[i] = R[j] => i = j
  <2> SUFFICES ASSUME NEW i \in T, NEW j \in T, R[i] = R[j] PROVE i = j
    OBVIOUS
  <2>1. Rank(T, i) = Rank(T, j) /\ i \in Nat /\ j \in Nat
    BY <1>1
  <2>2. Rank(T, i) \in 1..c
    BY <1>1, RankGrows
  <2>3. i < j => Rank(T, i) < Rank(T, j)
    BY <1>1, RankGrows
  <2>4. j < i => Rank(T, j) < Rank(T, i)
    BY <1>1, RankGrows
  <2> HIDE DEF R, c
  <2>5. Rank(T, i) \in Nat
    BY <1>1, <2>2
  <2> QED BY <2>1, <2>3, <2>4, <2>5
<1>5. R \in Injection(T, 1..c)
  BY <1>3, <1>4, Fun_IsInj
<1>6. R \in Surjection(T, 1..c)
  BY <1>1, <1>2, <1>5, FS_Injection
<1>7. \A m \in 1..c : \E k \in T : R[k] = m
  <2> HIDE DEF R, c
  <2> QED BY <1>6, Fun_SurjectionProperties
<1>8. \A n \in 1..c : (CHOOSE k \in T : Rank(T, k) = n) \in T
  BY <1>7
<1>9. \A n \in 1..c : s[CHOOSE k \in T : Rank(T, k) = n] \in S
  BY <1>8, ElementOfSeq
<1>10. Keep(s, T) \in [1..c -> S]
  BY <1>9 DEF Keep
<1> QED BY <1>1, <1>10, SeqDef

\* The sequence of a set with one member, or with none.
LEMMA OneInSequence ==
    ASSUME NEW x
    PROVE  SetToSeq({x}) = <<x>> /\ SetToSeq({}) = <<>>
<1>1. SetToSeq({x}) = <<x>>
  <2> DEFINE f == [i \in 1..1 |-> x]
  <2>1. Cardinality({x}) = 1
    BY FS_Singleton
  <2>2. f \in [1..1 -> {x}] /\ IsInjective(f)
    BY DEF IsInjective
  <2>3. SetToSeq({x}) \in [1..1 -> {x}]
    <3>1. SetToSeq({x}) = CHOOSE g \in [1..1 -> {x}] : IsInjective(g)
      BY <2>1 DEF SetToSeq
    <3> HIDE DEF f
    <3> QED BY <2>2, <3>1
  <2>4. SetToSeq({x}) = [i \in 1..1 |-> x]
    BY <2>3
  <2> QED BY <2>4
<1>2. SetToSeq({}) = <<>>
  <2> DEFINE f == [i \in 1..0 |-> x]
  <2>1. Cardinality({}) = 0
    BY FS_EmptySet
  <2>2. f \in [1..0 -> {}] /\ IsInjective(f)
    BY DEF IsInjective
  <2>3. SetToSeq({}) \in [1..0 -> {}]
    <3>1. SetToSeq({}) = CHOOSE g \in [1..0 -> {}] : IsInjective(g)
      BY <2>1 DEF SetToSeq
    <3> HIDE DEF f
    <3> QED BY <2>2, <3>1
  <2> QED BY <2>3
<1> QED BY <1>1, <1>2

-----------------------------------------------------------------------------
(* What is stored.                                                         *)

\* The list of the last change is stored as soon as the page has received it.
ToldOK ==
    /\ pageVer <= epoch
    /\ ReadyScreen /\ pageVer = epoch => stored = identities

PageInv == IInv /\ PageTypeOK /\ ToldOK

\* Assigning identities starts an epoch or leaves them as they are.
LEMMA AssignTells ==
    ASSUME IInv, NEW s, NEW t, NEW ids, NEW at, Assign(s, t, ids, at)
    PROVE  epoch' > epoch \/ UNCHANGED <<identities, active, epoch>>
BY DEF Assign, IInv, StateOK

\* So does the end of a round of handle_init.
LEMMA RoundTells ==
    ASSUME IInv, NEW s, NEW t, NEW found, RoundEnds(s, t, found)
    PROVE  epoch' > epoch \/ UNCHANGED <<identities, active, epoch>>
BY AssignTells DEF RoundEnds

\* So does every handler that starts; the page's screen is not the worker's.
LEMMA DispatchTells ==
    ASSUME IInv, NEW s \in Slots, Dispatch(s)
    PROVE  /\ epoch' > epoch \/ UNCHANGED <<identities, active, epoch>>
           /\ UNCHANGED pageVars
<1>1. CASE HandleRemoveIdentity(s)
  <2>1. UNCHANGED pageVars
    BY <1>1 DEF HandleRemoveIdentity
  <2>2. \/ UNCHANGED <<identities, active, epoch>>
        \/ epoch' = epoch + 1
        \/ \E t, ids, at : Assign(s, t, ids, at)
    BY <1>1 DEF HandleRemoveIdentity
  <2> QED BY <2>1, <2>2, AssignTells DEF IInv, StateOK
<1>2. CASE HandleSwitchIdentity(s)
  BY <1>2, AssignTells DEF HandleSwitchIdentity
<1>3. CASE ~HandleRemoveIdentity(s) /\ ~HandleSwitchIdentity(s)
  BY <1>3 DEF Dispatch, HandleInit, HandleRetry, HandleCreateIdentity,
              HandleRestoreIdentity, HandleAddress, HandleConsent, HandleList,
              HandleForActive
<1> QED BY <1>1, <1>2, <1>3

\* So does every handler that goes on.
LEMMA ResumeTells ==
    ASSUME IInv, NEW s \in Slots, Resume(s)
    PROVE  /\ epoch' > epoch \/ UNCHANGED <<identities, active, epoch>>
           /\ UNCHANGED pageVars
<1>1. CASE KeyLoaded(s) \/ FirstIdentityMade(s)
  BY <1>1, RoundTells DEF KeyLoaded, FirstIdentityMade
<1>2. CASE IdentityCreated(s) \/ IdentityRestored(s) \/ ReplacementMade(s)
  BY <1>2, AssignTells DEF IdentityCreated, IdentityRestored, ReplacementMade, Push
<1>3. CASE \/ BackoffElapsed(s) \/ NextIdentity(s) \/ IndexPanics(s)
           \/ PostIdentityList(s) \/ ConversationsListed(s) \/ GroupActionDone(s)
           \/ RoleChangeDone(s) \/ MembersListed(s) \/ MessageSent(s)
           \/ MessagesFetched(s)
  BY <1>3 DEF BackoffElapsed, NextIdentity, IndexPanics, PostIdentityList,
              ConversationsListed, GroupActionDone, RoleChangeDone,
              MembersListed, MessageSent, MessagesFetched
<1> QED BY <1>1, <1>2, <1>3 DEF Resume

\* Nothing the worker does undoes what has been stored.
LEMMA WorkerKeepsPage ==
    ASSUME PageInv, NEW s \in Slots, Dispatch(s) \/ Resume(s), UNCHANGED ownVars,
           faults' \subseteq {"torn", "dropped", "misaimed"}
    PROVE  PageInv'
<1>1. IInv'
  BY DispatchKeeps, ResumeKeeps DEF PageInv
<1>2. /\ epoch' > epoch \/ UNCHANGED <<identities, active, epoch>>
      /\ screen' = screen
  BY DispatchTells, ResumeTells DEF PageInv, pageVars
<1>3. PageTypeOK'
  BY DEF PageInv, PageTypeOK, ownVars, storage, display, history
<1>4. pageVer' = pageVer /\ stored' = stored
      /\ pageVer \in Nat /\ epoch \in Nat /\ epoch' \in Nat
  BY <1>1 DEF PageInv, PageTypeOK, IInv, StateOK, ownVars, storage, history
<1>5. ToldOK'
  BY <1>2, <1>4 DEF PageInv, ToldOK, ReadyScreen
<1> QED BY <1>1, <1>3, <1>5 DEF PageInv

\* The page takes the first message.
LEMMA DeliveryKeeps ==
    ASSUME IInv, UNCHANGED workerVars, outbox # <<>>, outbox' = Tail(outbox),
           screen' \in {"loading", "ready", "offline"}, sent' \in Nat
    PROVE  /\ StateOK' /\ TasksOK' /\ OutboxOK'
           /\ Head(outbox) \in Messages /\ MessageOK(Head(outbox))
<1>1. /\ outbox \in Seq(Messages) /\ Tail(outbox) \in Seq(Messages)
      /\ Len(outbox) \in Nat /\ Len(Tail(outbox)) = Len(outbox) - 1
      /\ \A i \in 1..Len(Tail(outbox)) : Tail(outbox)[i] = outbox[i + 1]
      /\ Head(outbox) \in Messages
  BY HeadTailProperties, LenProperties DEF IInv, OutboxOK
<1>2. \A i \in 1..Len(Tail(outbox)) : MessageOK(Tail(outbox)[i])
  <2> SUFFICES ASSUME NEW i \in 1..Len(Tail(outbox))
               PROVE  MessageOK(outbox[i + 1])
    BY <1>1
  <2>1. i + 1 \in 1..Len(outbox)
    BY <1>1
  <2> QED BY <2>1 DEF IInv, OutboxOK
<1>3. OutboxOK'
  BY <1>1, <1>2, WorkerUntouched DEF OutboxOK, MessageOK, workerVars
<1>4. Len(outbox) # 0 /\ Head(outbox) = outbox[1]
  BY <1>1, EmptySeq
<1>5. MessageOK(Head(outbox))
  BY <1>1, <1>4 DEF IInv, OutboxOK
<1> QED BY <1>1, <1>3, <1>5, WorkerUntouched

\* The requests that go with a list: at most one switch, then the poll.
LEMMA AnswersType ==
    ASSUME NEW m, m.list \in Seq(Ids), lastActive \in Ids \cup {NoId}
    PROVE  /\ SetToSeq(SwitchBack(m)) \in Seq(Requests)
           /\ Len(SetToSeq(SwitchBack(m))) \in Nat
           /\ \A k \in 1..Len(SetToSeq(SwitchBack(m))) :
                 SetToSeq(SwitchBack(m))[k].kind = "switch"
           /\ SwitchBack(m) # {} =>
                 \E i \in ToRestore(m) :
                    SetToSeq(SwitchBack(m)) =
                       <<Req("switch", i - 1, lastActive, <<>>)>>
           /\ SwitchBack(m) = {} <=> ToRestore(m) = {}
<1>1. Len(m.list) \in Nat
  BY LenProperties
<1>2. \A i, j \in ToRestore(m) : i = j
  BY <1>1 DEF ToRestore, Sought
<1>3. ToRestore(m) \subseteq 1..Len(m.list)
  BY DEF ToRestore, Sought
<1>4. CASE ToRestore(m) = {}
  <2>1. SwitchBack(m) = {}
    BY <1>4 DEF SwitchBack
  <2>2. SetToSeq(SwitchBack(m)) = <<>>
    BY <2>1, OneInSequence
  <2>3. <<>> \in Seq(Requests) /\ Len(<<>>) = 0 /\ 1..0 = {}
    BY EmptySeq
  <2> QED BY <1>4, <2>1, <2>2, <2>3
<1>5. CASE ToRestore(m) # {}
  <2>1. PICK i \in ToRestore(m) : ToRestore(m) = {i}
    BY <1>2, <1>5
  <2> DEFINE r == Req("switch", i - 1, lastActive, <<>>)
  <2>2. SwitchBack(m) = {r}
    BY <2>1 DEF SwitchBack
  <2>3. i - 1 \in Nat
    BY <1>1, <1>3
  <2>4. r \in Requests /\ r.kind = "switch"
    BY <2>3, EmptySeq DEF Req, Requests, Kinds
  <2>5. SetToSeq(SwitchBack(m)) = <<r>>
    <3> HIDE DEF r
    <3> QED BY <2>2, OneInSequence
  <2>6. <<r>> \in Seq(Requests) /\ Len(<<r>>) = 1 /\ <<r>>[1] = r
    <3> HIDE DEF r
    <3> QED BY <2>4
  <2>7. \A k \in 1..Len(<<r>>) : <<r>>[k].kind = "switch"
    <3> HIDE DEF r
    <3> QED BY <2>4, <2>6
  <2>8. SwitchBack(m) # {}
    BY <2>2
  <2> HIDE DEF r
  <2> QED BY <1>5, <2>5, <2>6, <2>7, <2>8 DEF r
<1> QED BY <1>4, <1>5

\* A queue of requests the worker can take.
RequestsOK(q) ==
    /\ q \in Seq(Requests)
    /\ \A i \in 1..Len(q) : q[i].kind = "restore" => q[i].id \in Ids

\* Two such queues make one.
LEMMA QueuesJoin ==
    ASSUME NEW p, RequestsOK(p), NEW q, RequestsOK(q)
    PROVE  RequestsOK(p \o q)
<1>1. p \in Seq(Requests) /\ q \in Seq(Requests)
  BY DEF RequestsOK
<1>2. /\ p \o q \in Seq(Requests) /\ Len(p \o q) = Len(p) + Len(q)
      /\ \A i \in 1..Len(p) + Len(q) :
            (p \o q)[i] = IF i <= Len(p) THEN p[i] ELSE q[i - Len(p)]
      /\ Len(p) \in Nat /\ Len(q) \in Nat
  BY <1>1, ConcatProperties, LenProperties
<1>3. ASSUME NEW i \in 1..Len(p \o q), (p \o q)[i].kind = "restore"
      PROVE  (p \o q)[i].id \in Ids
  <2>1. CASE i <= Len(p)
    BY <1>2, <1>3, <2>1 DEF RequestsOK
  <2>2. CASE i > Len(p)
    <3>1. i - Len(p) \in 1..Len(q) /\ (p \o q)[i] = q[i - Len(p)]
      BY <1>2, <2>2
    <3> QED BY <1>3, <3>1 DEF RequestsOK
  <2> QED BY <1>2, <2>1, <2>2
<1> QED BY <1>2, <1>3 DEF RequestsOK

\* One request that is not a "restore" is such a queue.
LEMMA OneRequest ==
    ASSUME NEW kind \in Kinds \ {"restore"}, NEW idx \in Nat,
           NEW id \in Ids \cup {NoId}, NEW keys \in Seq(Ids)
    PROVE  /\ Req(kind, idx, id, keys) \in Requests
           /\ Req(kind, idx, id, keys).kind # "restore"
           /\ RequestsOK(<<Req(kind, idx, id, keys)>>)
<1> DEFINE r == Req(kind, idx, id, keys)
<1>1. r \in Requests /\ r.kind # "restore"
  BY DEF Req, Requests
<1> HIDE DEF r
<1>2. <<r>> \in Seq(Requests) /\ Len(<<r>>) = 1 /\ <<r>>[1] = r
  BY <1>1
<1> QED BY <1>1, <1>2 DEF RequestsOK, r

\* A list is displayed and persisted.
LEMMA ListArrivesKeeps ==
    ASSUME PageInv, IdentityListArrives,
           faults' \subseteq {"torn", "dropped", "misaimed"}
    PROVE  PageInv'
<1>1. PICK m : m = Head(outbox)
  OBVIOUS
<1>2. /\ outbox # <<>> /\ m.type = "identity_list" /\ outbox' = Tail(outbox)
      /\ stored' = m.list /\ shown' = m.list
      /\ current' = IF ToRestore(m) # {} THEN lastActive
                                         ELSE ActiveOf(m.list, m.active)
      /\ lastActive' = IF current' = NoId THEN lastActive ELSE current'
      /\ firstList' = FALSE /\ screen' = "ready" /\ pageVer' = m.ver
      /\ inbox' = inbox \o SetToSeq(SwitchBack(m))
                        \o <<Req("list", 0, NoId, <<>>)>>
      /\ UNCHANGED <<workerVars, sent, dialog, reloads, saved, acted, removed>>
  BY <1>1 DEF IdentityListArrives, KeysOf
<1>3. /\ StateOK' /\ TasksOK' /\ OutboxOK'
      /\ m \in Messages /\ MessageOK(m)
  <2>1. sent' \in Nat /\ UNCHANGED workerVars
    BY <1>2 DEF PageInv, IInv, StateOK
  <2>2. IInv /\ screen' \in {"loading", "ready", "offline"}
    BY <1>2 DEF PageInv
  <2> QED BY <1>1, <1>2, <2>1, <2>2, DeliveryKeeps
<1>4. m.list \in Seq(Ids) /\ m.active \in Nat /\ m.ver \in Nat
  BY <1>3 DEF Messages
<1>5. ActiveOf(m.list, m.active) \in Ids \cup {NoId}
  <2>1. Len(m.list) \in Nat /\ \A i \in 1..Len(m.list) : m.list[i] \in Ids
    BY <1>4, LenProperties, ElementOfSeq
  <2>2. m.active < Len(m.list) => m.active + 1 \in 1..Len(m.list)
    BY <1>4, <2>1
  <2> QED BY <2>1, <2>2 DEF ActiveOf
<1>6. InboxOK'
  <2>1. RequestsOK(inbox)
    BY DEF PageInv, IInv, InboxOK, RequestsOK
  <2>2. RequestsOK(SetToSeq(SwitchBack(m)))
    BY <1>4, AnswersType DEF RequestsOK, PageInv, PageTypeOK
  <2>3. RequestsOK(<<Req("list", 0, NoId, <<>>)>>)
    BY OneRequest, EmptySeq DEF Kinds
  <2>4. RequestsOK(inbox \o SetToSeq(SwitchBack(m)))
    BY <2>1, <2>2, QueuesJoin
  <2>5. RequestsOK(inbox')
    BY <1>2, <2>3, <2>4, QueuesJoin
  <2> QED BY <2>5 DEF RequestsOK, InboxOK
<1>7. PageTypeOK'
  <2>1. current' \in Ids \cup {NoId} /\ lastActive' \in Ids \cup {NoId}
    BY <1>2, <1>5 DEF PageInv, PageTypeOK
  <2> QED BY <1>2, <1>4, <2>1 DEF PageInv, PageTypeOK
<1>8. ToldOK'
  BY <1>2, <1>3 DEF ToldOK, MessageOK, workerVars
<1> QED BY <1>3, <1>6, <1>7, <1>8 DEF PageInv, IInv

\* Other messages change the screen at most.
LEMMA OtherArrivesKeeps ==
    ASSUME PageInv, OtherArrives,
           faults' \subseteq {"torn", "dropped", "misaimed"}
    PROVE  PageInv'
<1>1. /\ outbox # <<>> /\ outbox' = Tail(outbox)
      /\ UNCHANGED workerVars /\ UNCHANGED ownVars
      /\ inbox' = inbox /\ sent' = sent /\ screen' \in {"offline", screen}
  BY DEF OtherArrives
<1>2. StateOK' /\ TasksOK' /\ OutboxOK'
  <2>1. sent' \in Nat /\ screen' \in {"loading", "ready", "offline"} /\ IInv
    BY <1>1 DEF PageInv, IInv, StateOK
  <2> QED BY <1>1, <2>1, DeliveryKeeps
<1>3. InboxOK'
  BY <1>1, InboxKept DEF PageInv
<1>4. PageTypeOK'
  BY <1>1 DEF PageInv, PageTypeOK, ownVars, storage, display, history
<1>5. ToldOK'
  BY <1>1 DEF PageInv, ToldOK, ReadyScreen, ownVars, storage, history, workerVars
<1> QED BY <1>2, <1>3, <1>4, <1>5 DEF PageInv, IInv

\* Sending a request leaves the worker as it is, and what is stored.
LEMMA AskKeeps ==
    ASSUME PageInv, NEW r \in Requests, r.kind = "restore" => r.id \in Ids,
           Ask(r), shown' \in Seq(Ids), removed' \subseteq Ids,
           dialog' \in {dialog, NoDialog},
           faults' \subseteq {"torn", "dropped", "misaimed"}
    PROVE  PageInv'
<1>1. /\ inbox' = Append(inbox, r) /\ sent' = sent + 1 /\ acted' = TRUE
      /\ UNCHANGED workerVars /\ UNCHANGED outbox /\ UNCHANGED screen
      /\ UNCHANGED storage
      /\ UNCHANGED <<current, firstList, reloads, pageVer, saved>>
  BY DEF Ask
<1>2. sent' \in Nat /\ screen' \in {"loading", "ready", "offline"} /\ IInv
  BY <1>1 DEF PageInv, IInv, StateOK
<1>3. StateOK' /\ TasksOK' /\ OutboxOK' /\ InboxOK'
  BY <1>1, <1>2, WorkerUntouched, OutboxUntouched, QueuedRequestOK
<1>4. PageTypeOK'
  BY <1>1 DEF PageInv, PageTypeOK, storage
<1>5. ToldOK'
  BY <1>1 DEF PageInv, ToldOK, ReadyScreen, storage, workerVars
<1> QED BY <1>3, <1>4, <1>5 DEF PageInv, IInv

\* What the user does on the identity screen.
LEMMA UserKeeps ==
    ASSUME PageInv, AskFor \/ TapCard \/ TapDelete \/ Confirm \/ Cancel,
           faults' \subseteq {"torn", "dropped", "misaimed"}
    PROVE  PageInv'
<1>1. /\ shown \in Seq(Ids) /\ Len(shown) \in Nat
      /\ \A i \in 1..Len(shown) : shown[i] \in Ids
      /\ removed \subseteq Ids
  BY LenProperties, ElementOfSeq DEF PageInv, PageTypeOK
<1>2. CASE AskFor
  <2>1. PICK r \in UserRequests : Ask(r) /\ UNCHANGED <<shown, dialog, removed>>
    BY <1>2 DEF AskFor
  <2>2. r \in Requests /\ (r.kind = "restore" => r.id \in Ids)
    BY UserRequestsAssumption
  <2>3. shown' \in Seq(Ids) /\ removed' \subseteq Ids /\ dialog' \in {dialog, NoDialog}
    BY <1>1, <2>1
  <2> QED BY <2>1, <2>2, <2>3, AskKeeps
<1>3. CASE TapCard
  <2>1. PICK i \in 1..Len(shown) :
           /\ Ask(Req("switch", i - 1, shown[i], <<>>))
           /\ UNCHANGED <<shown, dialog, removed>>
    BY <1>3 DEF TapCard
  <2>2. i - 1 \in Nat /\ shown[i] \in Ids \cup {NoId} /\ <<>> \in Seq(Ids)
        /\ "switch" \in Kinds \ {"restore"}
    BY <1>1, EmptySeq DEF Kinds
  <2> DEFINE r == Req("switch", i - 1, shown[i], <<>>)
  <2>3. r \in Requests /\ r.kind # "restore"
    BY <2>2, OneRequest
  <2>4. Ask(r)
    BY <2>1
  <2>5. shown' \in Seq(Ids) /\ removed' \subseteq Ids /\ dialog' \in {dialog, NoDialog}
    BY <1>1, <2>1
  <2> HIDE DEF r
  <2> QED BY <2>3, <2>4, <2>5, AskKeeps
<1>4. CASE TapDelete \/ Cancel
  <2>1. /\ UNCHANGED vars /\ UNCHANGED storage
        /\ UNCHANGED <<shown, current, firstList, reloads, history>>
    BY <1>4 DEF TapDelete, Cancel
  <2>2. dialog' \in [idx : Nat, id : Ids] \cup {NoDialog}
    <3>1. CASE TapDelete
      <4>1. PICK i \in 1..Len(shown) : dialog' = [idx |-> i - 1, id |-> shown[i]]
        BY <3>1 DEF TapDelete
      <4>2. i - 1 \in Nat /\ shown[i] \in Ids
        BY <1>1
      <4> QED BY <4>1, <4>2
    <3>2. CASE Cancel
      BY <3>2 DEF Cancel
    <3> QED BY <1>4, <3>1, <3>2
  <2>3. UNCHANGED workerVars /\ UNCHANGED outbox /\ UNCHANGED inbox
        /\ UNCHANGED screen /\ UNCHANGED sent
    BY <2>1 DEF vars, pageVars
  <2>4. sent' \in Nat /\ screen' \in {"loading", "ready", "offline"} /\ IInv
    BY <2>3 DEF PageInv, IInv, StateOK
  <2>5. StateOK' /\ TasksOK' /\ OutboxOK' /\ InboxOK'
    BY <2>3, <2>4, WorkerUntouched, OutboxUntouched, InboxKept
  <2>6. PageTypeOK'
    BY <2>1, <2>2 DEF PageInv, PageTypeOK, storage, history
  <2>7. ToldOK'
    BY <2>1, <2>3 DEF PageInv, ToldOK, ReadyScreen, storage, history, workerVars
  <2> QED BY <2>5, <2>6, <2>7 DEF PageInv, IInv
<1>5. CASE Confirm
  <2>1. /\ Ask(Req("remove", dialog.idx, dialog.id, <<>>)) /\ dialog # NoDialog
        /\ shown' = Keep(shown, {k \in 1..Len(shown) : shown[k] # dialog.id})
        /\ dialog' = NoDialog /\ removed' = removed \cup {dialog.id}
    BY <1>5 DEF Confirm
  <2>2. /\ dialog.idx \in Nat /\ dialog.id \in Ids /\ dialog.id \in Ids \cup {NoId}
        /\ <<>> \in Seq(Ids) /\ "remove" \in Kinds \ {"restore"}
    BY <2>1, EmptySeq DEF PageInv, PageTypeOK, Kinds
  <2> DEFINE r == Req("remove", dialog.idx, dialog.id, <<>>)
             T == {k \in 1..Len(shown) : shown[k] # dialog.id}
  <2>3. r \in Requests /\ r.kind # "restore"
    BY <2>2, OneRequest
  <2>4. T \in SUBSET (1..Len(shown))
    OBVIOUS
  <2>5. Ask(r) /\ shown' = Keep(shown, T)
    BY <2>1
  <2> HIDE DEF r, T
  <2>6. shown' \in Seq(Ids)
    BY <1>1, <2>4, <2>5, KeepType
  <2>7. removed' \subseteq Ids /\ dialog' \in {dialog, NoDialog}
    BY <1>1, <2>1, <2>2
  <2> QED BY <2>3, <2>5, <2>6, <2>7, AskKeeps
<1> QED BY <1>2, <1>3, <1>4, <1>5

\* The retry button.
LEMMA TapRetryKeeps ==
    ASSUME PageInv, TapRetry,
           faults' \subseteq {"torn", "dropped", "misaimed"}
    PROVE  PageInv'
<1> DEFINE r == Req("retry", 0, NoId, <<>>)
<1>1. /\ inbox' = Append(inbox, r) /\ sent' = sent + 1 /\ screen' = "loading"
      /\ UNCHANGED workerVars /\ UNCHANGED outbox /\ UNCHANGED ownVars
  BY DEF TapRetry
<1>2. r \in Requests /\ r.kind # "restore"
  BY EmptySeq DEF Req, Requests, Kinds
<1> HIDE DEF r
<1>3. sent' \in Nat /\ screen' \in {"loading", "ready", "offline"} /\ IInv
  BY <1>1 DEF PageInv, IInv, StateOK
<1>4. StateOK' /\ TasksOK' /\ OutboxOK' /\ InboxOK'
  BY <1>1, <1>2, <1>3, WorkerUntouched, OutboxUntouched, QueuedRequestOK
<1>5. PageTypeOK'
  BY <1>1 DEF PageInv, PageTypeOK, ownVars, storage, display, history
<1>6. ToldOK'
  BY <1>1 DEF PageInv, ToldOK, ReadyScreen, ownVars, storage, history, workerVars
<1> QED BY <1>4, <1>5, <1>6 DEF PageInv, IInv

\* The worker and the page start again from what is stored.
LEMMA ReloadKeeps ==
    ASSUME PageInv, Reload,
           faults' \subseteq {"torn", "dropped", "misaimed"}
    PROVE  PageInv'
<1>1. /\ identities' = <<>> /\ active' = 0 /\ params' = <<>> /\ poisoned' = FALSE
      /\ tasks' = [s \in Slots |-> Idle] /\ outbox' = <<>>
      /\ inbox' = <<Req("init", 0, NoId, stored)>>
      /\ epoch' = 0 /\ told' = 0 /\ pageVer' = 0 /\ screen' = "loading"
      /\ shown' = <<>> /\ current' = NoId /\ firstList' = TRUE
      /\ dialog' = NoDialog /\ reloads' = reloads + 1 /\ saved' = lastActive
      /\ acted' = FALSE /\ UNCHANGED <<used, sent, removed>> /\ UNCHANGED storage
  BY DEF Reload
<1>2. StateOK'
  <2>1. <<>> \in Seq(Ids) /\ Len(<<>>) = 0
    BY EmptySeq
  <2> QED BY <1>1, <2>1 DEF PageInv, IInv, StateOK, ActiveInRange
<1>3. TasksOK'
  BY <1>1, IdleType DEF TasksOK, TaskOK
<1>4. OutboxOK'
  BY <1>1, EmptySeq DEF OutboxOK
<1>5. InboxOK'
  <2>1. /\ stored \in Seq(Ids) /\ 0 \in Nat /\ NoId \in Ids \cup {NoId}
        /\ "init" \in Kinds \ {"restore"}
    BY DEF PageInv, PageTypeOK, Kinds
  <2>2. RequestsOK(inbox')
    BY <1>1, <2>1, OneRequest
  <2> QED BY <2>2 DEF RequestsOK, InboxOK
<1>6. PageTypeOK'
  <2>1. /\ stored' \in Seq(Ids) /\ lastActive' \in Ids \cup {NoId}
        /\ saved' \in Ids \cup {NoId} /\ removed' \subseteq Ids
    BY <1>1 DEF PageInv, PageTypeOK, storage
  <2>2. shown' \in Seq(Ids)
    BY <1>1, EmptySeq
  <2>3. reloads' \in Nat /\ pageVer' \in Nat
    BY <1>1 DEF PageInv, PageTypeOK
  <2>4. firstList' \in BOOLEAN /\ acted' \in BOOLEAN
    BY <1>1
  <2> QED BY <1>1, <2>1, <2>2, <2>3, <2>4 DEF PageTypeOK
<1>7. ToldOK'
  BY <1>1 DEF ToldOK, ReadyScreen
<1> QED BY <1>2, <1>3, <1>4, <1>5, <1>6, <1>7 DEF PageInv, IInv

\* The page starts in its invariant.
LEMMA PageInitInv == PageInit => PageInv
<1> SUFFICES ASSUME PageInit PROVE PageInv
  OBVIOUS
<1>1. IInv
  BY InitIInv DEF PageInit
<1>2. PICK keys \in InitKeys : inbox = <<Req("init", 0, NoId, keys)>>
  BY DEF PageInit, Init
<1>3. stored = keys /\ stored \in Seq(Ids)
  BY <1>2, InitKeysAssumption DEF PageInit, Req
<1>4. lastActive \in Ids \cup {NoId}
  <2>1. \A i \in 1..Len(stored) : stored[i] \in Ids
    BY <1>3, ElementOfSeq
  <2>2. DOMAIN stored = 1..Len(stored)
    BY <1>3, LenProperties
  <2> QED BY <2>1, <2>2 DEF PageInit, ToSet
<1>5. PageTypeOK
  BY <1>3, <1>4, EmptySeq DEF PageInit, PageTypeOK
<1>6. ToldOK
  BY DEF PageInit, Init, ToldOK, ReadyScreen
<1> QED BY <1>1, <1>5, <1>6 DEF PageInv

\* Every step keeps it.
LEMMA PageNextInv == PageInv /\ [PageNext]_allVars => PageInv'
<1> SUFFICES ASSUME PageInv, [PageNext]_allVars PROVE PageInv'
  OBVIOUS
<1>1. CASE UNCHANGED allVars
  <2>1. /\ UNCHANGED workerVars /\ UNCHANGED inbox /\ UNCHANGED outbox
        /\ UNCHANGED screen /\ UNCHANGED sent /\ UNCHANGED ownVars
        /\ UNCHANGED faults
    BY <1>1 DEF allVars, vars, pageVars
  <2>2. sent' \in Nat /\ screen' \in {"loading", "ready", "offline"} /\ IInv
    BY <2>1 DEF PageInv, IInv, StateOK
  <2>3. IInv'
    BY <2>1, <2>2, WorkerUntouched, OutboxUntouched, InboxKept DEF IInv
  <2>4. PageTypeOK'
    BY <2>1 DEF PageInv, PageTypeOK, ownVars, storage, display, history
  <2>5. ToldOK'
    BY <2>1 DEF PageInv, ToldOK, ReadyScreen, ownVars, storage, history, workerVars
  <2> QED BY <2>3, <2>4, <2>5 DEF PageInv
<1>2. CASE PageNext
  <2>1. faults' \subseteq {"torn", "dropped", "misaimed"} /\ PageStep
    BY <1>2 DEF PageNext, Observed, PageInv, PageTypeOK
  <2>2. ASSUME NEW s \in Slots, Dispatch(s) \/ Resume(s), UNCHANGED ownVars
        PROVE  PageInv'
    BY <2>1, <2>2, WorkerKeepsPage
  <2>3. CASE IdentityListArrives
    BY <2>1, <2>3, ListArrivesKeeps
  <2>4. CASE OtherArrives
    BY <2>1, <2>4, OtherArrivesKeeps
  <2>5. CASE AskFor \/ TapCard \/ TapDelete \/ Confirm \/ Cancel
    BY <2>1, <2>5, UserKeeps
  <2>6. CASE TapRetry
    BY <2>1, <2>6, TapRetryKeeps
  <2>7. CASE Reload
    BY <2>1, <2>7, ReloadKeeps
  <2> QED BY <2>1, <2>2, <2>3, <2>4, <2>5, <2>6, <2>7 DEF PageStep
<1> QED BY <1>1, <1>2

\* The inductive invariant of the page and its worker, through reloads: what
\* XmtpWorkerProofs says of the worker, and what the page has been told.
THEOREM PageInvariance == PageSpec => []PageInv
BY PageInitInv, PageNextInv, PTL DEF PageSpec

\* Every variable of the page has its type, whatever the worker posts.
THEOREM PageTypes == PageSpec => []PageTypeOK
<1>1. PageInv => PageTypeOK
  BY DEF PageInv
<1> QED BY <1>1, PageInvariance, PTL

-----------------------------------------------------------------------------
(* Who brings the page the current list.                                   *)

IsList(m)   == m.type = "identity_list"
Collects(s) == tasks[s].pc = "addresses"
Replaces(s) == tasks[s].pc = "make" /\ tasks[s].kind = "remove"
OnTheWay    ==
    \E i \in 1..Len(outbox) : IsList(outbox[i]) /\ outbox[i].ver = epoch

\* The handler in slot s is about to post the current list, or one is posted.
Informs(s) == Collects(s) \/ OnTheWay

\* The messages of list q that are identity lists speak of the new epoch.
Recent(q) == \A i \in 1..Len(q) : IsList(q[i]) => q[i].ver = epoch'

\* What a step of slot s does to the rest: it posts at the end of the outbox,
\* and no identity list but the current one.
Posts(s) ==
    /\ \A r \in Slots : r # s => tasks'[r] = tasks[r]
    /\ Len(outbox) <= Len(outbox')
    /\ \A i \in 1..Len(outbox) : outbox'[i] = outbox[i]
    /\ \A i \in 1..Len(outbox') :
          i > Len(outbox) /\ IsList(outbox'[i]) => outbox'[i].ver = epoch'

\* Posting such messages, and then waiting or returning.
LEMMA AwaitPosts ==
    ASSUME IInv, NEW s \in Slots, NEW t, NEW q \in Seq(Messages), Recent(q),
           Await(s, t, q)
    PROVE  /\ Posts(s) /\ tasks'[s] = t
           /\ (\E i \in 1..Len(q) : IsList(q[i])) => OnTheWay'
<1>1. /\ tasks' = [tasks EXCEPT ![s] = t] /\ outbox' = outbox \o q
      /\ tasks \in [Slots -> Tasks] /\ outbox \in Seq(Messages)
  BY DEF Await, IInv, TasksOK, OutboxOK
<1>2. /\ Len(outbox') = Len(outbox) + Len(q)
      /\ Len(outbox) \in Nat /\ Len(q) \in Nat
      /\ \A i \in 1..Len(outbox) + Len(q) :
            outbox'[i] = IF i <= Len(outbox) THEN outbox[i] ELSE q[i - Len(outbox)]
  BY <1>1, ConcatProperties, LenProperties
<1>3. ASSUME NEW i \in 1..Len(outbox'), i > Len(outbox), IsList(outbox'[i])
      PROVE  outbox'[i].ver = epoch'
  <2>1. i - Len(outbox) \in 1..Len(q) /\ outbox'[i] = q[i - Len(outbox)]
    BY <1>2, <1>3
  <2> QED BY <1>3, <2>1 DEF Recent
<1>4. ASSUME NEW i \in 1..Len(q), IsList(q[i])
      PROVE  OnTheWay'
  <2>1. Len(outbox) + i \in 1..Len(outbox') /\ outbox'[Len(outbox) + i] = q[i]
    BY <1>2
  <2> QED BY <1>4, <2>1 DEF OnTheWay, Recent, IsList
<1>5. Posts(s)
  <2>1. \A r \in Slots : r # s => tasks'[r] = tasks[r]
    BY <1>1
  <2>2. /\ Len(outbox) <= Len(outbox')
        /\ \A i \in 1..Len(outbox) : outbox'[i] = outbox[i]
    BY <1>2
  <2> QED BY <1>3, <2>1, <2>2 DEF Posts
<1> QED BY <1>1, <1>4, <1>5

\* No message at all, or one or two.
LEMMA RecentMessages ==
    ASSUME NEW m \in Messages, IsList(m) => m.ver = epoch',
           NEW e \in Messages, ~IsList(e)
    PROVE  /\ Recent(<<>>) /\ <<>> \in Seq(Messages) /\ 1..Len(<<>>) = {}
           /\ Recent(<<m>>) /\ <<m>> \in Seq(Messages)
           /\ Recent(<<m, e>>) /\ <<m, e>> \in Seq(Messages)
           /\ Len(<<m>>) = 1 /\ <<m>>[1] = m
           /\ Len(<<m, e>>) = 2 /\ <<m, e>>[1] = m
<1>1. 1..Len(<<>>) = {} /\ <<>> \in Seq(Messages)
  BY EmptySeq
<1>2. Len(<<m>>) = 1 /\ <<m>>[1] = m /\ <<m>> \in Seq(Messages)
  OBVIOUS
<1>3. /\ Len(<<m, e>>) = 2 /\ <<m, e>>[1] = m /\ <<m, e>>[2] = e
      /\ <<m, e>> \in Seq(Messages)
  OBVIOUS
<1>4. \A i \in 1..1 : i = 1
  OBVIOUS
<1>5. \A i \in 1..2 : i = 1 \/ i = 2
  OBVIOUS
<1> QED BY <1>1, <1>2, <1>3, <1>4, <1>5 DEF Recent

\* A message that is no list.
LEMMA OtherMessages ==
    /\ ErrorMsg \in Messages /\ ~IsList(ErrorMsg)
    /\ \A type \in MsgTypes \ {"identity_list"}, of \in Ids \cup {NoId} :
          Reply(type, of) \in Messages /\ ~IsList(Reply(type, of))
BY ErrorType, ReplyType DEF IsList

\* A handler that posts no identity list.
LEMMA PlainPosts ==
    ASSUME IInv, NEW s \in Slots, NEW t,
           \/ Await(s, t, <<>>) \/ Await(s, t, <<ErrorMsg>>)
           \/ \E type \in MsgTypes \ {"identity_list"}, of \in Ids \cup {NoId} :
                 Await(s, t, <<Reply(type, of)>>)
    PROVE  Posts(s) /\ tasks'[s] = t
<1>1. CASE Await(s, t, <<>>)
  <2>1. Recent(<<>>) /\ <<>> \in Seq(Messages)
    BY OtherMessages, RecentMessages
  <2> QED BY <1>1, <2>1, AwaitPosts
<1>2. ASSUME NEW m \in Messages, ~IsList(m), Await(s, t, <<m>>)
      PROVE  Posts(s) /\ tasks'[s] = t
  <2>1. Recent(<<m>>) /\ <<m>> \in Seq(Messages)
    BY <1>2, RecentMessages
  <2> QED BY <1>2, <2>1, AwaitPosts
<1> QED BY <1>1, <1>2, OtherMessages

\* A call for the active identity, after msgs have been posted.
LEMMA ForActivePosts ==
    ASSUME IInv, NEW s \in Slots, NEW t, NEW pc, NEW q \in Seq(Messages),
           Recent(q), ForActive(s, t, pc, q)
    PROVE  /\ Posts(s)
           /\ (\E i \in 1..Len(q) : IsList(q[i])) => OnTheWay'
<1> DEFINE id == ActiveOf(identities, active)
<1>1. CASE id = NoId
  <2>1. Await(s, Idle, Append(q, ErrorMsg))
    BY <1>1 DEF ForActive, Finish
  <2>2. /\ Append(q, ErrorMsg) \in Seq(Messages) /\ Len(q) \in Nat
        /\ Len(Append(q, ErrorMsg)) = Len(q) + 1
        /\ \A i \in 1..Len(q) : Append(q, ErrorMsg)[i] = q[i]
        /\ Append(q, ErrorMsg)[Len(q) + 1] = ErrorMsg
    BY OtherMessages, AppendProperties, LenProperties
  <2>3. \A i \in 1..Len(q) + 1 : i \in 1..Len(q) \/ i = Len(q) + 1
    BY <2>2
  <2>4. Recent(Append(q, ErrorMsg))
    BY <2>2, <2>3, OtherMessages DEF Recent
  <2>5. (\E i \in 1..Len(q) : IsList(q[i]))
          => \E i \in 1..Len(Append(q, ErrorMsg)) : IsList(Append(q, ErrorMsg)[i])
    BY <2>2
  <2> QED BY <2>1, <2>2, <2>4, <2>5, AwaitPosts
<1>2. CASE id # NoId
  <2>1. Await(s, [t EXCEPT !.pc = pc, !.id = id], q)
    BY <1>2 DEF ForActive
  <2> QED BY <2>1, AwaitPosts
<1> QED BY <1>1, <1>2

\* The tail of another handler: the conversations of the active identity.
LEMMA ListConversationsPosts ==
    ASSUME IInv, NEW s \in Slots, NEW t, ListConversations(s, t, <<>>)
    PROVE  Posts(s)
<1>1. Recent(<<>>) /\ <<>> \in Seq(Messages)
  BY OtherMessages, RecentMessages
<1> QED BY <1>1, ForActivePosts DEF ListConversations

\* A list of the new epoch is a message that may be posted.
LEMMA ListMessage ==
    ASSUME NEW list \in Seq(Ids), NEW at \in Nat, epoch' \in Nat
    PROVE  /\ IdentityListMsg(list, at, epoch') \in Messages
           /\ IsList(IdentityListMsg(list, at, epoch'))
           /\ IdentityListMsg(list, at, epoch').ver = epoch'
BY DEF IdentityListMsg, Messages, MsgTypes, IsList

\* Collecting the identities of the new epoch informs the page.
LEMMA CollectInforms ==
    ASSUME IInv, NEW s \in Slots, NEW t, NEW ids \in Seq(Ids), NEW at \in Nat,
           epoch' \in Nat, t.kind \in Kinds, Collect(s, t, ids, at, epoch')
    PROVE  /\ Posts(s) /\ Informs(s)'
           /\ ids # <<>> => Collects(s)'
<1>1. CASE ids = <<>>
  <2>1. PICK m : m = IdentityListMsg(<<>>, at, epoch')
    OBVIOUS
  <2>2. m \in Messages /\ IsList(m) /\ m.ver = epoch'
    BY <2>1, ListMessage, EmptySeq
  <2>3. Await(s, Idle, <<m, ErrorMsg>>)
    BY <1>1, <2>1 DEF Collect, Finish
  <2>4. /\ Recent(<<m, ErrorMsg>>) /\ <<m, ErrorMsg>> \in Seq(Messages)
        /\ Len(<<m, ErrorMsg>>) = 2 /\ <<m, ErrorMsg>>[1] = m
    BY <2>2, OtherMessages, RecentMessages
  <2>5. \E i \in 1..Len(<<m, ErrorMsg>>) : IsList(<<m, ErrorMsg>>[i])
    BY <2>2, <2>4
  <2> QED BY <1>1, <2>3, <2>4, <2>5, AwaitPosts DEF Informs
<1>2. CASE ids # <<>>
  <2>1. PICK u : u = [Started(t.kind) EXCEPT
                        !.pc = "addresses", !.id = ids[1], !.at = at,
                        !.n = Len(ids), !.ver = epoch']
    OBVIOUS
  <2>2. u.pc = "addresses"
    BY <2>1 DEF Started, Idle
  <2>3. Await(s, u, <<>>)
    BY <1>2, <2>1 DEF Collect
  <2>4. Posts(s) /\ tasks'[s] = u
    BY <2>3, PlainPosts
  <2> QED BY <2>2, <2>4 DEF Informs, Collects
<1> QED BY <1>1, <1>2

\* So does an assignment of identities, unless a handler has panicked.
LEMMA AssignInforms ==
    ASSUME IInv, ~poisoned, NEW s \in Slots, NEW t, t.kind \in Kinds,
           NEW ids \in Seq(Ids), NEW at \in Nat, Assign(s, t, ids, at)
    PROVE  /\ Posts(s) /\ Informs(s)'
           /\ ids # <<>> => Collects(s)'
<1>1. /\ epoch' = IF ids = identities /\ at = active THEN epoch ELSE epoch + 1
      /\ Collect(s, t, ids, at, epoch')
  BY DEF Assign
<1>2. epoch' \in Nat
  BY <1>1 DEF IInv, StateOK
<1> QED BY <1>1, <1>2, CollectInforms

-----------------------------------------------------------------------------
(* Every change of the identities leads to a list of them.                 *)

\* What a step of slot s owes the page: a change of the identities, or the end
\* of a handler that collected them, leaves somebody who informs it.
Carries(s) ==
    /\ Posts(s)
    /\ epoch' = epoch \/ Informs(s)' \/ Replaces(s)'
    /\ Collects(s) \/ Replaces(s) => Informs(s)'
    /\ ~poisoned'

\* A handler that has just started or that makes a call leaves the identities
\* alone.
LEMMA PlainCarries ==
    ASSUME IInv, NEW s \in Slots, NEW t,
           \/ Await(s, t, <<>>) \/ Await(s, t, <<ErrorMsg>>)
           \/ \E type \in MsgTypes \ {"identity_list"}, of \in Ids \cup {NoId} :
                 Await(s, t, <<Reply(type, of)>>),
           epoch' = epoch, ~poisoned', ~Collects(s), ~Replaces(s)
    PROVE  Carries(s)
BY PlainPosts DEF Carries

\* One that goes on with the conversations of the active identity.
LEMMA CallCarries ==
    ASSUME IInv, NEW s \in Slots, NEW t, NEW pc, ForActive(s, t, pc, <<>>),
           epoch' = epoch, ~poisoned', ~Collects(s), ~Replaces(s)
    PROVE  Carries(s)
<1>1. Recent(<<>>) /\ <<>> \in Seq(Messages)
  BY OtherMessages, RecentMessages
<1>2. Posts(s)
  BY <1>1, ForActivePosts
<1> QED BY <1>2 DEF Carries

\* One that assigns identities.
LEMMA AssignCarries ==
    ASSUME IInv, ~poisoned, NEW s \in Slots, NEW t, t.kind \in Kinds,
           NEW ids \in Seq(Ids), NEW at \in Nat, Assign(s, t, ids, at),
           ~poisoned'
    PROVE  Carries(s)
BY AssignInforms DEF Carries

\* The end of a round of handle_init.
LEMMA RoundCarries ==
    ASSUME IInv, ~poisoned, NEW s \in Slots, NEW t, t.kind \in Kinds,
           NEW found \in Seq(Ids), RoundEnds(s, t, found),
           ~poisoned', ~Collects(s), ~Replaces(s)
    PROVE  Carries(s)
<1>1. CASE found # <<>>
  BY <1>1, AssignCarries DEF RoundEnds
<1>2. CASE found = <<>>
  <2>1. epoch' = epoch
    BY <1>2 DEF RoundEnds
  <2>2. \/ Await(s, Idle, <<Reply("connection_error", NoId)>>)
        \/ \E u : Await(s, u, <<>>)
    BY <1>2 DEF RoundEnds, Finish
  <2>3. "connection_error" \in MsgTypes \ {"identity_list"}
    BY DEF MsgTypes
  <2> QED BY <2>1, <2>2, <2>3, PlainCarries
<1> QED BY <1>1, <1>2

\* A handler that starts collects nothing yet.
LEMMA StartsEmpty ==
    ASSUME IInv, NEW s \in Slots, NEW kind, Takes(s, kind)
    PROVE  ~Collects(s) /\ ~Replaces(s)
BY IdleType DEF Takes, Collects, Replaces

\* The removal of an identity: the list of the others, or a replacement first.
LEMMA RemoveCarries ==
    ASSUME IInv, ~poisoned, NEW s \in Slots, HandleRemoveIdentity(s)
    PROVE  Carries(s)
<1>1. PICK idx : idx = Head(inbox).idx
  OBVIOUS
<1>2. PICK t : t = Started("remove")
  OBVIOUS
<1>3. Takes(s, "remove") /\ poisoned' = poisoned
  BY DEF HandleRemoveIdentity
<1>4. idx \in Nat /\ t.kind = "remove" /\ t.kind \in Kinds /\ t \in Tasks
      /\ ~Collects(s) /\ ~Replaces(s)
  BY <1>1, <1>2, <1>3, TakesKeeps, StartedType, StartsEmpty DEF Requests, Kinds
<1>5. CASE idx >= Len(identities)
  <2>1. Await(s, Idle, <<>>) /\ epoch' = epoch
    BY <1>1, <1>5 DEF HandleRemoveIdentity, Finish
  <2> QED BY <1>3, <1>4, <2>1, PlainCarries
<1>6. CASE idx < Len(identities) /\ Len(identities) = 1
  <2>1. Await(s, [t EXCEPT !.pc = "make"], <<>>)
    BY <1>1, <1>2, <1>4, <1>6 DEF HandleRemoveIdentity, IInv, StateOK
  <2>2. PICK u : u = [t EXCEPT !.pc = "make"]
    OBVIOUS
  <2>3. u.pc = "make" /\ u.kind = "remove"
    BY <1>4, <2>2 DEF Tasks
  <2>4. Posts(s) /\ tasks'[s] = u
    BY <2>1, <2>2, PlainPosts
  <2>5. Replaces(s)'
    BY <2>3, <2>4 DEF Replaces
  <2> QED BY <1>3, <1>4, <2>4, <2>5 DEF Carries
<1>7. CASE idx < Len(identities) /\ Len(identities) # 1
  <2>1. Assign(s, t, RemoveAt(identities, idx + 1), ActiveAfterRemove(idx))
    BY <1>1, <1>2, <1>4, <1>7 DEF HandleRemoveIdentity, IInv, StateOK
  <2>2. RemoveAt(identities, idx + 1) \in Seq(Ids)
    <3>1. idx + 1 \in 1..Len(identities) /\ identities \in Seq(Ids)
      BY <1>4, <1>7 DEF IInv, StateOK
    <3> QED BY <3>1, RemoveAtProperties
  <2>3. ActiveAfterRemove(idx) \in Nat
    BY <1>4, <1>7, ActiveAfterRemoveInRange
  <2> QED BY <1>3, <1>4, <2>1, <2>2, <2>3, AssignCarries
<1>8. Len(identities) \in Nat
  BY LenProperties DEF IInv, StateOK
<1> QED BY <1>4, <1>5, <1>6, <1>7, <1>8

\* The selection of an identity that exists starts collecting the list.
LEMMA SwitchCarries ==
    ASSUME IInv, ~poisoned, NEW s \in Slots, HandleSwitchIdentity(s)
    PROVE  /\ Carries(s)
           /\ Head(inbox).idx < Len(identities) => Informs(s)'
<1>1. PICK idx : idx = Head(inbox).idx
  OBVIOUS
<1>2. PICK at : at = IF idx < Len(identities) THEN idx ELSE active
  OBVIOUS
<1>3. PICK t : t = Started("switch")
  OBVIOUS
<1>4. /\ Takes(s, "switch") /\ poisoned' = poisoned
      /\ Assign(s, t, identities, at)
  BY <1>1, <1>2, <1>3 DEF HandleSwitchIdentity
<1>5. /\ at \in Nat /\ t.kind \in Kinds /\ identities \in Seq(Ids)
  <2>1. idx \in Nat
    BY <1>1, <1>4, TakesKeeps DEF Requests
  <2>2. t.kind \in Kinds
    BY <1>3, StartedType DEF Kinds
  <2> QED BY <1>2, <2>1, <2>2 DEF IInv, StateOK
<1>6. Carries(s)
  BY <1>4, <1>5, AssignCarries
<1>7. Informs(s)'
  BY <1>4, <1>5, AssignInforms
<1> QED BY <1>6, <1>7

\* The start of any handler.
LEMMA DispatchCarries ==
    ASSUME IInv, ~poisoned, NEW s \in Slots, Dispatch(s)
    PROVE  /\ Carries(s)
           /\ inbox # <<>> /\ inbox' = Tail(inbox)
           /\ Head(inbox).kind = "switch" /\ Head(inbox).idx < Len(identities)
                 => Informs(s)'
<1>1. PICK kind : Takes(s, kind)
  BY DEF Dispatch, HandleInit, HandleRetry, HandleCreateIdentity,
         HandleRestoreIdentity, HandleRemoveIdentity, HandleSwitchIdentity,
         HandleAddress, HandleConsent, HandleList, HandleForActive
<1>2. inbox # <<>> /\ inbox' = Tail(inbox) /\ ~Collects(s) /\ ~Replaces(s)
  BY <1>1, StartsEmpty DEF Takes
<1>3. CASE HandleRemoveIdentity(s)
  BY <1>2, <1>3, RemoveCarries DEF HandleRemoveIdentity, Takes
<1>4. CASE HandleSwitchIdentity(s)
  BY <1>2, <1>4, SwitchCarries
<1>5. CASE ~HandleRemoveIdentity(s) /\ ~HandleSwitchIdentity(s)
  <2>1. epoch' = epoch /\ ~poisoned'
    BY <1>5 DEF Dispatch, HandleInit, HandleRetry, HandleCreateIdentity,
                HandleRestoreIdentity, HandleAddress, HandleConsent, HandleList,
                HandleForActive
  <2>2. \/ \E u : Await(s, u, <<>>) \/ Await(s, u, <<ErrorMsg>>)
        \/ \E t, pc : ForActive(s, t, pc, <<>>)
    BY <1>5 DEF Dispatch, HandleInit, HandleRetry, HandleCreateIdentity,
                HandleRestoreIdentity, HandleAddress, HandleConsent, HandleList,
                HandleForActive, StartRound, Finish, ListConversations
  <2>3. Head(inbox).kind # "switch"
    BY <1>5 DEF Dispatch, HandleInit, HandleRetry, HandleCreateIdentity,
                HandleRestoreIdentity, HandleAddress, HandleConsent, HandleList,
                HandleForActive, Takes, FirstCall
  <2>4. Carries(s)
    BY <1>2, <2>1, <2>2, PlainCarries, CallCarries
  <2> QED BY <1>2, <2>3, <2>4
<1> QED BY <1>3, <1>4, <1>5

\* A round of handle_init goes on or ends.
LEMMA LoadingCarries ==
    ASSUME IInv, ~poisoned, NEW s \in Slots,
           KeyLoaded(s) \/ FirstIdentityMade(s)
    PROVE  Carries(s)
<1>1. PICK t : t = tasks[s]
  OBVIOUS
<1>2. t \in Tasks /\ TaskOK(t) /\ t.kind \in Kinds /\ t.got \in Seq(Ids)
      /\ t.todo \in Seq(Ids)
  BY <1>1, TaskType DEF Tasks
<1>3. ~Collects(s) /\ ~Replaces(s) /\ ~poisoned'
  <2>1. ~Collects(s) /\ ~Replaces(s)
    BY DEF KeyLoaded, FirstIdentityMade, Collects, Replaces
  <2>2. poisoned' = poisoned
    BY DEF KeyLoaded, FirstIdentityMade
  <2> QED BY <2>1, <2>2
<1>4. CASE KeyLoaded(s)
  <2>1. t.todo # <<>>
    BY <1>1, <1>2, <1>4 DEF KeyLoaded, TaskOK
  <2>2. PICK got \in {t.got, Append(t.got, Head(t.todo))} :
           IF Len(t.todo) > 1
           THEN /\ Await(s, [t EXCEPT !.got = got, !.todo = Tail(t.todo)], <<>>)
                /\ UNCHANGED <<identities, active, epoch>>
           ELSE RoundEnds(s, t, got)
    BY <1>1, <1>4 DEF KeyLoaded, FromKeyHex
  <2>3. got \in Seq(Ids)
    <3> DEFINE todo == t.todo
               loaded == t.got
    <3>1. /\ todo \in Seq(Ids) /\ todo # <<>> /\ loaded \in Seq(Ids)
          /\ got = loaded \/ got = Append(loaded, Head(todo))
      BY <1>2, <2>1
    <3> HIDE DEF todo, loaded
    <3>2. Head(todo) \in Ids
      BY <3>1, HeadTailProperties
    <3> QED BY <3>1, <3>2, AppendProperties
  <2>4. CASE Len(t.todo) > 1
    <3>1. PICK u : Await(s, u, <<>>)
      BY <2>2, <2>4
    <3>2. epoch' = epoch
      BY <2>2, <2>4
    <3> QED BY <1>3, <3>1, <3>2, PlainCarries
  <2>5. CASE ~(Len(t.todo) > 1)
    <3>1. RoundEnds(s, t, got)
      BY <2>2, <2>5
    <3> QED BY <1>2, <1>3, <2>3, <3>1, RoundCarries
  <2> QED BY <2>4, <2>5
<1>5. CASE FirstIdentityMade(s)
  <2>1. (\E id \in Ids : RoundEnds(s, t, <<id>>)) \/ RoundEnds(s, t, <<>>)
    BY <1>1, <1>5 DEF FirstIdentityMade
  <2>2. <<>> \in Seq(Ids) /\ \A id \in Ids : <<id>> \in Seq(Ids)
    OBVIOUS
  <2> QED BY <1>2, <1>3, <2>1, <2>2, RoundCarries
<1> QED BY <1>4, <1>5

\* An identity is created, restored, or replaces the last one.
LEMMA MakingCarries ==
    ASSUME IInv, ~poisoned, NEW s \in Slots,
           IdentityCreated(s) \/ IdentityRestored(s) \/ ReplacementMade(s)
    PROVE  Carries(s)
<1>1. PICK t : t = tasks[s]
  OBVIOUS
<1>2. t \in Tasks /\ TaskOK(t) /\ t.kind \in Kinds
  BY <1>1, TaskType DEF Tasks
<1>3. ~poisoned' /\ ~Collects(s)
  BY DEF IdentityCreated, IdentityRestored, ReplacementMade, Collects
<1>4. /\ identities \in Seq(Ids) /\ Len(identities) \in Nat /\ active \in Nat
      /\ epoch \in Nat /\ \A id \in Ids : Append(identities, id) \in Seq(Ids)
  BY AppendProperties, LenProperties DEF IInv, StateOK
<1>5. ASSUME NEW id \in Ids, Push(s, t, id)
      PROVE  Carries(s)
  <2>1. Assign(s, t, Append(identities, id), Len(identities))
    BY <1>5 DEF Push
  <2> QED BY <1>2, <1>3, <1>4, <2>1, AssignCarries
<1>6. CASE IdentityCreated(s) \/ IdentityRestored(s)
  <2>1. ~Replaces(s)
    <3>1. CASE IdentityCreated(s)
      BY <3>1 DEF IdentityCreated, Replaces
    <3>2. CASE IdentityRestored(s)
      BY <3>2 DEF IdentityRestored, Replaces
    <3> QED BY <1>6, <3>1, <3>2
  <2>2. \/ \E id \in Ids : Push(s, t, id)
        \/ Await(s, Idle, <<ErrorMsg>>) /\ epoch' = epoch
    BY <1>1, <1>2, <1>6 DEF IdentityCreated, IdentityRestored, TaskOK, Finish
  <2> QED BY <1>3, <1>5, <2>1, <2>2, PlainCarries
<1>7. CASE ReplacementMade(s)
  <2>1. \/ \E id \in Ids : Assign(s, t, Append(identities, id), active)
        \/ Collect(s, t, identities, active, epoch) /\ epoch' = epoch
    BY <1>1, <1>7 DEF ReplacementMade
  <2>2. CASE \E id \in Ids : Assign(s, t, Append(identities, id), active)
    BY <1>2, <1>3, <1>4, <2>2, AssignCarries
  <2>3. CASE Collect(s, t, identities, active, epoch) /\ epoch' = epoch
    <3>1. Collect(s, t, identities, active, epoch') /\ epoch' \in Nat
      BY <1>4, <2>3
    <3>2. Posts(s) /\ Informs(s)'
      BY <1>2, <1>4, <3>1, CollectInforms
    <3> QED BY <1>3, <3>2 DEF Carries
  <2> QED BY <2>1, <2>2, <2>3
<1> QED BY <1>6, <1>7

\* The collection of an identity list, as long as no change of the identities
\* comes in between: it does not panic, and what it posts is current.
LEMMA CollectingCarries ==
    ASSUME IInv, ~poisoned, ~Torn, NEW s \in Slots,
           NextIdentity(s) \/ IndexPanics(s) \/ PostIdentityList(s)
    PROVE  Carries(s)
<1>1. PICK t : t = tasks[s]
  OBVIOUS
<1>2. t \in Tasks /\ TaskOK(t) /\ t.pc = "addresses"
  BY <1>1, TaskType DEF NextIdentity, IndexPanics, PostIdentityList
<1>3. t.ver = epoch /\ t.n = Len(identities) /\ t.id \in Ids /\ t.at \in Nat
  BY <1>1, <1>2 DEF Torn, TaskOK, Tasks
<1>4. epoch' = epoch /\ epoch' \in Nat
  BY DEF NextIdentity, IndexPanics, PostIdentityList, IInv, StateOK
<1>5. CASE NextIdentity(s)
  <2>1. PICK i : i = Len(t.got) + 2
    OBVIOUS
  <2>2. Await(s, [t EXCEPT !.got = Collected(t), !.id = identities[i]], <<>>)
    BY <1>1, <1>5, <2>1 DEF NextIdentity
  <2>3. PICK u : u = [t EXCEPT !.got = Collected(t), !.id = identities[i]]
    OBVIOUS
  <2>4. u.pc = "addresses"
    BY <1>2, <2>3 DEF Tasks
  <2>5. Posts(s) /\ tasks'[s] = u
    BY <2>2, <2>3, PlainPosts
  <2>6. Informs(s)'
    BY <2>4, <2>5 DEF Informs, Collects
  <2>7. ~poisoned'
    BY <1>5 DEF NextIdentity
  <2> QED BY <1>4, <2>5, <2>6, <2>7 DEF Carries
<1>6. CASE IndexPanics(s)
  <2>1. PICK i : i = Len(t.got) + 2
    OBVIOUS
  <2>2. i <= t.n /\ i > Len(identities) /\ i \in Nat /\ Len(identities) \in Nat
    BY <1>1, <1>2, <1>6, <2>1, LenProperties
    DEF IndexPanics, Tasks, IInv, StateOK
  <2> QED BY <1>3, <2>2
<1>7. CASE PostIdentityList(s)
  <2>1. PICK list \in Seq(Ids) : list = Collected(t)
    BY <1>2, <1>3, CollectedProperties
  <2>2. PICK m : m = IdentityListMsg(list, t.at, epoch')
    OBVIOUS
  <2>3. m \in Messages /\ IsList(m) /\ m.ver = epoch'
    BY <1>3, <1>4, <2>1, <2>2, ListMessage
  <2>4. /\ Recent(<<m>>) /\ <<m>> \in Seq(Messages)
        /\ Len(<<m>>) = 1 /\ <<m>>[1] = m
    BY <2>3, OtherMessages, RecentMessages
  <2>5. \E i \in 1..Len(<<m>>) : IsList(<<m>>[i])
    BY <2>3, <2>4
  <2>6. PostList(s, t, list, t.at, epoch')
    BY <1>1, <1>3, <1>4, <1>7, <2>1 DEF PostIdentityList
  <2>7. Await(s, Idle, <<m>>) \/ \E u : ForActive(s, u, "sync", <<m>>)
    BY <2>2, <2>6 DEF PostList, Finish, ListConversations
  <2>8. Posts(s) /\ OnTheWay'
    BY <2>4, <2>5, <2>7, AwaitPosts, ForActivePosts
  <2>9. ~poisoned'
    BY <1>7 DEF PostIdentityList
  <2> QED BY <1>4, <2>8, <2>9 DEF Carries, Informs
<1> QED BY <1>5, <1>6, <1>7

\* A handler that waits for anything else.
LEMMA OtherCallsCarry ==
    ASSUME IInv, ~poisoned, NEW s \in Slots,
           \/ BackoffElapsed(s) \/ ConversationsListed(s) \/ GroupActionDone(s)
           \/ RoleChangeDone(s) \/ MembersListed(s) \/ MessageSent(s)
           \/ MessagesFetched(s)
    PROVE  Carries(s)
<1>1. epoch' = epoch /\ ~poisoned' /\ ~Collects(s) /\ ~Replaces(s)
  BY DEF BackoffElapsed, ConversationsListed, GroupActionDone, RoleChangeDone,
         MembersListed, MessageSent, MessagesFetched, Collects, Replaces
<1>2. PICK id \in Ids \cup {NoId} : id = tasks[s].id
  BY TaskType DEF Tasks
<1>3. "conversations" \in MsgTypes \ {"identity_list"}
      /\ "group_members" \in MsgTypes \ {"identity_list"}
      /\ "messages" \in MsgTypes \ {"identity_list"}
  BY DEF MsgTypes
<1>4. \/ \E u : Await(s, u, <<>>) \/ Await(s, u, <<ErrorMsg>>)
      \/ \E u : \E type \in MsgTypes \ {"identity_list"}, of \in Ids \cup {NoId} :
            Await(s, u, <<Reply(type, of)>>)
      \/ \E t, pc : ForActive(s, t, pc, <<>>)
  <2>1. CASE BackoffElapsed(s)
    BY <2>1 DEF BackoffElapsed, StartRound
  <2>2. CASE ConversationsListed(s)
    <3>1. \/ Await(s, Idle, <<ErrorMsg>>)
          \/ Await(s, Idle, <<Reply("conversations", id)>>)
      BY <1>2, <2>2 DEF ConversationsListed, Finish
    <3>2. Await(s, Idle, <<Reply("conversations", id)>>) =>
             \E type \in MsgTypes \ {"identity_list"}, of \in Ids \cup {NoId} :
                Await(s, Idle, <<Reply(type, of)>>)
      BY <1>2, <1>3
    <3> QED BY <3>1, <3>2
  <2>3. CASE GroupActionDone(s)
    BY <2>3 DEF GroupActionDone, Finish, ListConversations
  <2>4. CASE RoleChangeDone(s)
    BY <2>4 DEF RoleChangeDone, Finish
  <2>5. CASE MembersListed(s)
    <3>1. \/ Await(s, Idle, <<ErrorMsg>>) \/ Await(s, Idle, <<>>)
          \/ Await(s, Idle, <<Reply("group_members", id)>>)
      BY <1>2, <2>5 DEF MembersListed, Finish
    <3>2. Await(s, Idle, <<Reply("group_members", id)>>) =>
             \E type \in MsgTypes \ {"identity_list"}, of \in Ids \cup {NoId} :
                Await(s, Idle, <<Reply(type, of)>>)
      BY <1>2, <1>3
    <3> QED BY <3>1, <3>2
  <2>6. CASE MessageSent(s)
    BY <2>6 DEF MessageSent, Finish
  <2>7. CASE MessagesFetched(s)
    <3>1. \/ Await(s, Idle, <<ErrorMsg>>)
          \/ Await(s, Idle, <<Reply("messages", id)>>)
      BY <1>2, <2>7 DEF MessagesFetched, Finish
    <3>2. Await(s, Idle, <<Reply("messages", id)>>) =>
             \E type \in MsgTypes \ {"identity_list"}, of \in Ids \cup {NoId} :
                Await(s, Idle, <<Reply(type, of)>>)
      BY <1>2, <1>3
    <3> QED BY <3>1, <3>2
  <2> QED BY <2>1, <2>2, <2>3, <2>4, <2>5, <2>6, <2>7
<1> QED BY <1>1, <1>4, PlainCarries, CallCarries

\* Any handler that goes on.
LEMMA ResumeCarries ==
    ASSUME IInv, ~poisoned, ~Torn, NEW s \in Slots, Resume(s)
    PROVE  Carries(s) /\ inbox' = inbox
<1>1. Carries(s)
  BY LoadingCarries, MakingCarries, CollectingCarries, OtherCallsCarry DEF Resume
<1>2. inbox' = inbox
  BY DEF Resume, KeyLoaded, FirstIdentityMade, BackoffElapsed, IdentityCreated,
         IdentityRestored, ReplacementMade, NextIdentity, IndexPanics,
         PostIdentityList, ConversationsListed, GroupActionDone,
         RoleChangeDone, MembersListed, MessageSent, MessagesFetched
<1> QED BY <1>1, <1>2

-----------------------------------------------------------------------------
(* Settling.                                                               *)

\* Once the page has taken or will take a current list, it takes no older one.
InOrder ==
    /\ \A i, j \in 1..Len(outbox) :
          (/\ i <= j /\ IsList(outbox[i]) /\ IsList(outbox[j])
           /\ outbox[i].ver = epoch)
          => outbox[j].ver = epoch
    /\ pageVer = epoch =>
          \A j \in 1..Len(outbox) : IsList(outbox[j]) => outbox[j].ver = epoch

\* If it has not taken it, it is on the way, or a handler will post it.
Announced ==
    \/ pageVer = epoch
    \/ OnTheWay
    \/ \E s \in Slots : Collects(s) \/ Replaces(s)

\* A request in the queue selects an identity that exists.
Asked ==
    \E i \in 1..Len(inbox) :
        inbox[i].kind = "switch" /\ inbox[i].idx < Len(identities)

\* If it has, it displays the active identity, or has asked for what it
\* displays, or is about to receive the list that says what is active.
Selected ==
    ReadyScreen /\ pageVer = epoch =>
        \/ current = ActiveOf(identities, active)
        \/ OnTheWay
        \/ \E s \in Slots : Collects(s)
        \/ Asked

WholeOK == ~poisoned /\ ~Torn /\ InOrder /\ Announced /\ Selected

SettleInv == PageInv /\ ("torn" \notin faults => WholeOK)

\* A posted list is not of a later epoch.
LEMMA PostedVersions ==
    ASSUME IInv, NEW i \in 1..Len(outbox), IsList(outbox[i])
    PROVE  outbox[i].ver \in Nat /\ outbox[i].ver <= epoch
<1>1. outbox[i] \in Messages /\ MessageOK(outbox[i])
  BY ElementOfSeq DEF IInv, OutboxOK
<1> QED BY <1>1 DEF MessageOK, IsList, Messages

\* A step of the worker.
LEMMA WorkerSettles ==
    ASSUME PageInv, WholeOK, NEW s \in Slots, Dispatch(s) \/ Resume(s),
           UNCHANGED ownVars, ~Torn'
    PROVE  WholeOK'
<1> USE DEF PageInv
<1>1. /\ Carries(s)
      /\ \/ inbox' = inbox
         \/ /\ inbox # <<>> /\ inbox' = Tail(inbox)
            /\ Head(inbox).kind = "switch" /\ Head(inbox).idx < Len(identities)
                  => Informs(s)'
  BY DispatchCarries, ResumeCarries DEF WholeOK
<1>2. /\ epoch' > epoch \/ UNCHANGED <<identities, active, epoch>>
      /\ screen' = screen
  BY DispatchTells, ResumeTells DEF pageVars
<1>3. /\ epoch \in Nat /\ epoch' \in Nat /\ pageVer \in Nat /\ pageVer <= epoch
      /\ pageVer' = pageVer /\ current' = current
  <2>1. IInv'
    BY DispatchKeeps, ResumeKeeps
  <2> QED BY <2>1 DEF IInv, StateOK, PageTypeOK, ToldOK, ownVars, history, display
<1>4. /\ Posts(s)
      /\ epoch' = epoch \/ Informs(s)' \/ Replaces(s)'
      /\ Collects(s) \/ Replaces(s) => Informs(s)'
      /\ ~poisoned'
  BY <1>1 DEF Carries
<1>5. Len(outbox) \in Nat /\ Len(outbox') \in Nat
  <2>1. outbox' \in Seq(Messages)
    BY DispatchKeeps, ResumeKeeps DEF IInv, OutboxOK
  <2> QED BY <2>1, LenProperties DEF IInv, OutboxOK
<1>6. /\ Len(outbox) <= Len(outbox')
      /\ \A i \in 1..Len(outbox) : outbox'[i] = outbox[i]
      /\ \A i \in 1..Len(outbox') :
            i > Len(outbox) /\ IsList(outbox'[i]) => outbox'[i].ver = epoch'
      /\ \A r \in Slots : r # s => tasks'[r] = tasks[r]
  BY <1>4 DEF Posts
<1>7. InOrder'
  <2>1. ASSUME NEW i \in 1..Len(outbox'), NEW j \in 1..Len(outbox'), i <= j,
               IsList(outbox'[i]), IsList(outbox'[j]), outbox'[i].ver = epoch'
        PROVE  outbox'[j].ver = epoch'
    <3>1. CASE j > Len(outbox)
      BY <1>6, <2>1, <3>1
    <3>2. CASE j <= Len(outbox)
      <4>1. i \in 1..Len(outbox) /\ j \in 1..Len(outbox)
        BY <1>5, <2>1, <3>2
      <4>2. outbox'[i] = outbox[i] /\ outbox'[j] = outbox[j]
        BY <1>6, <4>1
      <4>3. outbox[i].ver \in Nat /\ outbox[i].ver <= epoch
        BY <2>1, <4>1, <4>2, PostedVersions
      <4>4. epoch' = epoch
        BY <1>2, <1>3, <2>1, <4>2, <4>3
      <4> QED BY <2>1, <4>1, <4>2, <4>4 DEF WholeOK, InOrder
    <3> QED BY <1>5, <3>1, <3>2
  <2>2. ASSUME pageVer' = epoch', NEW j \in 1..Len(outbox'), IsList(outbox'[j])
        PROVE  outbox'[j].ver = epoch'
    <3>1. epoch' = epoch /\ pageVer = epoch
      BY <1>2, <1>3, <2>2
    <3>2. CASE j > Len(outbox)
      BY <1>6, <2>2, <3>2
    <3>3. CASE j <= Len(outbox)
      <4>1. j \in 1..Len(outbox)
        BY <1>5, <3>3
      <4>2. outbox'[j] = outbox[j]
        BY <1>6, <4>1
      <4> QED BY <2>2, <3>1, <4>1, <4>2 DEF WholeOK, InOrder
    <3> QED BY <1>5, <3>2, <3>3
  <2> QED BY <2>1, <2>2 DEF InOrder
<1>8. epoch' = epoch /\ OnTheWay => OnTheWay'
  <2> SUFFICES ASSUME epoch' = epoch, OnTheWay PROVE OnTheWay'
    OBVIOUS
  <2>1. PICK i \in 1..Len(outbox) : IsList(outbox[i]) /\ outbox[i].ver = epoch
    BY DEF OnTheWay
  <2>2. i \in 1..Len(outbox')
    BY <1>5, <1>6
  <2>3. outbox'[i] = outbox[i]
    BY <1>6
  <2> QED BY <2>1, <2>2, <2>3 DEF OnTheWay
<1>9. \A r \in Slots : /\ Collects(r) => Informs(s)' \/ Collects(r)'
                       /\ Replaces(r) => Informs(s)' \/ Replaces(r)'
  BY <1>4, <1>6 DEF Collects, Replaces
<1>10. Announced'
  <2>1. CASE epoch' = epoch
    BY <1>3, <1>8, <1>9, <2>1 DEF WholeOK, Announced, Informs
  <2>2. CASE epoch' # epoch
    BY <1>4, <2>2 DEF Announced, Informs
  <2> QED BY <2>1, <2>2
<1>11. Selected'
  <2> SUFFICES ASSUME ReadyScreen', pageVer' = epoch'
               PROVE  \/ (current = ActiveOf(identities, active))'
                      \/ OnTheWay' \/ (\E r \in Slots : Collects(r))' \/ Asked'
    BY DEF Selected
  <2>1. UNCHANGED <<identities, active, epoch>> /\ pageVer = epoch /\ ReadyScreen
    BY <1>2, <1>3 DEF ReadyScreen
  <2>2. \/ current = ActiveOf(identities, active)
        \/ OnTheWay \/ (\E r \in Slots : Collects(r)) \/ Asked
    BY <2>1 DEF WholeOK, Selected
  <2>3. CASE current = ActiveOf(identities, active)
    BY <1>3, <2>1, <2>3
  <2>4. CASE OnTheWay
    BY <1>8, <2>1, <2>4
  <2>5. CASE \E r \in Slots : Collects(r)
    BY <1>9, <2>5 DEF Informs
  <2>6. CASE Asked
    <3>1. PICK i \in 1..Len(inbox) :
             inbox[i].kind = "switch" /\ inbox[i].idx < Len(identities)
      BY <2>6 DEF Asked
    <3>2. CASE inbox' = inbox
      BY <2>1, <3>1, <3>2 DEF Asked
    <3>3. CASE /\ inbox # <<>> /\ inbox' = Tail(inbox)
               /\ Head(inbox).kind = "switch" /\ Head(inbox).idx < Len(identities)
                     => Informs(s)'
      <4>1. /\ inbox \in Seq(Requests) /\ Len(inbox) \in Nat
            /\ Head(inbox) = inbox[1] /\ Len(inbox') = Len(inbox) - 1
            /\ \A k \in 1..Len(inbox') : inbox'[k] = inbox[k + 1]
        BY <3>3, HeadTailProperties, LenProperties DEF IInv, InboxOK
      <4>2. CASE i = 1
        BY <3>1, <3>3, <4>1, <4>2 DEF Informs
      <4>3. CASE i # 1
        <5>1. i - 1 \in 1..Len(inbox') /\ inbox'[i - 1] = inbox[i]
          BY <4>1, <4>3
        <5> QED BY <2>1, <3>1, <5>1 DEF Asked
      <4> QED BY <4>2, <4>3
    <3> QED BY <1>1, <3>2, <3>3
  <2> QED BY <2>2, <2>3, <2>4, <2>5, <2>6
<1> QED BY <1>4, <1>7, <1>10, <1>11 DEF WholeOK

\* The page takes a message: what is said of the rest of the outbox.
LEMMA DeliveryShifts ==
    ASSUME IInv, outbox # <<>>, outbox' = Tail(outbox), epoch' = epoch, InOrder
    PROVE  /\ Len(outbox) \in Nat /\ Len(outbox') = Len(outbox) - 1
           /\ Head(outbox) = outbox[1] /\ 1 \in 1..Len(outbox)
           /\ \A i \in 1..Len(outbox') : outbox'[i] = outbox[i + 1]
                                         /\ i + 1 \in 1..Len(outbox)
           /\ \A i, j \in 1..Len(outbox') :
                 (/\ i <= j /\ IsList(outbox'[i]) /\ IsList(outbox'[j])
                  /\ outbox'[i].ver = epoch')
                 => outbox'[j].ver = epoch'
           /\ OnTheWay =>
                 \/ OnTheWay'
                 \/ IsList(Head(outbox)) /\ Head(outbox).ver = epoch
<1>1. /\ outbox \in Seq(Messages) /\ Len(outbox) \in Nat
      /\ Len(outbox') = Len(outbox) - 1 /\ Head(outbox) = outbox[1]
      /\ \A i \in 1..Len(outbox') : outbox'[i] = outbox[i + 1]
  BY HeadTailProperties, LenProperties DEF IInv, OutboxOK
<1>2. Len(outbox) # 0
  BY <1>1, EmptySeq
<1>3. 1 \in 1..Len(outbox) /\ \A i \in 1..Len(outbox') : i + 1 \in 1..Len(outbox)
  BY <1>1, <1>2
<1>4. ASSUME NEW i \in 1..Len(outbox'), NEW j \in 1..Len(outbox'), i <= j,
             IsList(outbox'[i]), IsList(outbox'[j]), outbox'[i].ver = epoch'
      PROVE  outbox'[j].ver = epoch'
  <2>1. i + 1 \in 1..Len(outbox) /\ j + 1 \in 1..Len(outbox) /\ i + 1 <= j + 1
    BY <1>1, <1>3, <1>4
  <2>2. outbox'[i] = outbox[i + 1] /\ outbox'[j] = outbox[j + 1]
    BY <1>1
  <2> QED BY <1>4, <2>1, <2>2 DEF InOrder
<1>5. ASSUME OnTheWay, ~(IsList(Head(outbox)) /\ Head(outbox).ver = epoch)
      PROVE  OnTheWay'
  <2>1. PICK i \in 1..Len(outbox) : IsList(outbox[i]) /\ outbox[i].ver = epoch
    BY <1>5 DEF OnTheWay
  <2>2. i # 1
    BY <1>1, <1>5, <2>1
  <2>3. i - 1 \in 1..Len(outbox') /\ outbox'[i - 1] = outbox[i]
    BY <1>1, <2>2
  <2> QED BY <2>1, <2>3 DEF OnTheWay
<1> QED BY <1>1, <1>3, <1>4, <1>5

\* The page takes a list.
LEMMA ListSettles ==
    ASSUME PageInv, WholeOK, IdentityListArrives
    PROVE  WholeOK'
<1> USE DEF PageInv
<1>1. PICK m : m = Head(outbox)
  OBVIOUS
<1>2. /\ outbox # <<>> /\ IsList(m) /\ outbox' = Tail(outbox)
      /\ current' = IF ToRestore(m) # {} THEN lastActive
                                         ELSE ActiveOf(m.list, m.active)
      /\ pageVer' = m.ver
      /\ inbox' = inbox \o SetToSeq(SwitchBack(m))
                        \o <<Req("list", 0, NoId, <<>>)>>
      /\ UNCHANGED <<identities, active, poisoned, tasks, epoch>>
  BY <1>1 DEF IdentityListArrives, IsList, workerVars
<1>3. m \in Messages /\ MessageOK(m)
  <2>1. UNCHANGED workerVars /\ sent' \in Nat
        /\ screen' \in {"loading", "ready", "offline"}
    BY DEF IdentityListArrives, IInv, StateOK
  <2> QED BY <1>1, <1>2, <2>1, DeliveryKeeps
<1>4. InOrder /\ Announced
  BY DEF WholeOK
<1>5. /\ Len(outbox) \in Nat /\ m = outbox[1] /\ 1 \in 1..Len(outbox)
      /\ \A i \in 1..Len(outbox') : outbox'[i] = outbox[i + 1]
                                    /\ i + 1 \in 1..Len(outbox)
      /\ \A i, j \in 1..Len(outbox') :
            (/\ i <= j /\ IsList(outbox'[i]) /\ IsList(outbox'[j])
             /\ outbox'[i].ver = epoch')
            => outbox'[j].ver = epoch'
      /\ OnTheWay => OnTheWay' \/ m.ver = epoch
  BY <1>1, <1>2, <1>4, DeliveryShifts
<1>6. InOrder'
  <2>1. ASSUME m.ver = epoch, NEW j \in 1..Len(outbox'), IsList(outbox'[j])
        PROVE  outbox'[j].ver = epoch
    <3>1. j + 1 \in 1..Len(outbox) /\ outbox'[j] = outbox[j + 1] /\ 1 <= j + 1
      BY <1>5
    <3> QED BY <1>2, <1>4, <1>5, <2>1, <3>1 DEF InOrder
  <2> QED BY <1>2, <1>5, <2>1 DEF InOrder
<1>7. pageVer = epoch => m.ver = epoch
  BY <1>2, <1>4, <1>5 DEF InOrder
<1>8. Announced'
  BY <1>2, <1>4, <1>5, <1>7 DEF Announced, Collects, Replaces
<1>9. Selected'
  <2> SUFFICES ASSUME m.ver = epoch
               PROVE  current' = ActiveOf(identities, active) \/ Asked'
    BY <1>2 DEF Selected
  <2>1. m.list = identities /\ m.active = active
    BY <1>2, <1>3 DEF MessageOK, IsList
  <2>2. CASE ToRestore(m) = {}
    BY <1>2, <2>1, <2>2
  <2>3. CASE ToRestore(m) # {}
    <3>1. m.list \in Seq(Ids) /\ lastActive \in Ids \cup {NoId}
      BY <1>3 DEF Messages, PageTypeOK
    <3>2. PICK i \in ToRestore(m) :
             SetToSeq(SwitchBack(m)) = <<Req("switch", i - 1, lastActive, <<>>)>>
      BY <2>3, <3>1, AnswersType
    <3>3. i \in 1..Len(identities) /\ Len(identities) \in Nat
      BY <2>1, <3>1, LenProperties DEF ToRestore, Sought
    <3>4. PICK r : r = Req("switch", i - 1, lastActive, <<>>)
      OBVIOUS
    <3>5. PICK l : l = Req("list", 0, NoId, <<>>)
      OBVIOUS
    <3>6. r.kind = "switch" /\ r.idx = i - 1 /\ r.idx < Len(identities)
      BY <3>3, <3>4 DEF Req
    <3>7. inbox' = inbox \o <<r>> \o <<l>>
      BY <1>2, <3>2, <3>4, <3>5
    <3>8. r \in Requests /\ l \in Requests
      <4>1. i - 1 \in Nat /\ <<>> \in Seq(Ids)
        BY <3>3
      <4> QED BY <3>1, <3>4, <3>5, <4>1 DEF Req, Requests, Kinds
    <3>9. inbox \in Seq(Requests) /\ Len(inbox) \in Nat
      BY LenProperties DEF IInv, InboxOK
    <3>10. /\ Len(inbox') = Len(inbox) + 2
           /\ inbox'[Len(inbox) + 1] = r
      BY <3>7, <3>8, <3>9
    <3>11. Len(inbox) + 1 \in 1..Len(inbox')
      BY <3>9, <3>10
    <3> QED BY <1>2, <3>6, <3>10, <3>11 DEF Asked
  <2> QED BY <2>2, <2>3
<1>10. ~poisoned' /\ ~Torn'
  BY <1>2 DEF WholeOK, Torn
<1> QED BY <1>6, <1>8, <1>9, <1>10 DEF WholeOK

\* The page takes another message.
LEMMA OtherSettles ==
    ASSUME PageInv, WholeOK, OtherArrives
    PROVE  WholeOK'
<1> USE DEF PageInv
<1>1. /\ outbox # <<>> /\ ~IsList(Head(outbox)) /\ outbox' = Tail(outbox)
      /\ UNCHANGED <<identities, active, poisoned, tasks, epoch>>
      /\ UNCHANGED <<inbox, current, pageVer>>
      /\ ReadyScreen' => ReadyScreen
  BY DEF OtherArrives, IsList, workerVars, ownVars, display, history, ReadyScreen
<1>2. InOrder /\ Announced /\ Selected /\ ~poisoned /\ ~Torn
  BY DEF WholeOK
<1>3. /\ \A i \in 1..Len(outbox') : outbox'[i] = outbox[i + 1]
                                    /\ i + 1 \in 1..Len(outbox)
      /\ \A i, j \in 1..Len(outbox') :
            (/\ i <= j /\ IsList(outbox'[i]) /\ IsList(outbox'[j])
             /\ outbox'[i].ver = epoch')
            => outbox'[j].ver = epoch'
      /\ OnTheWay => OnTheWay'
  BY <1>1, <1>2, DeliveryShifts
<1>4. InOrder'
  BY <1>1, <1>2, <1>3 DEF InOrder
<1>5. Announced'
  BY <1>1, <1>2, <1>3 DEF Announced, Collects, Replaces
<1>6. Selected'
  BY <1>1, <1>2, <1>3 DEF Selected, Collects, Asked
<1>7. ~poisoned' /\ ~Torn'
  BY <1>1, <1>2 DEF Torn
<1> QED BY <1>4, <1>5, <1>6, <1>7 DEF WholeOK

\* A step of the user at most adds a request to the queue.
LEMMA QueueSettles ==
    ASSUME PageInv, WholeOK,
           inbox' = inbox \/ \E r \in Requests : inbox' = Append(inbox, r),
           UNCHANGED workerVars, outbox' = outbox, ReadyScreen' => ReadyScreen,
           current' = current, pageVer' = pageVer
    PROVE  WholeOK'
<1> USE DEF PageInv
<1>1. UNCHANGED <<identities, active, poisoned, tasks, epoch>>
  BY DEF workerVars
<1>2. Asked => Asked'
  <2> SUFFICES ASSUME Asked PROVE Asked'
    OBVIOUS
  <2>1. PICK i \in 1..Len(inbox) :
           inbox[i].kind = "switch" /\ inbox[i].idx < Len(identities)
    BY DEF Asked
  <2>2. i \in 1..Len(inbox') /\ inbox'[i] = inbox[i]
    BY AppendProperties, LenProperties DEF IInv, InboxOK
  <2> QED BY <1>1, <2>1, <2>2 DEF Asked
<1>3. InOrder' /\ Announced'
  BY <1>1 DEF WholeOK, InOrder, Announced, OnTheWay, Collects, Replaces
<1>4. Selected'
  BY <1>1, <1>2 DEF WholeOK, Selected, OnTheWay, Collects
<1>5. ~poisoned' /\ ~Torn'
  BY <1>1 DEF WholeOK, Torn
<1> QED BY <1>3, <1>4, <1>5 DEF WholeOK

\* What the user does on the identity screen, and the retry button.
LEMMA UserSettles ==
    ASSUME PageInv, WholeOK,
           AskFor \/ TapCard \/ TapDelete \/ Confirm \/ Cancel \/ TapRetry
    PROVE  WholeOK'
<1>1. ASSUME NEW r \in Requests, Ask(r)
      PROVE  WholeOK'
  <2>1. /\ inbox' = Append(inbox, r)
        /\ UNCHANGED workerVars /\ outbox' = outbox
        /\ (ReadyScreen' => ReadyScreen)
        /\ current' = current /\ pageVer' = pageVer
    BY <1>1 DEF Ask, ReadyScreen
  <2> QED BY <2>1, QueueSettles
<1>2. CASE AskFor
  BY <1>1, <1>2, UserRequestsAssumption DEF AskFor
<1>3. CASE TapCard
  <2>1. PICK i \in 1..Len(shown) : Ask(Req("switch", i - 1, shown[i], <<>>))
    BY <1>3 DEF TapCard
  <2>2. shown \in Seq(Ids)
    BY DEF PageInv, PageTypeOK
  <2>3. i - 1 \in Nat /\ shown[i] \in Ids \cup {NoId} /\ <<>> \in Seq(Ids)
        /\ "switch" \in Kinds \ {"restore"}
    BY <2>2, LenProperties, ElementOfSeq, EmptySeq DEF Kinds
  <2>4. Req("switch", i - 1, shown[i], <<>>) \in Requests
    BY <2>3, OneRequest
  <2> QED BY <1>1, <2>1, <2>4
<1>4. CASE Confirm
  <2>1. Ask(Req("remove", dialog.idx, dialog.id, <<>>)) /\ dialog # NoDialog
    BY <1>4 DEF Confirm
  <2>2. /\ dialog.idx \in Nat /\ dialog.id \in Ids \cup {NoId}
        /\ <<>> \in Seq(Ids) /\ "remove" \in Kinds \ {"restore"}
    BY <2>1, EmptySeq DEF PageInv, PageTypeOK, Kinds
  <2>3. Req("remove", dialog.idx, dialog.id, <<>>) \in Requests
    BY <2>2, OneRequest
  <2> QED BY <1>1, <2>1, <2>3
<1>5. CASE TapDelete \/ Cancel
  <2>1. /\ inbox' = inbox /\ UNCHANGED workerVars /\ outbox' = outbox
        /\ (ReadyScreen' => ReadyScreen)
        /\ current' = current /\ pageVer' = pageVer
    BY <1>5 DEF TapDelete, Cancel, vars, pageVars, history, ReadyScreen
  <2> QED BY <2>1, QueueSettles
<1>6. CASE TapRetry
  <2>1. /\ inbox' = Append(inbox, Req("retry", 0, NoId, <<>>))
        /\ UNCHANGED workerVars /\ outbox' = outbox
        /\ (ReadyScreen' => ReadyScreen)
        /\ current' = current /\ pageVer' = pageVer
    BY <1>6 DEF TapRetry, ownVars, display, history, ReadyScreen
  <2>2. Req("retry", 0, NoId, <<>>) \in Requests
    BY EmptySeq DEF Req, Requests, Kinds
  <2> QED BY <2>1, <2>2, QueueSettles
<1> QED BY <1>2, <1>3, <1>4, <1>5, <1>6

\* After a reload, and at the start, nothing has been announced or is due.
LEMMA FreshSettles ==
    ASSUME ~poisoned, tasks = [s \in Slots |-> Idle], outbox = <<>>,
           epoch = 0, pageVer = 0, screen = "loading"
    PROVE  WholeOK
<1>1. ~Torn
  BY IdleType DEF Torn
<1>2. InOrder
  BY EmptySeq DEF InOrder
<1> QED BY <1>1, <1>2 DEF WholeOK, Announced, Selected, ReadyScreen

\* The page settles from the start.
LEMMA SettleInit == PageInit => SettleInv
<1> SUFFICES ASSUME PageInit PROVE SettleInv
  OBVIOUS
<1>1. WholeOK
  <2>1. /\ ~poisoned /\ tasks = [s \in Slots |-> Idle] /\ outbox = <<>>
        /\ epoch = 0 /\ pageVer = 0 /\ screen = "loading"
    BY DEF PageInit, Init
  <2> QED BY <2>1, FreshSettles
<1> QED BY <1>1, PageInitInv DEF SettleInv

\* Every step keeps it on the way, unless a list is torn.
LEMMA SettleNext == SettleInv /\ [PageNext]_allVars => SettleInv'
<1> SUFFICES ASSUME SettleInv, [PageNext]_allVars PROVE SettleInv'
  OBVIOUS
<1>1. PageInv /\ PageInv'
  BY PageNextInv DEF SettleInv
<1>2. CASE UNCHANGED allVars
  <2>1. /\ inbox' = inbox /\ UNCHANGED workerVars /\ outbox' = outbox
        /\ (ReadyScreen' => ReadyScreen)
        /\ current' = current /\ pageVer' = pageVer /\ faults' = faults
    BY <1>2 DEF allVars, vars, pageVars, ownVars, display, history, ReadyScreen
  <2> QED BY <1>1, <2>1, QueueSettles DEF SettleInv
<1>3. CASE PageNext /\ "torn" \notin faults'
  <2>1. "torn" \notin faults /\ ~Torn' /\ PageStep
    BY <1>3 DEF PageNext, Observed
  <2>2. WholeOK
    BY <2>1 DEF SettleInv
  <2> SUFFICES WholeOK'
    BY <1>1 DEF SettleInv
  <2>3. ASSUME NEW s \in Slots, Dispatch(s) \/ Resume(s), UNCHANGED ownVars
        PROVE  WholeOK'
    BY <1>1, <2>1, <2>2, <2>3, WorkerSettles
  <2>4. CASE IdentityListArrives
    BY <1>1, <2>2, <2>4, ListSettles
  <2>5. CASE OtherArrives
    BY <1>1, <2>2, <2>5, OtherSettles
  <2>6. CASE AskFor \/ TapCard \/ TapDelete \/ Confirm \/ Cancel \/ TapRetry
    BY <1>1, <2>2, <2>6, UserSettles
  <2>7. CASE Reload
    <3>1. /\ ~poisoned' /\ tasks' = [s \in Slots |-> Idle] /\ outbox' = <<>>
          /\ epoch' = 0 /\ pageVer' = 0 /\ screen' = "loading"
      BY <2>7 DEF Reload
    <3>2. ~Torn' /\ InOrder'
      BY <3>1, <2>1, EmptySeq DEF InOrder
    <3> QED BY <3>1, <3>2 DEF WholeOK, Announced, Selected, ReadyScreen
  <2> QED BY <2>1, <2>3, <2>4, <2>5, <2>6, <2>7 DEF PageStep
<1>4. CASE "torn" \in faults'
  BY <1>1, <1>4 DEF SettleInv
<1> QED BY <1>2, <1>3, <1>4

\* Once everything is answered, the stored keys and the displayed identity are
\* the worker's, for any number of handlers in flight, unless one of them has
\* changed the identities while another collected their list.
THEOREM SettledUnlessTorn == PageSpec => []SettlesUnlessTorn
<1>1. SettleInv => SettlesUnlessTorn
  <2> SUFFICES ASSUME SettleInv, Quiet, ReadyScreen, "torn" \notin faults
               PROVE  stored = identities /\ current = ActiveOf(identities, active)
    BY DEF SettlesUnlessTorn
  <2>1. WholeOK /\ ToldOK
    BY DEF SettleInv, PageInv
  <2>2. /\ inbox = <<>> /\ outbox = <<>>
        /\ \A s \in Slots : ~Collects(s) /\ ~Replaces(s)
    BY IdleType DEF Quiet, Collects, Replaces
  <2>3. ~OnTheWay /\ ~Asked
    BY <2>2, EmptySeq DEF OnTheWay, Asked
  <2>4. pageVer = epoch
    BY <2>1, <2>2, <2>3 DEF WholeOK, Announced
  <2> QED BY <2>1, <2>2, <2>3, <2>4 DEF WholeOK, Selected, ToldOK
<1> QED BY <1>1, SettleInit, SettleNext, PTL DEF PageSpec

-----------------------------------------------------------------------------
(* The right to start, seen by the page.  XmtpWorkerProofs follows it as a *)
(* token from the queue to the retry button; the page's own steps keep it  *)
(* a token as well.                                                        *)

\* As long as nothing has been started the page has no list to act upon.
LEMMA NoScreenYet ==
    ASSUME IInv, Phase, SomeStart
    PROVE  ~ReadyScreen /\ \A i \in 1..Len(outbox) : ~IsList(outbox[i])
BY CalmFields DEF Calm, ReadyScreen, IsList

\* Requests that start nothing, added to the queue.
LEMMA RequestsStartNothing ==
    ASSUME IInv, ~SomeStart, tasks' = tasks,
           \A i \in Nat : Failed(i)' => Failed(i) \/ Failed(i + 1),
           Offered' => Offered,
           NEW q \in Seq(Requests), inbox' = inbox \o q,
           \A i \in 1..Len(q) : q[i].kind \notin {"init", "retry"}
    PROVE  ~SomeStart' /\ Phase'
<1>1. \A i \in Nat : Queued(i)' => Queued(i)
  <2> SUFFICES ASSUME NEW i \in Nat, Queued(i)' PROVE Queued(i)
    OBVIOUS
  <2>1. /\ Len(inbox') = Len(inbox) + Len(q) /\ Len(inbox) \in Nat /\ Len(q) \in Nat
        /\ \A k \in 1..Len(inbox) + Len(q) :
              inbox'[k] = IF k <= Len(inbox) THEN inbox[k] ELSE q[k - Len(inbox)]
    BY ConcatProperties, LenProperties DEF IInv, InboxOK
  <2>2. i \in 1..Len(inbox') /\ inbox'[i].kind \in {"init", "retry"}
    BY DEF Queued
  <2>3. CASE i > Len(inbox)
    <3>1. i - Len(inbox) \in 1..Len(q) /\ inbox'[i] = q[i - Len(inbox)]
      BY <2>1, <2>2, <2>3
    <3> QED BY <2>2, <3>1
  <2>4. CASE i <= Len(inbox)
    <3>1. i \in 1..Len(inbox) /\ inbox'[i] = inbox[i]
      BY <2>1, <2>2, <2>4
    <3> QED BY <2>2, <3>1 DEF Queued
  <2> QED BY <2>1, <2>3, <2>4
<1>2. \A i \in Nat : ~Failed(i)'
  BY DEF SomeStart
<1>3. \A s \in Slots : Running(s)' <=> Running(s)
  BY DEF Running
<1>4. ~SomeStart'
  BY <1>1, <1>2, <1>3 DEF SomeStart
<1> QED BY <1>4 DEF Phase, OneStart, SomeStart

\* A list arrives: nothing is to be started.
LEMMA ListKeepsToken ==
    ASSUME PageInv, Phase, IdentityListArrives
    PROVE  ~SomeStart /\ ~SomeStart' /\ Phase'
<1>1. PICK m : m = Head(outbox)
  OBVIOUS
<1>2. /\ outbox # <<>> /\ outbox' = Tail(outbox) /\ IsList(m) /\ screen' = "ready"
      /\ inbox' = inbox \o SetToSeq(SwitchBack(m))
                        \o <<Req("list", 0, NoId, <<>>)>>
      /\ tasks' = tasks
  BY <1>1 DEF IdentityListArrives, IsList, workerVars
<1>3. /\ Len(outbox) \in Nat \ {0} /\ m = outbox[1] /\ Len(outbox') = Len(outbox) - 1
      /\ \A i \in 1..Len(outbox') : outbox'[i] = outbox[i + 1]
      /\ m \in Messages
  <2>1. outbox \in Seq(Messages)
    BY DEF PageInv, IInv, OutboxOK
  <2> QED BY <1>1, <1>2, <2>1, HeadTailProperties, LenProperties, EmptySeq
<1>4. ~SomeStart
  BY <1>2, <1>3, NoScreenYet DEF PageInv
<1>5. \A i \in Nat : Failed(i)' => Failed(i + 1)
  BY <1>3 DEF Failed
<1>6. ~Offered'
  BY <1>2 DEF Offered
<1>7. PICK p : p = SetToSeq(SwitchBack(m))
  OBVIOUS
<1>8. PICK l : l = Req("list", 0, NoId, <<>>)
  OBVIOUS
<1>9. /\ p \in Seq(Requests) /\ Len(p) \in Nat
      /\ \A k \in 1..Len(p) : p[k].kind = "switch"
  <2>1. m.list \in Seq(Ids) /\ lastActive \in Ids \cup {NoId}
    BY <1>3 DEF PageInv, PageTypeOK, Messages
  <2> QED BY <1>7, <2>1, AnswersType
<1>10. l \in Requests /\ l.kind = "list"
  BY <1>8, EmptySeq DEF Req, Requests, Kinds
<1>11. PICK q : q = Append(p, l)
  OBVIOUS
<1>12. /\ q \in Seq(Requests) /\ inbox' = inbox \o q
       /\ \A k \in 1..Len(q) : q[k].kind \in {"switch", "list"}
  <2>1. /\ q \in Seq(Requests) /\ Len(q) = Len(p) + 1 /\ q[Len(p) + 1] = l
        /\ \A k \in 1..Len(p) : q[k] = p[k]
    BY <1>9, <1>10, <1>11, AppendProperties
  <2>2. inbox \in Seq(Requests)
    BY DEF PageInv, IInv, InboxOK
  <2>3. inbox' = inbox \o q
    <3>1. <<l>> \in Seq(Requests)
      BY <1>10
    <3>2. (inbox \o p) \o <<l>> = inbox \o (p \o <<l>>)
      BY <1>9, <2>2, <3>1, ConcatAssociative
    <3>3. q = p \o <<l>>
      BY <1>9, <1>10, <1>11
    <3> QED BY <1>2, <1>7, <1>8, <3>2, <3>3
  <2>4. ASSUME NEW k \in 1..Len(q) PROVE q[k].kind \in {"switch", "list"}
    <3>1. k \in 1..Len(p) \/ k = Len(p) + 1
      BY <1>9, <2>1
    <3> QED BY <1>9, <1>10, <2>1, <3>1
  <2> QED BY <2>1, <2>3, <2>4
<1>13. ~SomeStart' /\ Phase'
  <2>1. \A i \in 1..Len(q) : q[i].kind \notin {"init", "retry"}
    BY <1>12
  <2> QED BY <1>2, <1>4, <1>5, <1>6, <1>12, <2>1, RequestsStartNothing DEF PageInv
<1> QED BY <1>4, <1>13

\* So does a request from the identity screen.
LEMMA AskKeepsToken ==
    ASSUME PageInv, Phase, NEW r \in Requests, r.kind \notin {"init", "retry"}, Ask(r)
    PROVE  ~SomeStart /\ ~SomeStart' /\ Phase'
<1>1. ReadyScreen /\ inbox' = Append(inbox, r)
      /\ UNCHANGED <<tasks, outbox, screen>>
  BY DEF Ask, workerVars
<1>2. ~SomeStart
  BY <1>1, NoScreenYet DEF PageInv
<1>3. PICK q : q = <<r>>
  OBVIOUS
<1>4. q \in Seq(Requests) /\ inbox' = inbox \o q
      /\ \A i \in 1..Len(q) : q[i].kind \notin {"init", "retry"}
  BY <1>1, <1>3 DEF PageInv, IInv, InboxOK
<1>5. \A i \in Nat : Failed(i)' => Failed(i)
  BY <1>1 DEF Failed
<1>6. Offered' => Offered
  BY <1>1 DEF Offered
<1> QED BY <1>1, <1>2, <1>4, <1>5, <1>6, RequestsStartNothing DEF PageInv

\* What the user sends are requests, and none starts anything.
LEMMA UserSends ==
    ASSUME PageInv, AskFor \/ TapCard \/ Confirm
    PROVE  /\ \E r \in Requests :
                 /\ Ask(r) /\ r.kind \notin {"init", "retry"}
                 /\ r.kind = "remove" => r.id \in removed'
           /\ removed \subseteq removed'
<1>1. CASE AskFor
  BY <1>1, UserRequestsAssumption, PageRequestsAssumption DEF AskFor
<1>2. CASE TapCard
  <2>1. PICK i \in 1..Len(shown) :
           Ask(Req("switch", i - 1, shown[i], <<>>)) /\ removed' = removed
    BY <1>2 DEF TapCard
  <2>2. i - 1 \in Nat /\ shown[i] \in Ids \cup {NoId} /\ <<>> \in Seq(Ids)
        /\ "switch" \in Kinds \ {"restore"}
    BY LenProperties, ElementOfSeq, EmptySeq DEF Kinds, PageInv, PageTypeOK
  <2>3. PICK r : r = Req("switch", i - 1, shown[i], <<>>)
    OBVIOUS
  <2>4. r \in Requests /\ r.kind = "switch"
    BY <2>2, <2>3, OneRequest DEF Req
  <2> QED BY <2>1, <2>3, <2>4
<1>3. CASE Confirm
  <2>1. /\ Ask(Req("remove", dialog.idx, dialog.id, <<>>)) /\ dialog # NoDialog
        /\ removed' = removed \cup {dialog.id}
    BY <1>3 DEF Confirm
  <2>2. /\ dialog.idx \in Nat /\ dialog.id \in Ids \cup {NoId}
        /\ <<>> \in Seq(Ids) /\ "remove" \in Kinds \ {"restore"}
    BY <2>1, EmptySeq DEF PageInv, PageTypeOK, Kinds
  <2>3. PICK r : r = Req("remove", dialog.idx, dialog.id, <<>>)
    OBVIOUS
  <2>4. r \in Requests /\ r.kind = "remove" /\ r.id = dialog.id
    BY <2>2, <2>3, OneRequest DEF Req
  <2> QED BY <2>1, <2>3, <2>4
<1> QED BY <1>1, <1>2, <1>3

\* After a reload the token is the "init" in the queue.
LEMMA ReloadKeepsToken ==
    ASSUME Reload
    PROVE  Phase' /\ SomeStart'
<1>1. inbox' = <<Req("init", 0, NoId, stored)>>
  BY DEF Reload
<1>2. Len(inbox') = 1 /\ inbox'[1].kind = "init"
  BY <1>1 DEF Req
<1>3. /\ \A s \in Slots : tasks'[s] = Idle /\ ~Running(s)'
      /\ outbox' = <<>> /\ Len(outbox') = 0
      /\ screen' = "loading" /\ identities' = <<>> /\ active' = 0
  BY IdleQuiet DEF Reload, Running
<1>4. \A i \in Nat : ~Failed(i)' /\ (Queued(i)' => i = 1)
  BY <1>2, <1>3 DEF Failed, Queued
<1>5. OneStart'
  BY <1>3, <1>4 DEF OneStart, Offered
<1>6. Calm'
  BY <1>2, <1>3 DEF Calm
<1>7. Queued(1)'
  BY <1>2 DEF Queued
<1> QED BY <1>5, <1>6, <1>7 DEF Phase, SomeStart

\* Every step of the page keeps the token single.
LEMMA PhaseOnPage ==
    ASSUME PageInv, Phase, [PageNext]_allVars
    PROVE  Phase'
<1> USE DEF PageInv
<1>1. CASE UNCHANGED allVars
  <2>1. UNCHANGED vars
    BY <1>1 DEF allVars
  <2> QED BY <2>1, PhaseNext
<1>2. CASE PageNext
  <2>1. CASE \E s \in Slots : Dispatch(s) \/ Resume(s)
    BY <2>1, PhaseNext DEF Next
  <2>2. CASE IdentityListArrives
    BY <2>2, ListKeepsToken
  <2>3. CASE OtherArrives
    <3>1. HostReceive
      BY <2>3 DEF OtherArrives, HostReceive
    <3> QED BY <3>1, PhaseNext DEF Next
  <2>4. CASE AskFor \/ TapCard \/ Confirm
    BY <2>4, UserSends, AskKeepsToken
  <2>5. CASE TapDelete \/ Cancel
    <3>1. UNCHANGED vars
      BY <2>5 DEF TapDelete, Cancel
    <3> QED BY <3>1, PhaseNext
  <2>6. CASE TapRetry
    <3>1. HostRetry
      BY <2>6 DEF TapRetry, HostRetry
    <3> QED BY <3>1, PhaseNext DEF Next
  <2>7. CASE Reload
    BY <2>7, ReloadKeepsToken
  <2> QED BY <1>2, <2>1, <2>2, <2>3, <2>4, <2>5, <2>6, <2>7
      DEF PageNext, PageStep
<1> QED BY <1>1, <1>2

-----------------------------------------------------------------------------
(* No key is lost.  A list succeeds another if it holds what that holds,   *)
(* but for what the user has removed.  What is stored, the lists on their  *)
(* way and the worker's identities succeed each other in this order; the   *)
(* start of a session goes on from what is stored.                         *)

Succeeds(L, M) == ToSet(L) \subseteq ToSet(M) \cup removed

ListsGrow ==
    \A i \in 1..Len(outbox) :
        IsList(outbox[i]) =>
            /\ Succeeds(stored, outbox[i].list)
            /\ Succeeds(outbox[i].list, identities)
            /\ \A j \in 1..Len(outbox) :
                  i <= j /\ IsList(outbox[j]) =>
                      Succeeds(outbox[i].list, outbox[j].list)

\* A handler of handle_init makes a new identity only if nothing is stored.
KeysOK(t) ==
    /\ t.kind = "init" /\ Succeeds(stored, t.keys)
    /\ t.pc = "make" => t.keys = <<>>

InitQueued == \E i \in 1..Len(inbox) : inbox[i].kind = "init"

StartHasKeys ==
    /\ \A i \in 1..Len(inbox) :
          inbox[i].kind = "init" => Succeeds(stored, inbox[i].keys)
    /\ \A s \in Slots : Running(s) => KeysOK(tasks[s])
    /\ SomeStart => InitQueued \/ Succeeds(stored, params)

RemovalsMeant ==
    \A i \in 1..Len(inbox) : inbox[i].kind = "remove" => inbox[i].id \in removed

KeepOK ==
    /\ ListsGrow /\ StartHasKeys /\ RemovalsMeant
    /\ ~SomeStart => Succeeds(stored, identities)

KeepInv == SettleInv /\ Phase /\ (faults = {} => KeepOK)

\* The members of a list.
LEMMA Members ==
    ASSUME NEW S, NEW seq \in Seq(S)
    PROVE  /\ ToSet(seq) = {seq[i] : i \in 1..Len(seq)}
           /\ Len(seq) \in Nat
           /\ \A x \in S : ToSet(seq) \subseteq ToSet(Append(seq, x))
           /\ \A i \in 1..Len(seq) :
                 ToSet(seq) \subseteq ToSet(RemoveAt(seq, i)) \cup {seq[i]}
<1>1. /\ Len(seq) \in Nat /\ DOMAIN seq = 1..Len(seq)
      /\ ToSet(seq) = {seq[i] : i \in 1..Len(seq)}
  BY LenProperties DEF ToSet
<1>2. ASSUME NEW x \in S PROVE ToSet(seq) \subseteq ToSet(Append(seq, x))
  <2>1. /\ Append(seq, x) \in Seq(S) /\ Len(Append(seq, x)) = Len(seq) + 1
        /\ \A i \in 1..Len(seq) : Append(seq, x)[i] = seq[i]
    BY AppendProperties
  <2>2. DOMAIN Append(seq, x) = 1..Len(seq) + 1
    BY <2>1, LenProperties
  <2>3. \A i \in 1..Len(seq) : i \in 1..Len(seq) + 1
    BY <1>1
  <2> QED BY <1>1, <2>1, <2>2, <2>3 DEF ToSet
<1>3. ASSUME NEW i \in 1..Len(seq)
      PROVE  ToSet(seq) \subseteq ToSet(RemoveAt(seq, i)) \cup {seq[i]}
  <2>1. PICK rest : rest = RemoveAt(seq, i)
    OBVIOUS
  <2>2. /\ rest \in Seq(S) /\ Len(rest) = Len(seq) - 1
        /\ \A j \in 1..(Len(seq) - 1) : rest[j] = IF j < i THEN seq[j] ELSE seq[j + 1]
    BY <2>1, RemoveAtProperties
  <2>3. ToSet(rest) = {rest[j] : j \in 1..(Len(seq) - 1)}
    BY <2>2, LenProperties DEF ToSet
  <2>4. ASSUME NEW k \in 1..Len(seq), k # i
        PROVE  \E j \in 1..(Len(seq) - 1) : rest[j] = seq[k]
    <3>1. CASE k < i
      <4>1. k \in 1..(Len(seq) - 1)
        BY <1>1, <3>1
      <4> QED BY <2>2, <3>1, <4>1
    <3>2. CASE k > i
      <4>1. k - 1 \in 1..(Len(seq) - 1) /\ ~(k - 1 < i) /\ (k - 1) + 1 = k
        BY <1>1, <3>2
      <4> QED BY <2>2, <4>1
    <3> QED BY <1>1, <2>4, <3>1, <3>2
  <2> QED BY <1>1, <2>1, <2>3, <2>4
<1> QED BY <1>1, <1>2, <1>3

\* Nothing is a member of the empty list.
LEMMA NoMembers == ToSet(<<>>) = {}
BY DEF ToSet

\* A step of the worker after which it holds what it held.
Grown == ToSet(identities) \subseteq ToSet(identities') \cup removed

\* What the worker removes is what the user has chosen.
LEMMA RemovalGrows ==
    ASSUME PageInv, ~poisoned, RemovalsMeant, NEW s \in Slots,
           HandleRemoveIdentity(s), ~Misaimed
    PROVE  Grown
<1>1. PICK idx : idx = Head(inbox).idx
  OBVIOUS
<1>2. Takes(s, "remove") /\ idx \in Nat
  BY <1>1, TakesShifts DEF HandleRemoveIdentity, PageInv, Requests
<1>3. /\ inbox # <<>> /\ inbox' = Tail(inbox) /\ Head(inbox) = inbox[1]
      /\ Head(inbox).kind = "remove" /\ 1 \in 1..Len(inbox)
  BY <1>2, TakesShifts, HeadTailProperties DEF Takes, PageInv, IInv, InboxOK
<1>4. ActiveOf(identities, idx) = Head(inbox).id /\ Head(inbox).id \in removed
  BY <1>1, <1>3 DEF Misaimed, RemovalsMeant
<1>5. identities \in Seq(Ids) /\ Len(identities) \in Nat
  BY LenProperties DEF PageInv, IInv, StateOK
<1>6. CASE idx < Len(identities)
  <2>1. idx + 1 \in 1..Len(identities) /\ identities[idx + 1] \in removed
    BY <1>2, <1>4, <1>5, <1>6 DEF ActiveOf
  <2>2. CASE Len(identities) = 1
    <3>1. \A i \in 1..Len(identities) : i = idx + 1
      BY <2>1, <2>2
    <3>2. ToSet(identities) = {identities[i] : i \in 1..Len(identities)}
      BY <1>5, Members
    <3>3. ToSet(identities) \subseteq removed
      BY <2>1, <3>1, <3>2
    <3> QED BY <3>3 DEF Grown
  <2>3. CASE Len(identities) # 1
    <3>1. identities' = RemoveAt(identities, idx + 1)
      BY <1>1, <1>2, <1>5, <1>6, <2>3 DEF HandleRemoveIdentity, Assign
    <3>2. ToSet(identities) \subseteq
             ToSet(RemoveAt(identities, idx + 1)) \cup {identities[idx + 1]}
      BY <1>5, <2>1, Members
    <3> QED BY <2>1, <3>1, <3>2 DEF Grown
  <2> QED BY <2>2, <2>3
<1>7. CASE idx >= Len(identities)
  BY <1>1, <1>7 DEF HandleRemoveIdentity, Grown
<1> QED BY <1>2, <1>5, <1>6, <1>7

\* Once the worker has started its handlers only add identities.
LEMMA HandlersGrow ==
    ASSUME PageInv, ~poisoned, RemovalsMeant, ~SomeStart, NEW s \in Slots,
           Dispatch(s) \/ Resume(s), ~Misaimed
    PROVE  Grown
<1>1. CASE UNCHANGED identities
  BY <1>1 DEF Grown
<1>2. ASSUME NEW id \in Ids, identities' = Append(identities, id)
      PROVE  Grown
  BY <1>2, Members DEF Grown, PageInv, IInv, StateOK
<1>3. CASE Dispatch(s)
  <2>1. CASE HandleRemoveIdentity(s)
    BY <2>1, RemovalGrows
  <2>2. CASE ~HandleRemoveIdentity(s)
    <3>1. UNCHANGED identities
      BY <1>3, <2>2 DEF Dispatch, HandleInit, HandleRetry, HandleCreateIdentity,
                HandleRestoreIdentity, HandleSwitchIdentity, HandleAddress,
                HandleConsent, HandleList, HandleForActive, Assign
    <3> QED BY <1>1, <3>1
  <2> QED BY <2>1, <2>2
<1>4. CASE Resume(s)
  <2>1. ~Running(s)
    BY DEF SomeStart
  <2>2. ~KeyLoaded(s) /\ ~FirstIdentityMade(s) /\ ~BackoffElapsed(s)
    BY <2>1 DEF Running, Starting, KeyLoaded, FirstIdentityMade, BackoffElapsed
  <2>3. CASE IdentityCreated(s) \/ IdentityRestored(s) \/ ReplacementMade(s)
    <3>1. PICK t : t = tasks[s]
      OBVIOUS
    <3>2. IdentityRestored(s) => t.id \in Ids
      BY <3>1, TaskType DEF IdentityRestored, TaskOK, PageInv
    <3>3. \/ UNCHANGED identities
          \/ \E id \in Ids : identities' = Append(identities, id)
      BY <2>3, <3>1, <3>2
         DEF IdentityCreated, IdentityRestored, ReplacementMade, Push, Assign
    <3> QED BY <1>1, <1>2, <3>3
  <2>4. CASE ~(IdentityCreated(s) \/ IdentityRestored(s) \/ ReplacementMade(s))
    <3>1. UNCHANGED identities
      BY <1>4, <2>2, <2>4
         DEF Resume, NextIdentity, IndexPanics, PostIdentityList,
             ConversationsListed, GroupActionDone, RoleChangeDone, MembersListed,
             MessageSent, MessagesFetched
    <3> QED BY <1>1, <3>1
  <2> QED BY <2>3, <2>4
<1> QED BY <1>3, <1>4

\* The start is taken from the queue, with the keys that were stored.
LEMMA StartHandled ==
    ASSUME PageInv, ~poisoned, Phase, StartHasKeys, NEW s \in Slots,
           HandleInit(s) \/ HandleRetry(s)
    PROVE  /\ SomeStart /\ SomeStart' /\ UNCHANGED identities
           /\ KeysOK(tasks'[s]) /\ Succeeds(stored, params')
<1> USE DEF PageInv
<1>1. PICK kind \in {"init", "retry"} : Takes(s, kind)
  BY DEF HandleInit, HandleRetry
<1>2. /\ 1 \in 1..Len(inbox) /\ inbox[1].kind = kind /\ Head(inbox) = inbox[1]
      /\ Len(inbox) \in Nat
  BY <1>1, TakesShifts, HeadTailProperties DEF Takes, IInv, InboxOK
<1>3. Queued(1) /\ SomeStart
  BY <1>2 DEF Queued, SomeStart
<1>4. PICK keys : /\ StartRound(s, keys, 0) /\ Succeeds(stored, keys)
                  /\ params' = keys
  <2>1. CASE HandleInit(s)
    <3>1. Head(inbox).kind = "init"
      BY <2>1 DEF HandleInit, Takes
    <3>2. Succeeds(stored, Head(inbox).keys)
      BY <1>2, <3>1 DEF StartHasKeys
    <3> QED BY <2>1, <3>2 DEF HandleInit
  <2>2. CASE HandleRetry(s)
    <3>1. inbox[1].kind = "retry"
      BY <1>2, <2>2 DEF HandleRetry, Takes
    <3>2. ~InitQueued
      <4> SUFFICES ASSUME NEW i \in 1..Len(inbox), inbox[i].kind = "init"
                   PROVE  FALSE
        BY DEF InitQueued
      <4>1. Queued(i) /\ i \in Nat
        BY DEF Queued
      <4>2. i = 1
        BY <1>3, <4>1 DEF Phase, OneStart
      <4> QED BY <3>1, <4>2
    <3>3. Succeeds(stored, params)
      BY <1>3, <3>2 DEF StartHasKeys
    <3> QED BY <2>2, <3>3 DEF HandleRetry
  <2> QED BY <2>1, <2>2
<1>5. PICK u : u = [Started("init") EXCEPT
                      !.pc = IF keys = <<>> THEN "make" ELSE "load",
                      !.keys = keys, !.todo = keys, !.round = 0]
  OBVIOUS
<1>6. /\ u.keys = keys /\ u.pc \in {"make", "load"} /\ u.kind = "init"
      /\ u.pc = "make" => keys = <<>>
  BY <1>5 DEF Started, Idle
<1>7. tasks'[s] = u
  <2>1. Await(s, u, <<>>)
    BY <1>4, <1>5 DEF StartRound
  <2> QED BY <2>1, NoneMore
<1>8. KeysOK(tasks'[s])
  BY <1>4, <1>6, <1>7 DEF KeysOK
<1>9. SomeStart'
  BY <1>6, <1>7 DEF SomeStart, Running, Starting
<1>10. UNCHANGED identities
  BY DEF HandleInit, HandleRetry
<1> QED BY <1>3, <1>4, <1>8, <1>9, <1>10

\* The end of a round: identities, another round, or the error.
LEMMA RoundSucceeds ==
    ASSUME PageInv, ~poisoned, NEW s \in Slots, Running(s), KeysOK(tasks[s]),
           NEW found \in Seq(Ids), RoundEnds(s, tasks[s], found),
           found # <<>> => Succeeds(stored, found)
    PROVE  /\ SomeStart' \/ Succeeds(stored, identities')
           /\ Running(s)' => KeysOK(tasks'[s])
<1> USE DEF PageInv
<1>1. PICK t : t = tasks[s]
  OBVIOUS
<1>2. t \in Tasks
  BY <1>1, TaskType
<1>3. CASE found # <<>>
  <2>1. PICK u : u = [Started(t.kind) EXCEPT !.pc = "addresses", !.id = found[1],
                        !.at = 0, !.n = Len(found), !.ver = epoch']
    OBVIOUS
  <2>2. identities' = found /\ Await(s, u, <<>>)
    BY <1>1, <1>3, <2>1 DEF RoundEnds, Assign, Collect
  <2>3. u.pc = "addresses"
    BY <2>1 DEF Started, Idle
  <2>4. tasks'[s] = u
    BY <2>2, NoneMore
  <2> QED BY <1>3, <2>2, <2>3, <2>4 DEF Running, Starting
<1>4. CASE found = <<>>
  <2>1. PICK u : u = [t EXCEPT !.pc = "backoff", !.got = <<>>, !.todo = <<>>]
    OBVIOUS
  <2>2. u.pc = "backoff" /\ u.keys = t.keys /\ u.kind = t.kind
    BY <1>2, <2>1 DEF Tasks
  <2>3. CASE Await(s, u, <<>>)
    <3>1. tasks'[s] = u
      BY <2>3, NoneMore
    <3>2. KeysOK(tasks'[s])
      BY <1>1, <2>2, <3>1 DEF KeysOK
    <3>3. SomeStart'
      BY <2>2, <3>1 DEF SomeStart, Running, Starting
    <3> QED BY <3>2, <3>3
  <2>4. CASE Finish(s, <<Reply("connection_error", NoId)>>)
    <3>1. PICK m : m = Reply("connection_error", NoId)
      OBVIOUS
    <3>2. m \in Messages /\ m.type = "connection_error"
      BY <3>1, ReplyType DEF MsgTypes
    <3>3. Await(s, Idle, <<m>>)
      BY <2>4, <3>1 DEF Finish
    <3>4. /\ tasks'[s] = Idle /\ Len(outbox) \in Nat
          /\ Len(outbox') = Len(outbox) + 1 /\ outbox'[Len(outbox) + 1] = m
      BY <3>2, <3>3, OneMore
    <3>5. PICK n \in Nat : n = Len(outbox) + 1
      BY <3>4
    <3>6. SomeStart'
      <4>1. Failed(n)'
        BY <3>2, <3>4, <3>5 DEF Failed
      <4> QED BY <4>1 DEF SomeStart
    <3>7. ~Running(s)'
      BY <3>4, IdleQuiet DEF Running
    <3> QED BY <3>6, <3>7
  <2> QED BY <1>1, <1>4, <2>1, <2>3, <2>4 DEF RoundEnds
<1> QED BY <1>3, <1>4

\* The handler of the start-up goes on, drops no key, and ends with all of
\* them or with none.
LEMMA StartSucceeds ==
    ASSUME PageInv, ~poisoned, Phase, NEW s \in Slots, Running(s), KeysOK(tasks[s]),
           Resume(s), ~Dropped
    PROVE  /\ SomeStart' \/ Succeeds(stored, identities')
           /\ Running(s)' => KeysOK(tasks'[s])
<1> USE DEF PageInv
<1>1. PICK t : t = tasks[s]
  OBVIOUS
<1>2. t \in Tasks /\ TaskOK(t) /\ t.got \in Seq(Ids) /\ t.todo \in Seq(Ids)
  BY <1>1, TaskType DEF Tasks
<1>3. KeyLoaded(s) \/ FirstIdentityMade(s) \/ BackoffElapsed(s)
  <2>1. t.pc \in {"load", "backoff"} \/ (t.pc = "make" /\ t.kind = "init")
    BY <1>1 DEF Running, Starting
  <2> QED BY <1>1, <2>1 DEF Resume, IdentityCreated, IdentityRestored,
            ReplacementMade, NextIdentity, IndexPanics, PostIdentityList,
            ConversationsListed, GroupActionDone, RoleChangeDone,
            MembersListed, MessageSent, MessagesFetched
<1>4. ASSUME NEW u, Await(s, u, <<>>), u.keys = t.keys, u.kind = "init",
             Starting(u), u.pc = "make" => u.keys = <<>>
      PROVE  SomeStart' /\ KeysOK(tasks'[s])
  <2>1. tasks'[s] = u
    BY <1>4, NoneMore
  <2> QED BY <1>1, <1>4, <2>1 DEF KeysOK, SomeStart, Running
<1>5. CASE KeyLoaded(s)
  <2>1. t.pc = "load" /\ t.todo # <<>>
    BY <1>1, <1>2, <1>5 DEF KeyLoaded, TaskOK
  <2>2. PICK got \in {t.got, Append(t.got, Head(t.todo))} :
           IF Len(t.todo) > 1
           THEN /\ Await(s, [t EXCEPT !.got = got, !.todo = Tail(t.todo)], <<>>)
                /\ UNCHANGED <<identities, active, epoch>>
           ELSE RoundEnds(s, t, got)
    BY <1>1, <1>5 DEF KeyLoaded, FromKeyHex
  <2>3. got \in Seq(Ids)
    <3> DEFINE todo == t.todo
               loaded == t.got
    <3>1. /\ todo \in Seq(Ids) /\ todo # <<>> /\ loaded \in Seq(Ids)
          /\ got = loaded \/ got = Append(loaded, Head(todo))
      BY <1>2, <2>1
    <3> HIDE DEF todo, loaded
    <3>2. Head(todo) \in Ids
      BY <3>1, HeadTailProperties
    <3> QED BY <3>1, <3>2, AppendProperties
  <2>4. CASE Len(t.todo) > 1
    <3>1. PICK u : u = [t EXCEPT !.got = got, !.todo = Tail(t.todo)]
      OBVIOUS
    <3>2. u.pc = "load" /\ u.keys = t.keys /\ u.kind = "init"
      BY <1>1, <1>2, <2>1, <3>1 DEF Tasks, KeysOK
    <3>3. Await(s, u, <<>>)
      BY <2>2, <2>4, <3>1
    <3> QED BY <1>4, <3>2, <3>3 DEF Starting
  <2>5. CASE ~(Len(t.todo) > 1)
    <3>1. RoundEnds(s, t, got)
      BY <2>2, <2>5
    <3>2. ASSUME got # <<>> PROVE Succeeds(stored, got)
      <4>1. identities' = got /\ identities = <<>>
        BY <3>1, <3>2, RunningAlone DEF RoundEnds, Assign, Calm
      <4>2. t.kind = "init"
        BY <1>1 DEF KeysOK
      <4>3. identities' = t.keys
        BY <1>1, <2>1, <3>2, <4>1, <4>2 DEF Dropped
      <4> QED BY <1>1, <4>1, <4>3 DEF KeysOK
    <3> QED BY <1>1, <2>3, <3>1, <3>2, RoundSucceeds
  <2> QED BY <2>4, <2>5
<1>6. CASE FirstIdentityMade(s)
  <2>1. t.pc = "make" /\ t.keys = <<>>
    BY <1>1, <1>6 DEF FirstIdentityMade, KeysOK
  <2>2. PICK found \in Seq(Ids) : RoundEnds(s, t, found)
    <3>1. (\E id \in Ids : RoundEnds(s, t, <<id>>)) \/ RoundEnds(s, t, <<>>)
      BY <1>1, <1>6 DEF FirstIdentityMade
    <3>2. <<>> \in Seq(Ids) /\ \A id \in Ids : <<id>> \in Seq(Ids)
      OBVIOUS
    <3> QED BY <3>1, <3>2
  <2>3. Succeeds(stored, found)
    BY <1>1, <2>1, NoMembers DEF KeysOK, Succeeds
  <2> QED BY <1>1, <2>2, <2>3, RoundSucceeds
<1>7. CASE BackoffElapsed(s)
  <2>1. PICK u : u = [Started("init") EXCEPT
                        !.pc = IF t.keys = <<>> THEN "make" ELSE "load",
                        !.keys = t.keys, !.todo = t.keys, !.round = t.round + 1]
    OBVIOUS
  <2>2. Await(s, u, <<>>)
    BY <1>1, <1>7, <2>1 DEF BackoffElapsed, StartRound
  <2>3. /\ u.pc \in {"make", "load"} /\ u.kind = "init" /\ u.keys = t.keys
        /\ u.pc = "make" => u.keys = <<>>
    BY <2>1 DEF Started, Idle
  <2> QED BY <1>4, <2>2, <2>3 DEF Starting
<1> QED BY <1>3, <1>5, <1>6, <1>7

\* Polling takes nothing but the poll from the queue.
LEMMA Polled ==
    ASSUME PageInv, Phase, SomeStart, NEW s \in Slots, HandleList(s)
    PROVE  /\ SomeStart' /\ params' = params
           /\ \A r \in Slots : tasks'[r] = tasks[r]
           /\ InitQueued => InitQueued'
<1> USE DEF PageInv
<1>1. Takes(s, "list") /\ Await(s, Idle, <<ErrorMsg>>) /\ tasks[s] = Idle
  BY ForNobody DEF Finish, Takes
<1>2. /\ \A r \in Slots : tasks'[r] = tasks[r]
      /\ Len(outbox) \in Nat /\ Len(outbox') = Len(outbox) + 1
      /\ \A i \in 1..Len(outbox) : outbox'[i] = outbox[i]
  BY <1>1, OneMore, ErrorType
<1>3. /\ Len(inbox) \in Nat \ {0} /\ inbox[1].kind = "list"
      /\ Len(inbox') = Len(inbox) - 1
      /\ \A i \in 1..Len(inbox') : inbox'[i] = inbox[i + 1]
  BY <1>1, TakesShifts
<1>4. screen' = screen /\ params' = params
  BY DEF HandleList, pageVars
<1>5. ASSUME NEW i \in 1..Len(inbox), inbox[i].kind # "list"
      PROVE  \E k \in 1..Len(inbox') : k \in Nat /\ inbox'[k] = inbox[i]
  <2>1. i - 1 \in 1..Len(inbox') /\ i - 1 \in Nat /\ (i - 1) + 1 = i
    BY <1>3, <1>5
  <2> QED BY <1>3, <2>1
<1>6. SomeStart'
  <2>1. CASE \E i \in Nat : Queued(i)
    <3>1. PICK i \in 1..Len(inbox) : inbox[i].kind \in {"init", "retry"}
      BY <2>1 DEF Queued
    <3>2. PICK k \in 1..Len(inbox') : k \in Nat /\ inbox'[k] = inbox[i]
      BY <1>5, <3>1
    <3> QED BY <3>1, <3>2 DEF SomeStart, Queued
  <2>2. CASE \E r \in Slots : Running(r)
    BY <1>2, <2>2 DEF SomeStart, Running
  <2>3. CASE \E i \in Nat : Failed(i)
    BY <1>2, <2>3 DEF SomeStart, Failed
  <2>4. CASE Offered
    BY <1>4, <2>4 DEF SomeStart, Offered
  <2> QED BY <2>1, <2>2, <2>3, <2>4 DEF SomeStart
<1>7. InitQueued => InitQueued'
  BY <1>5 DEF InitQueued
<1> QED BY <1>2, <1>4, <1>6, <1>7

\* As long as neither what is stored nor what is removed changes, lists
\* succeed each other as before.
LEMMA SameSuccession ==
    ASSUME UNCHANGED <<stored, removed>>
    PROVE  /\ \A L, M : Succeeds(L, M)' <=> Succeeds(L, M)
           /\ \A t : KeysOK(t)' <=> KeysOK(t)
BY DEF Succeeds, KeysOK

\* Succession is transitive, and what holds more succeeds as well.
LEMMA Succession ==
    ASSUME NEW L, NEW M, Succeeds(L, M)
    PROVE  /\ \A N : Succeeds(M, N) => Succeeds(L, N)
           /\ \A N : ToSet(M) \subseteq ToSet(N) \cup removed => Succeeds(L, N)
BY DEF Succeeds

\* What is in the queue after a step of the worker was there before.
LEMMA QueueShrinks ==
    ASSUME IInv, inbox' = inbox \/ (inbox # <<>> /\ inbox' = Tail(inbox))
    PROVE  \A i \in 1..Len(inbox') : \E k \in 1..Len(inbox) : inbox'[i] = inbox[k]
<1>1. CASE inbox' = inbox
  BY <1>1
<1>2. CASE inbox # <<>> /\ inbox' = Tail(inbox)
  <2>1. /\ Len(inbox) \in Nat /\ Len(inbox') = Len(inbox) - 1
        /\ \A i \in 1..Len(inbox') : inbox'[i] = inbox[i + 1]
    BY <1>2, HeadTailProperties, LenProperties DEF IInv, InboxOK
  <2>2. \A i \in 1..Len(inbox') : i + 1 \in 1..Len(inbox)
    BY <2>1
  <2> QED BY <2>1, <2>2
<1> QED BY <1>1, <1>2

\* The worker hands on what is stored, from the start of a session on.
LEMMA WorkerSucceeds ==
    ASSUME PageInv, ~poisoned, Phase, StartHasKeys, RemovalsMeant,
           ~SomeStart => Succeeds(stored, identities),
           NEW s \in Slots, Dispatch(s) \/ Resume(s), ~Dropped, ~Misaimed,
           Posts(s), Resume(s) => inbox' = inbox
    PROVE  /\ Grown
           /\ ~SomeStart' => Succeeds(stored, identities')
           /\ \A r \in Slots : Running(r)' => KeysOK(tasks'[r])
           /\ SomeStart' => InitQueued' \/ Succeeds(stored, params')
<1> USE DEF PageInv
<1>1. CASE ~SomeStart
  <2>1. ~SomeStart'
    <3>1. Next
      BY DEF Next
    <3> QED BY <1>1, <3>1, NoneStays
  <2>2. Grown
    BY <1>1, HandlersGrow
  <2>3. Succeeds(stored, identities')
    BY <1>1, <2>2, Succession DEF Grown
  <2>4. \A r \in Slots : ~Running(r)'
    BY <2>1 DEF SomeStart
  <2> QED BY <2>1, <2>2, <2>3, <2>4
<1>2. CASE SomeStart
  <2>1. Grown
    BY <1>2, CalmFields, NoMembers DEF Grown
  <2>2. \A r \in Slots : r # s => tasks'[r] = tasks[r]
    BY DEF Posts
  <2>3. ASSUME NEW r \in Slots, r # s, Running(r)'
        PROVE  KeysOK(tasks'[r])
    BY <2>2, <2>3 DEF Running, StartHasKeys
  <2>4. CASE HandleInit(s) \/ HandleRetry(s)
    BY <2>1, <2>3, <2>4, StartHandled
  <2>5. CASE HandleList(s)
    <3>1. /\ SomeStart' /\ params' = params
          /\ \A r \in Slots : tasks'[r] = tasks[r]
          /\ InitQueued => InitQueued'
      BY <1>2, <2>5, Polled
    <3>2. \A r \in Slots : Running(r)' => KeysOK(tasks'[r])
      BY <3>1 DEF Running, StartHasKeys
    <3> QED BY <1>2, <2>1, <3>1, <3>2 DEF StartHasKeys
  <2>6. CASE Resume(s)
    <3>1. Running(s) /\ KeysOK(tasks[s])
      BY <1>2, <2>6, OthersWait DEF StartHasKeys
    <3>2. /\ SomeStart' \/ Succeeds(stored, identities')
          /\ Running(s)' => KeysOK(tasks'[s])
      BY <2>6, <3>1, StartSucceeds
    <3>3. params' = params
      <4>1. KeyLoaded(s) \/ FirstIdentityMade(s) \/ BackoffElapsed(s)
        BY <2>6, <3>1 DEF Running, Starting, Resume, IdentityCreated,
           IdentityRestored, ReplacementMade, NextIdentity, IndexPanics,
           PostIdentityList, ConversationsListed, GroupActionDone, RoleChangeDone,
           MembersListed, MessageSent, MessagesFetched
      <4> QED BY <4>1 DEF KeyLoaded, FirstIdentityMade, BackoffElapsed
    <3>4. InitQueued' \/ Succeeds(stored, params')
      BY <1>2, <2>6, <3>3 DEF StartHasKeys, InitQueued
    <3> QED BY <2>1, <2>3, <3>2, <3>4
  <2>7. Dispatch(s) => HandleInit(s) \/ HandleRetry(s) \/ HandleList(s)
    BY <1>2, OthersWait
  <2> QED BY <2>4, <2>5, <2>6, <2>7
<1> QED BY <1>1, <1>2

\* So no step of the worker loses a key.
LEMMA WorkerKeepsKeys ==
    ASSUME PageInv, WholeOK, Phase, KeepOK, PageInv', Phase', NEW s \in Slots,
           Dispatch(s) \/ Resume(s), UNCHANGED ownVars, ~Dropped, ~Misaimed
    PROVE  KeepOK'
<1> USE DEF PageInv
<1>1. /\ Posts(s) /\ ~poisoned
      /\ inbox' = inbox \/ (inbox # <<>> /\ inbox' = Tail(inbox))
      /\ Resume(s) => inbox' = inbox
  BY DispatchCarries, ResumeCarries DEF WholeOK, Carries
<1>2. /\ ListsGrow /\ StartHasKeys /\ RemovalsMeant
      /\ ~SomeStart => Succeeds(stored, identities)
  BY DEF KeepOK
<1>3. /\ Grown
      /\ ~SomeStart' => Succeeds(stored, identities')
      /\ \A r \in Slots : Running(r)' => KeysOK(tasks'[r])
      /\ SomeStart' => InitQueued' \/ Succeeds(stored, params')
  BY <1>1, <1>2, WorkerSucceeds
<1>4. stored' = stored /\ removed' = removed
  BY DEF ownVars, storage, history
<1>5. /\ \A L, M : Succeeds(L, M)' <=> Succeeds(L, M)
      /\ \A t : KeysOK(t)' <=> KeysOK(t)
  BY <1>4, SameSuccession
<1>6. \A i \in 1..Len(inbox') : \E k \in 1..Len(inbox) : inbox'[i] = inbox[k]
  BY <1>1, QueueShrinks
<1>7. StartHasKeys'
  <2>1. \A i \in 1..Len(inbox') :
           inbox'[i].kind = "init" => Succeeds(stored, inbox'[i].keys)
    BY <1>2, <1>6 DEF StartHasKeys
  <2> QED BY <1>3, <1>4, <1>5, <2>1 DEF StartHasKeys
<1>8. RemovalsMeant'
  BY <1>2, <1>4, <1>6 DEF RemovalsMeant
<1>9. ListsGrow'
  <2>1. /\ Len(outbox) \in Nat /\ Len(outbox') \in Nat /\ Len(outbox) <= Len(outbox')
        /\ \A i \in 1..Len(outbox) : outbox'[i] = outbox[i]
    BY <1>1, LenProperties DEF Posts, IInv, OutboxOK
  <2>2. ASSUME NEW i \in 1..Len(outbox'), i > Len(outbox), IsList(outbox'[i])
        PROVE  /\ outbox'[i].list = identities' /\ Succeeds(stored, outbox'[i].list)
    <3>1. outbox'[i].ver = epoch'
      BY <1>1, <2>2 DEF Posts
    <3>2. outbox'[i].list = identities'
      BY <2>2, <3>1 DEF IInv, OutboxOK, MessageOK, IsList
    <3>3. ~SomeStart'
      BY <2>2 DEF Phase, Calm, IsList
    <3> QED BY <1>3, <3>2, <3>3
  <2>3. ASSUME NEW i \in 1..Len(outbox), IsList(outbox[i])
        PROVE  Succeeds(outbox[i].list, identities')
    BY <1>2, <1>3, <2>3, Succession DEF ListsGrow, Grown
  <2>4. Succeeds(identities', identities')
    BY DEF Succeeds
  <2>5. ASSUME NEW i \in 1..Len(outbox'), IsList(outbox'[i])
        PROVE  /\ Succeeds(stored, outbox'[i].list)
               /\ Succeeds(outbox'[i].list, identities')
               /\ \A j \in 1..Len(outbox') :
                     i <= j /\ IsList(outbox'[j]) =>
                         Succeeds(outbox'[i].list, outbox'[j].list)
    <3>1. CASE i > Len(outbox)
      <4>1. \A j \in 1..Len(outbox') : i <= j => j > Len(outbox)
        BY <2>1, <3>1
      <4> QED BY <2>2, <2>4, <2>5, <3>1, <4>1
    <3>2. CASE i <= Len(outbox)
      <4>1. i \in 1..Len(outbox) /\ outbox'[i] = outbox[i]
        BY <2>1, <3>2
      <4>2. ASSUME NEW j \in 1..Len(outbox'), i <= j, IsList(outbox'[j])
            PROVE  Succeeds(outbox[i].list, outbox'[j].list)
        <5>1. CASE j > Len(outbox)
          BY <2>2, <2>3, <2>5, <4>1, <4>2, <5>1
        <5>2. CASE j <= Len(outbox)
          <6>1. j \in 1..Len(outbox) /\ outbox'[j] = outbox[j]
            BY <2>1, <5>2
          <6> QED BY <1>2, <2>5, <4>1, <4>2, <6>1 DEF ListsGrow
        <5> QED BY <2>1, <5>1, <5>2
      <4> QED BY <1>2, <2>3, <2>5, <4>1, <4>2 DEF ListsGrow
    <3> QED BY <2>1, <3>1, <3>2
  <2> QED BY <1>4, <1>5, <2>5 DEF ListsGrow
<1> QED BY <1>3, <1>5, <1>7, <1>8, <1>9, <1>4 DEF KeepOK

\* The first of the lists on their way is stored: it succeeds what was stored.
LEMMA ListKeepsKeys ==
    ASSUME PageInv, Phase, KeepOK, IdentityListArrives
    PROVE  /\ KeepOK'
           /\ \A id \in ToSet(stored) : id \in ToSet(stored') \cup removed'
<1> USE DEF PageInv
<1>1. PICK m : m = Head(outbox)
  OBVIOUS
<1>2. /\ outbox # <<>> /\ outbox' = Tail(outbox) /\ IsList(m)
      /\ stored' = m.list /\ removed' = removed
      /\ inbox' = inbox \o SetToSeq(SwitchBack(m))
                        \o <<Req("list", 0, NoId, <<>>)>>
      /\ UNCHANGED <<identities, params, tasks>>
  BY <1>1 DEF IdentityListArrives, IsList, workerVars, KeysOf
<1>3. /\ Len(outbox) \in Nat \ {0} /\ m = outbox[1] /\ Len(outbox') = Len(outbox) - 1
      /\ \A i \in 1..Len(outbox') : outbox'[i] = outbox[i + 1]
      /\ m \in Messages
  <2>1. outbox \in Seq(Messages)
    BY DEF IInv, OutboxOK
  <2> QED BY <1>1, <1>2, <2>1, HeadTailProperties, LenProperties, EmptySeq
<1>4. ~SomeStart /\ ~SomeStart'
  BY ListKeepsToken
<1>5. \A i \in 1..Len(outbox') : i + 1 \in 1..Len(outbox) /\ 1 <= i + 1
  BY <1>3
<1>6. ListsGrow
  BY DEF KeepOK
<1>7. /\ Succeeds(stored, m.list) /\ Succeeds(m.list, identities)
      /\ \A j \in 1..Len(outbox) :
            1 <= j /\ IsList(outbox[j]) => Succeeds(m.list, outbox[j].list)
  <2>1. 1 \in 1..Len(outbox)
    BY <1>3
  <2> QED BY <1>2, <1>3, <1>6, <2>1 DEF ListsGrow
<1>8. \A L, M : Succeeds(L, M)' <=> Succeeds(L, M)
  BY <1>2 DEF Succeeds
<1>9. ListsGrow'
  <2>1. ASSUME NEW i \in 1..Len(outbox'), IsList(outbox'[i])
        PROVE  /\ Succeeds(m.list, outbox'[i].list)
               /\ Succeeds(outbox'[i].list, identities)
               /\ \A j \in 1..Len(outbox') :
                     i <= j /\ IsList(outbox'[j]) =>
                         Succeeds(outbox'[i].list, outbox'[j].list)
    <3>1. i + 1 \in 1..Len(outbox) /\ 1 <= i + 1 /\ outbox'[i] = outbox[i + 1]
      BY <1>3, <1>5
    <3>2. ASSUME NEW j \in 1..Len(outbox'), i <= j, IsList(outbox'[j])
          PROVE  Succeeds(outbox'[i].list, outbox'[j].list)
      <4>1. j + 1 \in 1..Len(outbox) /\ i + 1 <= j + 1 /\ outbox'[j] = outbox[j + 1]
        BY <1>3, <1>5, <3>2
      <4> QED BY <1>6, <2>1, <3>1, <3>2, <4>1 DEF ListsGrow
    <3> QED BY <1>6, <1>7, <2>1, <3>1, <3>2 DEF ListsGrow
  <2> QED BY <1>2, <1>8, <2>1 DEF ListsGrow
<1>10. StartHasKeys'
  <2>1. \A r \in Slots : ~Running(r)'
    BY <1>4 DEF SomeStart
  <2>2. \A i \in 1..Len(inbox') : inbox'[i].kind # "init"
    <3> SUFFICES ASSUME NEW i \in 1..Len(inbox'), inbox'[i].kind = "init"
                 PROVE  FALSE
      OBVIOUS
    <3>1. i \in Nat /\ Queued(i)'
      BY DEF Queued
    <3> QED BY <1>4, <3>1 DEF SomeStart
  <2> QED BY <1>4, <2>1, <2>2 DEF StartHasKeys
<1>11. RemovalsMeant'
  <2>1. PICK p : p = SetToSeq(SwitchBack(m))
    OBVIOUS
  <2>2. PICK l : l = Req("list", 0, NoId, <<>>)
    OBVIOUS
  <2>3. /\ p \in Seq(Requests) /\ Len(p) \in Nat
        /\ \A k \in 1..Len(p) : p[k].kind = "switch"
    <3>1. m.list \in Seq(Ids) /\ lastActive \in Ids \cup {NoId}
      BY <1>3 DEF PageTypeOK, Messages
    <3> QED BY <2>1, <3>1, AnswersType
  <2>4. l \in Requests /\ l.kind = "list"
    BY <2>2, EmptySeq DEF Req, Requests, Kinds
  <2>5. inbox \in Seq(Requests) /\ Len(inbox) \in Nat /\ inbox' = (inbox \o p) \o <<l>>
    BY <1>2, <2>1, <2>2, LenProperties DEF IInv, InboxOK
  <2>6. /\ inbox \o p \in Seq(Requests) /\ Len(inbox \o p) = Len(inbox) + Len(p)
        /\ \A i \in 1..Len(inbox) + Len(p) :
              (inbox \o p)[i] = IF i <= Len(inbox) THEN inbox[i] ELSE p[i - Len(inbox)]
    BY <2>3, <2>5, ConcatProperties
  <2>7. PICK q : q = inbox \o p
    OBVIOUS
  <2>8. /\ Len(inbox') = Len(q) + 1 /\ inbox'[Len(q) + 1] = l
        /\ \A i \in 1..Len(q) : inbox'[i] = q[i]
    <3>1. inbox' = Append(q, l)
      BY <2>4, <2>5, <2>6, <2>7
    <3> QED BY <2>4, <2>6, <2>7, <3>1, AppendProperties
  <2>9. ASSUME NEW i \in 1..Len(inbox'), inbox'[i].kind = "remove"
        PROVE  inbox'[i].id \in removed
    <3>1. i \in 1..Len(q) /\ inbox'[i] = q[i]
      <4>1. i # Len(q) + 1
        <5> SUFFICES ASSUME i = Len(q) + 1 PROVE FALSE
          OBVIOUS
        <5>1. inbox'[i] = l
          BY <2>8
        <5> QED BY <2>4, <2>9, <5>1
      <4>2. Len(q) \in Nat /\ i \in 1..Len(q) + 1
        BY <2>3, <2>5, <2>6, <2>7, <2>8, <2>9
      <4>3. i \in 1..Len(q)
        BY <4>1, <4>2
      <4> QED BY <2>8, <4>3
    <3>2. /\ i \in 1..Len(inbox) + Len(p)
          /\ q[i] = IF i <= Len(inbox) THEN inbox[i] ELSE p[i - Len(inbox)]
      <4>1. i \in 1..Len(inbox) + Len(p)
        BY <2>6, <2>7, <3>1
      <4> QED BY <2>6, <2>7, <4>1
    <3>3. CASE i <= Len(inbox)
      <4>1. i \in 1..Len(inbox)
        BY <2>3, <2>5, <3>2, <3>3
      <4>2. q[i] = inbox[i]
        BY <3>2, <3>3
      <4> QED BY <2>9, <3>1, <4>1, <4>2 DEF KeepOK, RemovalsMeant
    <3>4. CASE i > Len(inbox)
      <4>1. i - Len(inbox) \in 1..Len(p) /\ ~(i <= Len(inbox))
        BY <2>3, <2>5, <3>2, <3>4
      <4>2. q[i] = p[i - Len(inbox)]
        BY <3>2, <4>1
      <4> QED BY <2>3, <2>9, <3>1, <4>1, <4>2
    <3> QED BY <2>5, <3>2, <3>3, <3>4
  <2> QED BY <1>2, <2>9 DEF RemovalsMeant
<1>12. Succeeds(stored, identities)'
  BY <1>2, <1>7, <1>8
<1>13. \A id \in ToSet(stored) : id \in ToSet(stored') \cup removed'
  BY <1>2, <1>7 DEF Succeeds
<1> QED BY <1>9, <1>10, <1>11, <1>12, <1>13 DEF KeepOK

\* A message that is no list: the token stays, and so does the rest.
LEMMA OtherKeepsKeys ==
    ASSUME PageInv, Phase, KeepOK, OtherArrives
    PROVE  KeepOK'
<1> USE DEF PageInv
<1>1. /\ outbox # <<>> /\ outbox' = Tail(outbox)
      /\ UNCHANGED <<identities, params, tasks, inbox, stored, removed>>
      /\ screen' = IF Head(outbox).type = "connection_error" THEN "offline"
                                                             ELSE screen
  BY DEF OtherArrives, workerVars, ownVars, storage, history
<1>2. /\ Len(outbox) \in Nat \ {0} /\ Head(outbox) = outbox[1]
      /\ Len(outbox') = Len(outbox) - 1
      /\ \A i \in 1..Len(outbox') : outbox'[i] = outbox[i + 1]
  <2>1. outbox \in Seq(Messages)
    BY DEF IInv, OutboxOK
  <2> QED BY <1>1, <2>1, HeadTailProperties, LenProperties, EmptySeq
<1>3. SomeStart => SomeStart'
  <2>1. CASE \E i \in Nat : Failed(i)
    <3>1. PICK i \in 1..Len(outbox) : outbox[i].type = "connection_error"
      BY <2>1 DEF Failed
    <3>2. CASE i = 1
      BY <1>1, <1>2, <3>1, <3>2 DEF SomeStart, Offered
    <3>3. CASE i # 1
      <4>1. PICK k : k = i - 1
        OBVIOUS
      <4>2. k \in Nat /\ k \in 1..Len(outbox') /\ k + 1 = i
        BY <1>2, <3>3, <4>1
      <4>3. Failed(k)'
        BY <1>2, <3>1, <4>2 DEF Failed
      <4> QED BY <4>2, <4>3 DEF SomeStart
    <3> QED BY <3>2, <3>3
  <2>2. CASE \E i \in Nat : Queued(i)
    BY <1>1, <2>2 DEF SomeStart, Queued
  <2>3. CASE \E r \in Slots : Running(r)
    BY <1>1, <2>3 DEF SomeStart, Running
  <2>4. CASE Offered
    BY <1>1, <2>4 DEF SomeStart, Offered
  <2> QED BY <2>1, <2>2, <2>3, <2>4 DEF SomeStart
<1>4. SomeStart' => SomeStart
  <2>1. HostReceive
    BY DEF OtherArrives, HostReceive
  <2>2. Next
    BY <2>1 DEF Next
  <2> QED BY <2>2, NoneStays
<1>5. /\ \A L, M : Succeeds(L, M)' <=> Succeeds(L, M)
      /\ \A t : KeysOK(t)' <=> KeysOK(t)
  BY <1>1, SameSuccession
<1>6. /\ ListsGrow /\ StartHasKeys /\ RemovalsMeant
      /\ ~SomeStart => Succeeds(stored, identities)
  BY DEF KeepOK
<1>7. ListsGrow'
  <2>1. \A i \in 1..Len(outbox') : i + 1 \in 1..Len(outbox) /\ outbox'[i] = outbox[i + 1]
    BY <1>2
  <2>2. \A i, j \in 1..Len(outbox') : i <= j => i + 1 <= j + 1
    BY <1>2
  <2>3. ASSUME NEW i \in 1..Len(outbox'), IsList(outbox'[i])
        PROVE  /\ Succeeds(stored, outbox'[i].list)
               /\ Succeeds(outbox'[i].list, identities)
               /\ \A j \in 1..Len(outbox') :
                     i <= j /\ IsList(outbox'[j]) =>
                         Succeeds(outbox'[i].list, outbox'[j].list)
    BY <1>6, <2>1, <2>2, <2>3 DEF ListsGrow
  <2> QED BY <1>1, <1>5, <2>3 DEF ListsGrow
<1>8. StartHasKeys'
  BY <1>1, <1>4, <1>5, <1>6 DEF StartHasKeys, Running, InitQueued
<1>9. RemovalsMeant'
  BY <1>1, <1>6 DEF RemovalsMeant
<1> QED BY <1>1, <1>3, <1>5, <1>6, <1>7, <1>8, <1>9 DEF KeepOK

\* Lists and identities that stay as they are succeed each other although the
\* user has removed more.
LEMMA StillGrow ==
    ASSUME ListsGrow, UNCHANGED <<outbox, stored, identities>>, removed \subseteq removed'
    PROVE  ListsGrow' /\ (Succeeds(stored, identities) => Succeeds(stored, identities)')
<1>1. \A L, M : Succeeds(L, M) => Succeeds(L, M)'
  BY DEF Succeeds
<1> QED BY <1>1 DEF ListsGrow

\* A request of the user starts nothing; if it removes an identity, it is the
\* one the user has chosen.
LEMMA AskKeepsKeys ==
    ASSUME PageInv, Phase, KeepOK, AskFor \/ TapCard \/ Confirm
    PROVE  KeepOK' /\ stored' = stored
<1> USE DEF PageInv
<1>1. PICK r \in Requests : /\ Ask(r) /\ r.kind \notin {"init", "retry"}
                            /\ r.kind = "remove" => r.id \in removed'
  BY UserSends
<1>2. removed \subseteq removed'
  BY UserSends
<1>3. /\ inbox' = Append(inbox, r)
      /\ UNCHANGED <<identities, params, tasks, outbox, stored>>
  BY <1>1 DEF Ask, workerVars, storage
<1>4. ~SomeStart /\ ~SomeStart'
  BY <1>1, AskKeepsToken
<1>5. ListsGrow /\ RemovalsMeant /\ Succeeds(stored, identities)
  BY <1>4 DEF KeepOK
<1>6. ListsGrow' /\ Succeeds(stored, identities)'
  BY <1>2, <1>3, <1>5, StillGrow
<1>7. /\ Len(inbox') = Len(inbox) + 1 /\ Len(inbox) \in Nat
      /\ inbox'[Len(inbox) + 1] = r
      /\ \A i \in 1..Len(inbox) : inbox'[i] = inbox[i]
  BY <1>3, AppendProperties, LenProperties DEF IInv, InboxOK
<1>8. RemovalsMeant'
  <2>1. ASSUME NEW i \in 1..Len(inbox'), inbox'[i].kind = "remove"
        PROVE  inbox'[i].id \in removed'
    <3>1. i \in 1..Len(inbox) \/ i = Len(inbox) + 1
      BY <1>7
    <3> QED BY <1>1, <1>2, <1>5, <1>7, <2>1, <3>1 DEF RemovalsMeant
  <2> QED BY <2>1 DEF RemovalsMeant
<1>9. StartHasKeys'
  <2>1. \A s \in Slots : ~Running(s)'
    BY <1>4 DEF SomeStart
  <2>2. \A i \in 1..Len(inbox') : inbox'[i].kind # "init"
    <3> SUFFICES ASSUME NEW i \in 1..Len(inbox'), inbox'[i].kind = "init"
                 PROVE  FALSE
      OBVIOUS
    <3>1. i \in Nat /\ Queued(i)'
      BY DEF Queued
    <3> QED BY <1>4, <3>1 DEF SomeStart
  <2> QED BY <1>4, <2>1, <2>2 DEF StartHasKeys
<1> QED BY <1>3, <1>6, <1>8, <1>9 DEF KeepOK

\* The retry button asks for another start with the same keys.
LEMMA RetryKeepsKeys ==
    ASSUME PageInv, Phase, KeepOK, TapRetry
    PROVE  KeepOK' /\ stored' = stored
<1> USE DEF PageInv
<1>1. PICK r : r = Req("retry", 0, NoId, <<>>)
  OBVIOUS
<1>2. /\ inbox' = Append(inbox, r)
      /\ UNCHANGED <<identities, params, tasks, outbox, stored, removed>>
      /\ screen = "offline"
  BY <1>1 DEF TapRetry, workerVars, ownVars, storage, history
<1>3. r \in Requests /\ r.kind = "retry"
  BY <1>1, EmptySeq DEF Req, Requests, Kinds
<1>4. /\ Len(inbox') = Len(inbox) + 1 /\ Len(inbox) \in Nat
      /\ inbox'[Len(inbox) + 1] = r
      /\ \A i \in 1..Len(inbox) : inbox'[i] = inbox[i]
  BY <1>2, <1>3, AppendProperties, LenProperties DEF IInv, InboxOK
<1>5. \A i \in 1..Len(inbox') : i \in 1..Len(inbox) \/ i = Len(inbox) + 1
  BY <1>4
<1>6. SomeStart /\ SomeStart'
  <2>1. PICK n : n = Len(inbox) + 1
    OBVIOUS
  <2>2. n \in Nat /\ n \in 1..Len(inbox') /\ inbox'[n].kind = "retry"
    BY <1>3, <1>4, <2>1
  <2>3. Queued(n)'
    BY <2>2 DEF Queued
  <2> QED BY <1>2, <2>2, <2>3 DEF SomeStart, Offered
<1>7. /\ \A L, M : Succeeds(L, M)' <=> Succeeds(L, M)
      /\ \A t : KeysOK(t)' <=> KeysOK(t)
  BY <1>2, SameSuccession
<1>8. ListsGrow'
  BY <1>2, <1>7 DEF KeepOK, ListsGrow
<1>9. RemovalsMeant'
  BY <1>2, <1>3, <1>4, <1>5 DEF KeepOK, RemovalsMeant
<1>10. StartHasKeys'
  <2>1. \A i \in 1..Len(inbox') :
           inbox'[i].kind = "init" => Succeeds(stored, inbox'[i].keys)
    BY <1>3, <1>4, <1>5 DEF KeepOK, StartHasKeys
  <2>2. \A s \in Slots : Running(s)' => KeysOK(tasks'[s])
    BY <1>2 DEF KeepOK, StartHasKeys, Running
  <2>3. InitQueued' \/ Succeeds(stored, params)
    <3>1. InitQueued => InitQueued'
      <4> SUFFICES ASSUME NEW i \in 1..Len(inbox), inbox[i].kind = "init"
                   PROVE  InitQueued'
        BY DEF InitQueued
      <4>1. i \in 1..Len(inbox') /\ inbox'[i] = inbox[i]
        BY <1>4
      <4> QED BY <4>1 DEF InitQueued
    <3> QED BY <1>6, <3>1 DEF KeepOK, StartHasKeys
  <2> QED BY <1>2, <1>7, <2>1, <2>2, <2>3 DEF StartHasKeys
<1> QED BY <1>2, <1>6, <1>8, <1>9, <1>10 DEF KeepOK

\* A session starts with the keys that are stored.
LEMMA ReloadKeepsKeys ==
    ASSUME Reload
    PROVE  KeepOK' /\ stored' = stored
<1>1. /\ inbox' = <<Req("init", 0, NoId, stored)>> /\ outbox' = <<>>
      /\ stored' = stored /\ removed' = removed
  BY DEF Reload, storage
<1>2. /\ Len(inbox') = 1 /\ inbox'[1].kind = "init" /\ inbox'[1].keys = stored
      /\ \A i \in 1..Len(inbox') : i = 1
  BY <1>1 DEF Req
<1>3. SomeStart' /\ \A s \in Slots : ~Running(s)'
  BY ReloadKeepsToken, IdleQuiet DEF Reload, Running
<1>4. Succeeds(stored, stored)'
  BY DEF Succeeds
<1>5. StartHasKeys'
  BY <1>1, <1>2, <1>3, <1>4 DEF StartHasKeys, InitQueued
<1>6. RemovalsMeant' /\ ListsGrow'
  BY <1>1, <1>2, EmptySeq DEF RemovalsMeant, ListsGrow
<1> QED BY <1>1, <1>3, <1>5, <1>6 DEF KeepOK

\* So does the first one.
LEMMA KeepInit == PageInit => KeepInv
<1> SUFFICES ASSUME PageInit PROVE KeepInv
  OBVIOUS
<1>1. SettleInv /\ Phase
  BY SettleInit, PhaseInit DEF PageInit
<1>2. PICK keys : inbox = <<Req("init", 0, NoId, keys)>>
  BY DEF PageInit, Init
<1>3. /\ Len(inbox) = 1 /\ inbox[1].kind = "init" /\ inbox[1].keys = stored
      /\ \A i \in 1..Len(inbox) : i = 1
  BY <1>2 DEF Req, PageInit
<1>4. SomeStart
  <2>1. Queued(1)
    BY <1>3 DEF Queued
  <2> QED BY <2>1 DEF SomeStart
<1>5. \A s \in Slots : ~Running(s)
  BY IdleQuiet DEF PageInit, Init, Running
<1>6. Succeeds(stored, stored)
  BY DEF Succeeds
<1>7. StartHasKeys
  BY <1>3, <1>4, <1>5, <1>6 DEF StartHasKeys, InitQueued
<1>8. RemovalsMeant /\ ListsGrow
  BY <1>3, EmptySeq DEF RemovalsMeant, ListsGrow, PageInit, Init
<1> QED BY <1>1, <1>4, <1>7, <1>8 DEF KeepInv, KeepOK

\* What a step says of one key.
Kept == \A id \in ToSet(stored) : id \in ToSet(stored') \cup removed' \/ faults' # {}

\* Every step keeps what there is to say about the keys, and the keys.
LEMMA KeepNext == KeepInv /\ [PageNext]_allVars => KeepInv' /\ Kept
<1> SUFFICES ASSUME KeepInv, [PageNext]_allVars PROVE KeepInv' /\ Kept
  OBVIOUS
<1>1. /\ PageInv /\ Phase /\ SettleInv /\ PageInv' /\ Phase' /\ SettleInv'
  BY SettleNext, PhaseOnPage DEF KeepInv, SettleInv
<1>2. CASE faults' # {}
  BY <1>1, <1>2 DEF KeepInv, Kept
<1>3. CASE faults' = {}
  <2>1. faults = {}
    BY <1>3 DEF PageNext, Observed, allVars
  <2>2. KeepOK /\ WholeOK
    BY <2>1 DEF KeepInv, SettleInv
  <2> SUFFICES KeepOK' /\ (stored' = stored \/ Kept)
    BY <1>1 DEF KeepInv, Kept
  <2>3. CASE UNCHANGED allVars
    <3>1. /\ UNCHANGED <<identities, params, tasks, inbox, outbox, screen>>
          /\ UNCHANGED <<stored, removed>>
      BY <2>3 DEF allVars, vars, workerVars, pageVars, ownVars, storage, history
    <3>2. /\ \A L, M : Succeeds(L, M)' <=> Succeeds(L, M)
          /\ \A t : KeysOK(t)' <=> KeysOK(t)
      BY <3>1, SameSuccession
    <3>3. SomeStart' <=> SomeStart
      BY <3>1 DEF SomeStart, Queued, Running, Failed, Offered
    <3>4. ListsGrow' /\ StartHasKeys' /\ RemovalsMeant'
      BY <2>2, <3>1, <3>2, <3>3
         DEF KeepOK, ListsGrow, StartHasKeys, RemovalsMeant, InitQueued, Running
    <3> QED BY <2>2, <3>1, <3>2, <3>3, <3>4 DEF KeepOK
  <2>4. CASE PageNext
    <3>1. PageStep /\ ~Dropped /\ ~Misaimed
      BY <1>3, <2>4 DEF PageNext, Observed
    <3>2. ASSUME NEW s \in Slots, Dispatch(s) \/ Resume(s), UNCHANGED ownVars
          PROVE  KeepOK' /\ stored' = stored
      <4>1. stored' = stored
        BY <3>2 DEF ownVars, storage
      <4> QED BY <1>1, <2>2, <3>1, <3>2, <4>1, WorkerKeepsKeys
    <3>3. CASE IdentityListArrives
      BY <1>1, <2>2, <3>3, ListKeepsKeys DEF Kept
    <3>4. CASE OtherArrives
      <4>1. stored' = stored
        BY <3>4 DEF OtherArrives, ownVars, storage
      <4> QED BY <1>1, <2>2, <3>4, <4>1, OtherKeepsKeys
    <3>5. CASE AskFor \/ TapCard \/ Confirm
      BY <1>1, <2>2, <3>5, AskKeepsKeys
    <3>6. CASE TapDelete \/ Cancel
      <4>1. /\ UNCHANGED <<identities, params, tasks, inbox, outbox, screen>>
            /\ UNCHANGED <<stored, removed>>
        BY <3>6 DEF TapDelete, Cancel, vars, workerVars, pageVars, storage, history
      <4>2. /\ \A L, M : Succeeds(L, M)' <=> Succeeds(L, M)
            /\ \A t : KeysOK(t)' <=> KeysOK(t)
        BY <4>1, SameSuccession
      <4>3. SomeStart' <=> SomeStart
        BY <4>1 DEF SomeStart, Queued, Running, Failed, Offered
      <4>4. ListsGrow' /\ StartHasKeys' /\ RemovalsMeant'
        BY <2>2, <4>1, <4>2, <4>3
           DEF KeepOK, ListsGrow, StartHasKeys, RemovalsMeant, InitQueued, Running
      <4> QED BY <2>2, <4>1, <4>2, <4>3, <4>4 DEF KeepOK
    <3>7. CASE TapRetry
      BY <1>1, <2>2, <3>7, RetryKeepsKeys
    <3>8. CASE Reload
      BY <3>8, ReloadKeepsKeys
    <3> QED BY <3>1, <3>2, <3>3, <3>4, <3>5, <3>6, <3>7, <3>8 DEF PageStep
  <2> QED BY <2>3, <2>4
<1> QED BY <1>2, <1>3

\* on_identity_update persists the keys of every list it receives
\* (main.rs, signing_keys): none of those stored is overwritten, through
\* any number of reloads and handlers in flight, unless the user has removed
\* the identity, a list was collected during a change, handle_init has gone on
\* without a key it could not load, or a removal hit another position.
THEOREM NoKeyIsLost == PageSpec => KeysKept
<1>1. PageInit => KeepInv
  BY KeepInit
<1>2. KeepInv /\ [PageNext]_allVars => KeepInv'
  BY KeepNext
<1>3. KeepInv /\ [PageNext]_allVars =>
         [\A id \in ToSet(stored) :
             id \in ToSet(stored') \cup removed' \/ faults' # {}]_allVars
  BY KeepNext DEF Kept
<1> QED BY <1>1, <1>2, <1>3, PTL DEF PageSpec, KeysKept

-----------------------------------------------------------------------------
(* The last session's identity.  As long as the user has done nothing, the *)
(* identities are assigned once, by the start; the first list is therefore *)
(* the only one needed to find the identity, and the switch it may queue   *)
(* finds the identities as the list had them.                              *)

SwitchQueued == \E i \in 1..Len(inbox) : inbox[i].kind = "switch"

\* What may be in flight before the user does something.  A handler that
\* collects cannot run out of identities.
UnaskedPCs == {"idle", "load", "make", "backoff", "addresses", "sync"}

Unasked(t) ==
    /\ t.kind \in {"init", "list", "switch"} /\ t.pc \in UnaskedPCs
    /\ t.pc = "addresses" => t.n = Len(identities)

Untouched ==
    /\ ~poisoned
    /\ \A i \in 1..Len(inbox) :
          inbox[i].kind \in {"init", "retry", "list", "switch"}
    /\ \A s \in Slots : Unasked(tasks[s])

\* Up to the first list nothing has changed since the start.
BeforeFirst ==
    /\ lastActive = saved /\ ~SwitchQueued
    /\ \A s \in Slots : Collects(s) => tasks[s].ver = epoch
    /\ \A i \in 1..Len(outbox) : IsList(outbox[i]) => outbox[i].ver = epoch

\* After it the identity is active or about to be.
Restored ==
    /\ ActiveOf(identities, active) = saved \/ SwitchQueued
    /\ \A i \in 1..Len(inbox) :
          inbox[i].kind = "switch" => ActiveOf(identities, inbox[i].idx) = saved

SelectOK ==
    /\ Untouched
    /\ firstList => BeforeFirst
    /\ ~firstList /\ saved \in ToSet(identities) => Restored
    /\ SomeStart => firstList
    /\ ReadyScreen => ~firstList

SelectInv == PageInv /\ Phase /\ (~acted => SelectOK)

\* What a step of handler s does as long as nothing is asked for.
Proceeds(s) ==
    /\ \A r \in Slots : r # s => tasks'[r] = tasks[r]
    /\ tasks'[s].kind \in {"init", "list", "switch"} /\ tasks'[s].pc \in UnaskedPCs
    /\ tasks'[s].pc = "addresses" =>
          /\ tasks'[s].n = Len(identities')
          /\ \/ tasks'[s].ver = epoch'
             \/ epoch' = epoch /\ Collects(s) /\ tasks'[s].ver = tasks[s].ver
    /\ identities' = identities \/ Running(s)
    /\ (epoch' = epoch /\ active' = active) \/ Running(s) \/ HandleSwitchIdentity(s)

\* A handler that goes on with t, or ends.
LEMMA AwaitProceeds ==
    ASSUME IInv, NEW s \in Slots, NEW t, NEW q, Await(s, t, q),
           t.kind \in {"init", "list", "switch"}, t.pc \in UnaskedPCs,
           t.pc = "addresses" =>
              /\ t.n = Len(identities')
              /\ \/ t.ver = epoch'
                 \/ epoch' = epoch /\ Collects(s) /\ t.ver = tasks[s].ver,
           identities' = identities \/ Running(s),
           (epoch' = epoch /\ active' = active) \/ Running(s) \/ HandleSwitchIdentity(s)
    PROVE  Proceeds(s)
<1>1. tasks' = [tasks EXCEPT ![s] = t] /\ tasks \in [Slots -> Tasks]
  BY DEF Await, IInv, TasksOK
<1>2. tasks'[s] = t /\ \A r \in Slots : r # s => tasks'[r] = tasks[r]
  BY <1>1
<1> QED BY <1>2 DEF Proceeds

LEMMA FinishProceeds ==
    ASSUME IInv, NEW s \in Slots, NEW q, Finish(s, q),
           identities' = identities \/ Running(s),
           (epoch' = epoch /\ active' = active) \/ Running(s) \/ HandleSwitchIdentity(s)
    PROVE  Proceeds(s)
<1>1. Idle.kind \in {"init", "list", "switch"} /\ Idle.pc = "idle" /\ Idle.pc \in UnaskedPCs
  BY DEF Idle, UnaskedPCs
<1>2. Await(s, Idle, q)
  BY DEF Finish
<1> QED BY <1>1, <1>2, AwaitProceeds

LEMMA ListingProceeds ==
    ASSUME IInv, NEW s \in Slots, NEW t, NEW q,
           t.kind \in {"init", "list", "switch"}, ListConversations(s, t, q),
           identities' = identities, active' = active, epoch' = epoch
    PROVE  Proceeds(s)
<1>1. PICK id : id = ActiveOf(identities, active)
  OBVIOUS
<1>2. PICK u : u = [Started(t.kind) EXCEPT !.pc = "sync", !.id = id]
  OBVIOUS
<1>3. u.kind = t.kind /\ u.pc = "sync" /\ u.pc \in UnaskedPCs
  BY <1>2 DEF Started, Idle, UnaskedPCs
<1>4. Finish(s, Append(q, ErrorMsg)) \/ Await(s, u, q)
  BY <1>1, <1>2 DEF ListConversations, ForActive
<1>5. CASE Finish(s, Append(q, ErrorMsg))
  BY <1>5, FinishProceeds
<1>6. CASE Await(s, u, q)
  BY <1>3, <1>6, AwaitProceeds
<1> QED BY <1>4, <1>5, <1>6

\* The identities are assigned and the list of them is collected.
LEMMA AssignProceeds ==
    ASSUME IInv, ~poisoned, NEW s \in Slots, NEW t,
           t.kind \in {"init", "list", "switch"}, NEW ids, NEW at,
           Assign(s, t, ids, at), ids = identities \/ Running(s),
           Running(s) \/ HandleSwitchIdentity(s)
    PROVE  Proceeds(s)
<1>1. identities' = ids /\ active' = at /\ Collect(s, t, ids, at, epoch')
  BY DEF Assign
<1>2. CASE ids = <<>>
  <2>1. Finish(s, <<IdentityListMsg(<<>>, at, epoch'), ErrorMsg>>)
    BY <1>1, <1>2 DEF Collect
  <2> QED BY <1>1, <2>1, FinishProceeds
<1>3. CASE ids # <<>>
  <2>1. PICK u : u = [Started(t.kind) EXCEPT !.pc = "addresses", !.id = ids[1],
                         !.at = at, !.n = Len(ids), !.ver = epoch']
    OBVIOUS
  <2>2. Await(s, u, <<>>)
    BY <1>1, <1>3, <2>1 DEF Collect
  <2>3. u.kind = t.kind /\ u.pc = "addresses" /\ u.n = Len(ids) /\ u.ver = epoch'
    BY <2>1 DEF Started, Idle
  <2>4. "addresses" \in UnaskedPCs
    BY DEF UnaskedPCs
  <2> QED BY <1>1, <2>2, <2>3, <2>4, AwaitProceeds
<1> QED BY <1>2, <1>3

LEMMA StartRoundProceeds ==
    ASSUME IInv, NEW s \in Slots, NEW keys, NEW round, StartRound(s, keys, round),
           identities' = identities, active' = active, epoch' = epoch
    PROVE  Proceeds(s)
<1>1. PICK u : u = [Started("init") EXCEPT
                       !.pc = IF keys = <<>> THEN "make" ELSE "load",
                       !.keys = keys, !.todo = keys, !.round = round]
  OBVIOUS
<1>2. Await(s, u, <<>>)
  BY <1>1 DEF StartRound
<1>3. u.kind = "init" /\ u.pc \in {"make", "load"}
  BY <1>1 DEF Started, Idle
<1>4. u.pc \in UnaskedPCs /\ u.pc # "addresses"
  BY <1>3 DEF UnaskedPCs
<1> QED BY <1>2, <1>3, <1>4, AwaitProceeds

LEMMA RoundProceeds ==
    ASSUME IInv, ~poisoned, NEW s \in Slots, Running(s),
           tasks[s].kind \in {"init", "list", "switch"}, NEW found, RoundEnds(s, tasks[s], found)
    PROVE  Proceeds(s)
<1>1. CASE found # <<>>
  <2>1. Assign(s, tasks[s], found, 0)
    BY <1>1 DEF RoundEnds
  <2> QED BY <2>1, AssignProceeds
<1>2. CASE found = <<>>
  <2>1. PICK u : u = [tasks[s] EXCEPT !.pc = "backoff", !.got = <<>>, !.todo = <<>>]
    OBVIOUS
  <2>2. \/ Finish(s, <<Reply("connection_error", NoId)>>)
        \/ Await(s, u, <<>>)
    BY <1>2, <2>1 DEF RoundEnds
  <2>3. UNCHANGED <<identities, active, epoch>>
    BY <1>2 DEF RoundEnds
  <2>4. tasks[s] \in Tasks
    BY TaskType
  <2>5. u.kind = tasks[s].kind /\ u.pc = "backoff" /\ u.pc \in UnaskedPCs
    BY <2>1, <2>4 DEF Tasks, UnaskedPCs
  <2>6. CASE Finish(s, <<Reply("connection_error", NoId)>>)
    BY <2>3, <2>6, FinishProceeds
  <2>7. CASE Await(s, u, <<>>)
    BY <2>3, <2>5, <2>7, AwaitProceeds
  <2> QED BY <2>2, <2>6, <2>7
<1> QED BY <1>1, <1>2

LEMMA DispatchProceeds ==
    ASSUME IInv, Untouched, NEW s \in Slots, Dispatch(s)
    PROVE  /\ Proceeds(s) /\ ~poisoned'
           /\ inbox # <<>> /\ inbox' = Tail(inbox)
           /\ Head(inbox).kind = "switch" => HandleSwitchIdentity(s)
<1> USE DEF Untouched
<1>1. PICK r : r = Head(inbox)
  OBVIOUS
<1>2. inbox # <<>> => r.kind \in {"init", "retry", "list", "switch"}
  <2> HAVE inbox # <<>>
  <2>1. inbox \in Seq(Requests)
    BY DEF IInv, InboxOK
  <2>2. Len(inbox) \in Nat \ {0} /\ r = inbox[1]
    BY <1>1, <2>1, HeadTailProperties, LenProperties, EmptySeq
  <2> QED BY <2>2
<1>3. \A kind : Takes(s, kind) => inbox # <<>> /\ inbox' = Tail(inbox) /\ r.kind = kind
  BY <1>1 DEF Takes
<1>4. CASE HandleInit(s)
  <2>1. Takes(s, "init") /\ StartRound(s, params', 0)
        /\ UNCHANGED <<identities, active, poisoned, epoch>>
    BY <1>4 DEF HandleInit
  <2> QED BY <1>1, <1>3, <2>1, StartRoundProceeds
<1>5. CASE HandleRetry(s)
  <2>1. Takes(s, "retry") /\ StartRound(s, params, 0)
        /\ UNCHANGED <<identities, active, poisoned, epoch>>
    BY <1>5 DEF HandleRetry
  <2> QED BY <1>1, <1>3, <2>1, StartRoundProceeds
<1>6. CASE HandleList(s)
  <2>1. Takes(s, "list") /\ ListConversations(s, Started("list"), <<>>)
        /\ UNCHANGED <<identities, active, poisoned, epoch>>
    BY <1>6 DEF HandleList
  <2>2. Started("list").kind = "list"
    BY DEF Started, Idle
  <2> QED BY <1>1, <1>3, <2>1, <2>2, ListingProceeds
<1>7. CASE HandleSwitchIdentity(s)
  <2>1. PICK at : at = IF Head(inbox).idx < Len(identities) THEN Head(inbox).idx ELSE active
    OBVIOUS
  <2>2. Takes(s, "switch") /\ Assign(s, Started("switch"), identities, at)
        /\ poisoned' = poisoned
    BY <1>7, <2>1 DEF HandleSwitchIdentity
  <2>3. Started("switch").kind = "switch"
    BY DEF Started, Idle
  <2>4. Proceeds(s)
    BY <1>7, <2>2, <2>3, AssignProceeds
  <2> QED BY <1>3, <1>7, <2>2, <2>4
<1>8. CASE \/ HandleCreateIdentity(s) \/ HandleRestoreIdentity(s)
           \/ HandleRemoveIdentity(s) \/ HandleAddress(s) \/ HandleConsent(s)
  BY <1>2, <1>3, <1>8
     DEF HandleCreateIdentity, HandleRestoreIdentity, HandleRemoveIdentity,
         HandleAddress, HandleConsent
<1>9. CASE HandleForActive(s)
  <2>1. PICK kind \in DOMAIN FirstCall : Takes(s, kind)
    BY <1>9 DEF HandleForActive
  <2>2. kind \in {"act", "role", "members", "messages", "send"}
    BY DEF FirstCall
  <2> QED BY <1>2, <1>3, <2>1, <2>2
<1> QED BY <1>4, <1>5, <1>6, <1>7, <1>8, <1>9 DEF Dispatch

LEMMA ResumeProceeds ==
    ASSUME IInv, Untouched, NEW s \in Slots, Resume(s)
    PROVE  Proceeds(s) /\ ~poisoned' /\ inbox' = inbox
<1> USE DEF Untouched
<1>1. PICK t : t = tasks[s]
  OBVIOUS
<1>2. t \in Tasks /\ TaskOK(t) /\ t.kind \in {"init", "list", "switch"}
      /\ t.pc \in UnaskedPCs /\ (t.pc = "addresses" => t.n = Len(identities))
  BY <1>1, TaskType DEF Unasked
<1>3. CASE KeyLoaded(s)
  <2>1. t.pc = "load" /\ Running(s) /\ UNCHANGED <<poisoned, inbox>>
    BY <1>1, <1>3 DEF KeyLoaded, Running, Starting
  <2>2. PICK got \in FromKeyHex(t) :
           IF Len(t.todo) > 1
           THEN /\ Await(s, [t EXCEPT !.got = got, !.todo = Tail(t.todo)], <<>>)
                /\ UNCHANGED <<identities, active, epoch>>
           ELSE RoundEnds(s, t, got)
    BY <1>1, <1>3 DEF KeyLoaded
  <2>3. PICK u : u = [t EXCEPT !.got = got, !.todo = Tail(t.todo)]
    OBVIOUS
  <2>4. u.kind = t.kind /\ u.pc = "load" /\ u.pc \in UnaskedPCs
    BY <1>2, <2>1, <2>3 DEF Tasks
  <2>5. CASE Len(t.todo) > 1
    <3>1. Await(s, u, <<>>) /\ UNCHANGED <<identities, active, epoch>>
      BY <2>2, <2>3, <2>5
    <3>2. Proceeds(s)
      BY <1>2, <2>4, <3>1, AwaitProceeds
    <3> QED BY <2>1, <3>2
  <2>6. CASE ~(Len(t.todo) > 1)
    <3>1. RoundEnds(s, tasks[s], got)
      BY <1>1, <2>2, <2>6
    <3>2. Proceeds(s)
      BY <1>1, <1>2, <2>1, <3>1, RoundProceeds
    <3> QED BY <2>1, <3>2
  <2> QED BY <2>5, <2>6
<1>4. CASE FirstIdentityMade(s)
  <2>1. Running(s) /\ UNCHANGED <<poisoned, inbox>>
    BY <1>1, <1>4 DEF FirstIdentityMade, Running, Starting
  <2>2. \E found : RoundEnds(s, tasks[s], found)
    BY <1>4 DEF FirstIdentityMade
  <2>3. Proceeds(s)
    BY <1>1, <1>2, <2>1, <2>2, RoundProceeds
  <2> QED BY <2>1, <2>3
<1>5. CASE BackoffElapsed(s)
  <2>1. StartRound(s, t.keys, t.round + 1)
        /\ UNCHANGED <<identities, active, epoch, poisoned, inbox>>
    BY <1>1, <1>5 DEF BackoffElapsed
  <2>2. Proceeds(s)
    BY <2>1, StartRoundProceeds
  <2> QED BY <2>1, <2>2
<1>6. CASE NextIdentity(s)
  <2>1. PICK u : u = [t EXCEPT !.got = Collected(t), !.id = identities[Len(t.got) + 2]]
    OBVIOUS
  <2>2. t.pc = "addresses" /\ Await(s, u, <<>>)
        /\ UNCHANGED <<identities, active, epoch, poisoned, inbox>>
    BY <1>1, <1>6, <2>1 DEF NextIdentity
  <2>3. u.kind = t.kind /\ u.pc = t.pc /\ u.n = t.n /\ u.ver = t.ver
    BY <1>2, <2>1 DEF Tasks
  <2>4. Proceeds(s)
    BY <1>1, <1>2, <2>2, <2>3, AwaitProceeds DEF Collects
  <2> QED BY <2>2, <2>4
<1>7. CASE IndexPanics(s)
  <2>1. t.pc = "addresses" /\ Len(t.got) + 2 <= t.n /\ Len(t.got) + 2 > Len(identities)
    BY <1>1, <1>7 DEF IndexPanics
  <2>2. t.n = Len(identities) /\ Len(t.got) \in Nat /\ Len(identities) \in Nat
    BY <1>2, <2>1, LenProperties DEF Tasks, IInv, StateOK
  <2> QED BY <2>1, <2>2
<1>8. CASE PostIdentityList(s)
  <2>1. PICK q : q = <<IdentityListMsg(Collected(t), t.at, t.ver)>>
    OBVIOUS
  <2>2. /\ Finish(s, q) \/ ListConversations(s, t, q)
        /\ UNCHANGED <<identities, active, epoch, poisoned, inbox>>
    BY <1>1, <1>8, <2>1 DEF PostIdentityList, PostList
  <2>3. CASE Finish(s, q)
    BY <2>2, <2>3, FinishProceeds
  <2>4. CASE ListConversations(s, t, q)
    BY <1>2, <2>2, <2>4, ListingProceeds
  <2> QED BY <2>2, <2>3, <2>4
<1>9. CASE ConversationsListed(s)
  <2>1. /\ \E q : Finish(s, q)
        /\ UNCHANGED <<identities, active, epoch, poisoned, inbox>>
    BY <1>9 DEF ConversationsListed
  <2>2. Proceeds(s)
    BY <2>1, FinishProceeds
  <2> QED BY <2>1, <2>2
<1>10. CASE \/ IdentityCreated(s) \/ IdentityRestored(s) \/ ReplacementMade(s)
            \/ GroupActionDone(s) \/ RoleChangeDone(s) \/ MembersListed(s)
            \/ MessageSent(s) \/ MessagesFetched(s)
  BY <1>1, <1>2, <1>10
     DEF UnaskedPCs, IdentityCreated, IdentityRestored, ReplacementMade,
         GroupActionDone, RoleChangeDone, MembersListed, MessageSent,
         MessagesFetched
<1> QED BY <1>3, <1>4, <1>5, <1>6, <1>7, <1>8, <1>9, <1>10 DEF Resume

\* What is selected does not depend on the list but for its members.
LEMMA SelectedMember ==
    ASSUME IInv, saved \in ToSet(identities)
    PROVE  /\ saved \in Ids /\ saved # NoId
           /\ \A k : ActiveOf(identities, k) = saved =>
                        k < Len(identities)
<1>1. identities \in Seq(Ids)
  BY DEF IInv, StateOK
<1>2. ToSet(identities) = {identities[i] : i \in 1..Len(identities)}
  BY DEF ToSet
<1>3. \A i \in 1..Len(identities) : identities[i] \in Ids
  BY <1>1, ElementOfSeq
<1>4. saved \in Ids /\ saved # NoId
  BY <1>2, <1>3, NoIdAssumption
<1> QED BY <1>4 DEF ActiveOf

\* A handler goes on: before the first list nothing but the start assigns the
\* identities, after it nothing but the switch that was queued.
LEMMA WorkerSelects ==
    ASSUME PageInv, Phase, SelectOK, NEW s \in Slots, Dispatch(s) \/ Resume(s),
           UNCHANGED ownVars
    PROVE  SelectOK'
<1> USE DEF PageInv
<1>1. /\ Untouched /\ (SomeStart => firstList) /\ (ReadyScreen => ~firstList)
      /\ (firstList => BeforeFirst) /\ ~poisoned
  BY DEF SelectOK, Untouched
<1>2. /\ Proceeds(s) /\ ~poisoned'
      /\ inbox' = inbox \/ (inbox # <<>> /\ inbox' = Tail(inbox))
  BY <1>1, DispatchProceeds, ResumeProceeds
<1>3. UNCHANGED <<firstList, saved, lastActive, acted>> /\ UNCHANGED pageVars
  BY DispatchTells, ResumeTells DEF ownVars, storage, display, history
<1>4. \A i \in 1..Len(inbox') : \E k \in 1..Len(inbox) : inbox'[i] = inbox[k]
  BY <1>2, QueueShrinks
<1>5. Running(s) =>
         /\ firstList /\ \A r \in Slots : r # s => ~Collects(r)
         /\ \A i \in 1..Len(outbox) : ~IsList(outbox[i])
  <2> HAVE Running(s)
  <2>1. SomeStart /\ Calm /\ \A r \in Slots : Running(r) => r = s
    BY RunningAlone
  <2>2. \A r \in Slots : r # s => tasks[r] = Idle
    BY <2>1 DEF Calm
  <2>3. Idle.pc # "addresses"
    BY DEF Idle
  <2>4. \A r \in Slots : r # s => ~Collects(r)
    BY <2>2, <2>3 DEF Collects
  <2> QED BY <1>1, <2>1, <2>4, NoScreenYet
<1>6. Untouched'
  <2>1. \A i \in 1..Len(inbox') :
           inbox'[i].kind \in {"init", "retry", "list", "switch"}
    BY <1>1, <1>4 DEF Untouched
  <2>2. ASSUME NEW r \in Slots PROVE Unasked(tasks[r])'
    <3>1. CASE r = s
      BY <1>2, <3>1 DEF Proceeds, Unasked
    <3>2. CASE r # s
      <4>1. tasks'[r] = tasks[r] /\ Unasked(tasks[r])
        BY <1>1, <1>2, <3>2 DEF Proceeds, Untouched
      <4>2. identities' = identities \/ tasks[r].pc # "addresses"
        BY <1>2, <1>5, <3>2 DEF Proceeds, Collects
      <4> QED BY <4>1, <4>2 DEF Unasked
    <3> QED BY <3>1, <3>2
  <2> QED BY <1>2, <2>1, <2>2 DEF Untouched
<1>7. ASSUME firstList PROVE BeforeFirst'
  <2>1. BeforeFirst
    BY <1>1, <1>7
  <2>2. ~SwitchQueued' /\ lastActive' = saved'
    BY <1>3, <1>4, <2>1 DEF BeforeFirst, SwitchQueued
  <2>3. ~HandleSwitchIdentity(s)
    <3> SUFFICES ASSUME HandleSwitchIdentity(s) PROVE FALSE
      OBVIOUS
    <3>1. Takes(s, "switch")
      BY DEF HandleSwitchIdentity
    <3>2. 1 \in 1..Len(inbox) /\ inbox[1].kind = "switch"
      BY <3>1, TakesShifts
    <3> QED BY <2>1, <3>2 DEF BeforeFirst, SwitchQueued
  <2>4. epoch' = epoch \/ Running(s)
    BY <1>2, <2>3 DEF Proceeds
  <2>5. ASSUME NEW r \in Slots, Collects(r)' PROVE tasks'[r].ver = epoch'
    <3>1. CASE r = s
      BY <1>2, <2>1, <2>5, <3>1 DEF Proceeds, Collects, BeforeFirst
    <3>2. CASE r # s
      <4>1. tasks'[r] = tasks[r] /\ Collects(r)
        BY <1>2, <2>5, <3>2 DEF Proceeds, Collects
      <4>2. epoch' = epoch
        BY <1>5, <2>4, <3>2, <4>1
      <4> QED BY <2>1, <4>1, <4>2 DEF BeforeFirst
    <3> QED BY <3>1, <3>2
  <2>6. ~Torn
    BY <2>1 DEF BeforeFirst, Torn, Collects
  <2>7. Posts(s)
    BY <1>1, <2>6, DispatchCarries, ResumeCarries DEF Carries
  <2>8. ASSUME NEW i \in 1..Len(outbox'), IsList(outbox'[i])
        PROVE  outbox'[i].ver = epoch'
    <3>1. Len(outbox) \in Nat /\ i \in Nat
      BY LenProperties DEF IInv, OutboxOK
    <3>2. CASE i > Len(outbox)
      BY <2>7, <2>8, <3>2 DEF Posts
    <3>3. CASE i <= Len(outbox)
      <4>1. i \in 1..Len(outbox)
        BY <3>1, <3>3
      <4>2. outbox'[i] = outbox[i]
        BY <2>7, <4>1 DEF Posts
      <4>3. epoch' = epoch
        BY <1>5, <2>4, <2>8, <4>1, <4>2
      <4> QED BY <2>1, <2>8, <4>1, <4>2, <4>3 DEF BeforeFirst
    <3> QED BY <3>1, <3>2, <3>3
  <2> QED BY <2>2, <2>5, <2>8 DEF BeforeFirst
<1>8. ASSUME ~firstList, saved \in ToSet(identities') PROVE Restored'
  <2>1. identities' = identities /\ ~Running(s)
    BY <1>2, <1>5, <1>8 DEF Proceeds
  <2>2. Restored
    BY <1>8, <2>1 DEF SelectOK
  <2>3. saved # NoId /\ \A k : ActiveOf(identities, k) = saved => k < Len(identities)
    BY <1>8, <2>1, SelectedMember
  <2>4. ASSUME NEW i \in 1..Len(inbox'), inbox'[i].kind = "switch"
        PROVE  ActiveOf(identities', inbox'[i].idx) = saved'
    <3>1. PICK k \in 1..Len(inbox) : inbox'[i] = inbox[k]
      BY <1>4
    <3> QED BY <1>3, <2>1, <2>2, <2>4, <3>1 DEF Restored
  <2>5. CASE HandleSwitchIdentity(s)
    <3>1. inbox # <<>> /\ Head(inbox) = inbox[1] /\ 1 \in 1..Len(inbox)
          /\ Head(inbox).kind = "switch"
      <4>1. Takes(s, "switch")
        BY <2>5 DEF HandleSwitchIdentity
      <4>2. 1 \in 1..Len(inbox) /\ inbox # <<>> /\ Head(inbox).kind = "switch"
        BY <4>1, TakesShifts DEF Takes
      <4> QED BY <4>2, HeadTailProperties DEF IInv, InboxOK
    <3>2. ActiveOf(identities, Head(inbox).idx) = saved
      BY <2>2, <3>1 DEF Restored
    <3>3. Head(inbox).idx < Len(identities)
      BY <2>3, <3>2
    <3>4. active' = Head(inbox).idx
      BY <1>1, <2>5, <3>3 DEF HandleSwitchIdentity, Assign
    <3>5. ActiveOf(identities', active') = saved'
      BY <1>3, <2>1, <3>2, <3>4
    <3> QED BY <2>4, <3>5 DEF Restored
  <2>6. CASE ~HandleSwitchIdentity(s)
    <3>1. active' = active
      BY <1>2, <2>1, <2>6 DEF Proceeds
    <3>2. CASE ActiveOf(identities, active) = saved
      BY <1>3, <2>1, <2>4, <3>1, <3>2 DEF Restored
    <3>3. CASE SwitchQueued
      <4>1. inbox' = inbox \/ (inbox' = Tail(inbox) /\ inbox # <<>>
                                 /\ Head(inbox).kind # "switch")
        BY <1>1, <2>6, DispatchProceeds, ResumeProceeds
      <4>2. PICK i \in 1..Len(inbox) : inbox[i].kind = "switch"
        BY <3>3 DEF SwitchQueued
      <4>3. SwitchQueued'
        <5>1. CASE inbox' = inbox
          BY <4>2, <5>1 DEF SwitchQueued
        <5>2. CASE inbox' = Tail(inbox) /\ inbox # <<>> /\ Head(inbox).kind # "switch"
          <6>1. /\ Head(inbox) = inbox[1] /\ Len(inbox) \in Nat
                /\ Len(inbox') = Len(inbox) - 1
                /\ \A j \in 1..Len(inbox') : inbox'[j] = inbox[j + 1]
            BY <5>2, HeadTailProperties, LenProperties DEF IInv, InboxOK
          <6>2. i # 1
            BY <4>2, <5>2, <6>1
          <6>3. i - 1 \in 1..Len(inbox')
            BY <6>1, <6>2
          <6>4. inbox'[i - 1] = inbox[i]
            BY <6>1, <6>3
          <6> QED BY <4>2, <6>3, <6>4 DEF SwitchQueued
        <5> QED BY <4>1, <5>1, <5>2
      <4> QED BY <2>4, <4>3 DEF Restored
    <3> QED BY <2>2, <3>2, <3>3 DEF Restored
  <2> QED BY <2>5, <2>6
<1>9. SomeStart' => SomeStart
  BY NoneStays DEF Next
<1> QED BY <1>1, <1>3, <1>6, <1>7, <1>8, <1>9 DEF SelectOK, ReadyScreen, pageVars

\* A set of natural numbers has a least one.
LEMMA Least ==
    ASSUME NEW S \in SUBSET Nat, S # {}
    PROVE  \E m \in S : \A n \in S : m <= n
<1> DEFINE R == OpToRel(<, Nat)
<1>1. IsWellFoundedOn(R, Nat)
  BY NatLessThanWellFounded
<1>2. IsWellFoundedOn(R, S)
  BY <1>1, IsWellFoundedOnSubset
<1>3. \A m, n \in Nat : n < m => <<n, m>> \in R
  BY DEF OpToRel
<1> HIDE DEF R
<1>4. \E m \in S : \A n \in S : ~(<<n, m>> \in R)
  BY <1>2, WFMin
<1>5. PICK m \in S : \A n \in S : ~(<<n, m>> \in R)
  BY <1>4
<1>6. ASSUME NEW n \in S PROVE m <= n
  <2>1. m \in Nat /\ n \in Nat /\ ~(n < m)
    BY <1>3, <1>5
  <2> QED BY <2>1
<1> QED BY <1>6

\* The positions at which the last session's identity may be found.
LEMMA RestoreFinds ==
    ASSUME PageInv, firstList, lastActive = saved, saved \in ToSet(identities),
           NEW m, m.list = identities, m.active = active
    PROVE  /\ \A i \in ToRestore(m) : ActiveOf(identities, i - 1) = saved
           /\ ToRestore(m) = {} => ActiveOf(identities, active) = saved
<1>1. /\ identities \in Seq(Ids) /\ Len(identities) \in Nat /\ active \in Nat
      /\ active < Len(identities) \/ identities = <<>>
  BY LenProperties DEF PageInv, IInv, StateOK, ActiveInRange
<1>2. Sought(m) = {i \in 1..Len(identities) : identities[i] = saved}
  BY DEF Sought
<1>3. ToSet(identities) = {identities[i] : i \in 1..Len(identities)}
  BY DEF ToSet
<1>4. PICK k : k \in Sought(m)
  BY <1>2, <1>3
<1>5. PICK i \in Sought(m) : \A j \in Sought(m) : i <= j
  <2>1. Sought(m) \in SUBSET Nat /\ Sought(m) # {}
    BY <1>1, <1>2, <1>4
  <2> QED BY <2>1, Least
<1>6. ASSUME NEW j \in ToRestore(m) PROVE ActiveOf(identities, j - 1) = saved
  <2>1. j \in 1..Len(identities) /\ identities[j] = saved
    BY <1>2 DEF ToRestore
  <2>2. j - 1 < Len(identities) /\ (j - 1) + 1 = j
    BY <1>1, <2>1
  <2> QED BY <2>1, <2>2 DEF ActiveOf
<1>7. ASSUME ToRestore(m) = {} PROVE ActiveOf(identities, active) = saved
  <2>1. i = active + 1
    BY <1>5, <1>7 DEF ToRestore
  <2>2. identities[active + 1] = saved /\ active + 1 \in 1..Len(identities)
    BY <1>2, <1>5, <2>1
  <2>3. active < Len(identities)
    BY <1>1, <2>2
  <2> QED BY <2>2, <2>3 DEF ActiveOf
<1> QED BY <1>6, <1>7

\* The first list, and with it the switch back; later lists change nothing.
LEMMA ListSelects ==
    ASSUME PageInv, Phase, SelectOK, IdentityListArrives
    PROVE  SelectOK'
<1> USE DEF PageInv
<1>1. PICK m : m = Head(outbox)
  OBVIOUS
<1>2. /\ outbox # <<>> /\ IsList(m) /\ outbox' = Tail(outbox)
      /\ firstList' = FALSE /\ saved' = saved
      /\ inbox' = inbox \o SetToSeq(SwitchBack(m))
                        \o <<Req("list", 0, NoId, <<>>)>>
      /\ UNCHANGED <<identities, active, poisoned, tasks, epoch>>
  BY <1>1 DEF IdentityListArrives, IsList, workerVars
<1>3. m \in Messages /\ MessageOK(m) /\ m = outbox[1] /\ 1 \in 1..Len(outbox)
  <2>1. UNCHANGED workerVars /\ sent' \in Nat
        /\ screen' \in {"loading", "ready", "offline"}
    BY DEF IdentityListArrives, IInv, StateOK
  <2>2. m \in Messages /\ MessageOK(m)
    BY <1>1, <1>2, <2>1, DeliveryKeeps
  <2>3. outbox \in Seq(Messages)
    BY DEF IInv, OutboxOK
  <2> QED BY <1>1, <1>2, <2>2, <2>3, HeadTailProperties, LenProperties, EmptySeq
<1>4. ~SomeStart'
  BY ListKeepsToken
<1>5. PICK p : p = SetToSeq(SwitchBack(m))
  OBVIOUS
<1>6. PICK l : l = Req("list", 0, NoId, <<>>)
  OBVIOUS
<1>7. m.list \in Seq(Ids) /\ lastActive \in Ids \cup {NoId}
  BY <1>3 DEF PageTypeOK, Messages
<1>8. /\ p \in Seq(Requests) /\ Len(p) \in Nat
      /\ \A k \in 1..Len(p) : p[k].kind = "switch"
  BY <1>5, <1>7, AnswersType
<1>9. l \in Requests /\ l.kind = "list"
  BY <1>6, EmptySeq DEF Req, Requests, Kinds
<1>10. inbox \in Seq(Requests) /\ Len(inbox) \in Nat /\ inbox' = (inbox \o p) \o <<l>>
  BY <1>2, <1>5, <1>6, LenProperties DEF IInv, InboxOK
<1>11. PICK q : q = inbox \o p
  OBVIOUS
<1>12. /\ q \in Seq(Requests) /\ Len(q) = Len(inbox) + Len(p)
       /\ \A i \in 1..Len(inbox) + Len(p) :
             q[i] = IF i <= Len(inbox) THEN inbox[i] ELSE p[i - Len(inbox)]
  BY <1>8, <1>10, <1>11, ConcatProperties
<1>13. /\ Len(inbox') = Len(q) + 1 /\ inbox'[Len(q) + 1] = l
       /\ \A i \in 1..Len(q) : inbox'[i] = q[i]
  <2>1. inbox' = Append(q, l)
    BY <1>9, <1>10, <1>11, <1>12
  <2> QED BY <1>9, <1>12, <2>1, AppendProperties
<1>14. ASSUME NEW i \in 1..Len(inbox')
       PROVE  \/ inbox'[i] = l
              \/ \E k \in 1..Len(inbox) : inbox'[i] = inbox[k]
              \/ \E k \in 1..Len(p) : inbox'[i] = p[k]
  <2>1. Len(q) \in Nat /\ i \in 1..Len(q) + 1
    BY <1>8, <1>10, <1>12, <1>13
  <2>2. CASE i = Len(q) + 1
    BY <1>13, <2>2
  <2>3. CASE i # Len(q) + 1
    <3>1. i \in 1..Len(q)
      BY <2>1, <2>3
    <3>2. /\ i \in 1..Len(inbox) + Len(p) /\ inbox'[i] = q[i]
          /\ q[i] = IF i <= Len(inbox) THEN inbox[i] ELSE p[i - Len(inbox)]
      <4>1. i \in 1..Len(inbox) + Len(p)
        BY <1>12, <3>1
      <4> QED BY <1>12, <1>13, <3>1, <4>1
    <3>3. i \in 1..Len(inbox) \/ (~(i <= Len(inbox)) /\ i - Len(inbox) \in 1..Len(p))
      BY <1>8, <1>10, <3>2
    <3>4. CASE i \in 1..Len(inbox)
      BY <3>2, <3>4
    <3>5. CASE ~(i <= Len(inbox)) /\ i - Len(inbox) \in 1..Len(p)
      BY <3>2, <3>5
    <3> QED BY <3>3, <3>4, <3>5
  <2> QED BY <2>2, <2>3
<1>15. Untouched'
  <2>1. \A i \in 1..Len(inbox') : inbox'[i].kind \in {"init", "retry", "list", "switch"}
    <3> SUFFICES ASSUME NEW i \in 1..Len(inbox')
                 PROVE  inbox'[i].kind \in {"init", "retry", "list", "switch"}
      OBVIOUS
    <3>1. \A k \in 1..Len(inbox) : inbox[k].kind \in {"init", "retry", "list", "switch"}
      BY DEF SelectOK, Untouched
    <3> QED BY <1>8, <1>9, <1>14, <3>1
  <2>2. \A s \in Slots : Unasked(tasks[s])'
    BY <1>2 DEF SelectOK, Untouched, Unasked
  <2> QED BY <1>2, <2>1, <2>2 DEF SelectOK, Untouched
<1>16. ASSUME saved \in ToSet(identities) PROVE Restored'
  <2>1. CASE firstList
    <3>1. BeforeFirst
      BY <2>1 DEF SelectOK
    <3>2. m.list = identities /\ m.active = active
      BY <1>2, <1>3, <3>1 DEF BeforeFirst, MessageOK, IsList
    <3>3. /\ \A i \in ToRestore(m) : ActiveOf(identities, i - 1) = saved
          /\ ToRestore(m) = {} => ActiveOf(identities, active) = saved
      BY <1>16, <2>1, <3>1, <3>2, RestoreFinds DEF BeforeFirst
    <3>4. \A k \in 1..Len(p) : ActiveOf(identities, p[k].idx) = saved
      <4>1. CASE ToRestore(m) = {}
        <5>1. p = <<>>
          BY <1>5, <1>7, <4>1, AnswersType, OneInSequence
        <5> QED BY <5>1
      <4>2. CASE ToRestore(m) # {}
        <5>1. PICK i \in ToRestore(m) :
                 p = <<Req("switch", i - 1, lastActive, <<>>)>>
          BY <1>5, <1>7, <4>2, AnswersType
        <5>2. PICK r : r = Req("switch", i - 1, lastActive, <<>>)
          OBVIOUS
        <5>3. r.idx = i - 1 /\ p = <<r>>
          BY <5>1, <5>2 DEF Req
        <5>4. \A k \in 1..Len(p) : p[k] = r
          BY <5>3
        <5> QED BY <3>3, <5>3, <5>4
      <4> QED BY <4>1, <4>2
    <3>5. \A i \in 1..Len(inbox') :
             inbox'[i].kind = "switch" => ActiveOf(identities, inbox'[i].idx) = saved
      <4> SUFFICES ASSUME NEW i \in 1..Len(inbox'), inbox'[i].kind = "switch"
                   PROVE  ActiveOf(identities, inbox'[i].idx) = saved
        OBVIOUS
      <4>1. \A k \in 1..Len(inbox) : inbox[k].kind # "switch"
        BY <3>1 DEF BeforeFirst, SwitchQueued
      <4> QED BY <1>9, <1>14, <3>4, <4>1
    <3>6. ActiveOf(identities, active) = saved \/ SwitchQueued'
      <4> SUFFICES ASSUME ToRestore(m) # {} PROVE SwitchQueued'
        BY <3>3
      <4>1. Len(p) = 1
        BY <1>5, <1>7, AnswersType
      <4>2. Len(inbox) + 1 \in 1..Len(q) /\ q[Len(inbox) + 1] = p[1]
        <5>1. Len(inbox) + 1 \in 1..Len(inbox) + Len(p)
              /\ ~(Len(inbox) + 1 <= Len(inbox)) /\ Len(inbox) + 1 - Len(inbox) = 1
          BY <1>10, <4>1
        <5> QED BY <1>12, <5>1
      <4>3. Len(inbox) + 1 \in 1..Len(inbox') /\ inbox'[Len(inbox) + 1] = p[1]
        BY <1>8, <1>10, <1>12, <1>13, <4>2
      <4> QED BY <1>8, <4>1, <4>3 DEF SwitchQueued
    <3> QED BY <1>2, <3>5, <3>6 DEF Restored
  <2>2. CASE ~firstList
    <3>1. Restored
      BY <1>16, <2>2 DEF SelectOK
    <3>2. p = <<>>
      <4>1. ToRestore(m) = {}
        BY <2>2 DEF ToRestore, Sought
      <4> QED BY <1>5, <1>7, <4>1, AnswersType, OneInSequence
    <3>3. \A i \in 1..Len(inbox') :
             inbox'[i].kind = "switch" => ActiveOf(identities, inbox'[i].idx) = saved
      <4> SUFFICES ASSUME NEW i \in 1..Len(inbox'), inbox'[i].kind = "switch"
                   PROVE  ActiveOf(identities, inbox'[i].idx) = saved
        OBVIOUS
      <4>1. 1..Len(p) = {}
        BY <3>2
      <4> QED BY <1>9, <1>14, <3>1, <4>1 DEF Restored
    <3>4. SwitchQueued => SwitchQueued'
      <4> SUFFICES ASSUME NEW i \in 1..Len(inbox), inbox[i].kind = "switch"
                   PROVE  SwitchQueued'
        BY DEF SwitchQueued
      <4>1. i \in 1..Len(inbox) + Len(p) /\ i <= Len(inbox)
        BY <1>8, <1>10
      <4>2. i \in 1..Len(q) /\ q[i] = inbox[i]
        BY <1>12, <4>1
      <4>3. i \in 1..Len(inbox') /\ inbox'[i] = inbox[i]
        BY <1>8, <1>10, <1>12, <1>13, <4>2
      <4> QED BY <4>3 DEF SwitchQueued
    <3> QED BY <1>2, <3>1, <3>3, <3>4 DEF Restored
  <2> QED BY <2>1, <2>2
<1> QED BY <1>2, <1>4, <1>15, <1>16 DEF SelectOK

\* Another message, and the retry button, leave what is selected alone.
LEMMA SameSelection ==
    ASSUME SelectOK, IInv,
           UNCHANGED <<identities, active, poisoned, tasks, epoch>>,
           UNCHANGED <<firstList, saved, lastActive>>,
           NEW q \in Seq(Requests), inbox' = inbox \o q,
           \A i \in 1..Len(q) : q[i].kind = "retry",
           \A i \in 1..Len(outbox') : \E k \in 1..Len(outbox) : outbox'[i] = outbox[k],
           SomeStart' => SomeStart, ReadyScreen' => ReadyScreen
    PROVE  SelectOK'
<1>1. /\ Len(inbox) \in Nat /\ Len(q) \in Nat /\ Len(inbox') = Len(inbox) + Len(q)
      /\ \A i \in 1..Len(inbox) + Len(q) :
            inbox'[i] = IF i <= Len(inbox) THEN inbox[i] ELSE q[i - Len(inbox)]
  BY ConcatProperties, LenProperties DEF IInv, InboxOK
<1>2. ASSUME NEW i \in 1..Len(inbox')
      PROVE  \/ inbox'[i].kind = "retry"
             \/ \E k \in 1..Len(inbox) : inbox'[i] = inbox[k]
  <2>1. i \in 1..Len(inbox) + Len(q)
    BY <1>1
  <2>2. CASE i \in 1..Len(inbox)
    BY <1>1, <2>1, <2>2
  <2>3. CASE i \notin 1..Len(inbox)
    <3>1. ~(i <= Len(inbox)) /\ i - Len(inbox) \in 1..Len(q)
      BY <1>1, <2>1, <2>3
    <3> QED BY <1>1, <2>1, <3>1
  <2> QED BY <2>2, <2>3
<1>3. \A i \in 1..Len(inbox) : i \in 1..Len(inbox') /\ inbox'[i] = inbox[i]
  <2> SUFFICES ASSUME NEW i \in 1..Len(inbox)
               PROVE  i \in 1..Len(inbox') /\ inbox'[i] = inbox[i]
    OBVIOUS
  <2>1. i \in 1..Len(inbox) + Len(q) /\ i <= Len(inbox)
    BY <1>1
  <2> QED BY <1>1, <2>1
<1>4. SwitchQueued' <=> SwitchQueued
  <2>1. ASSUME SwitchQueued' PROVE SwitchQueued
    BY <1>2, <2>1 DEF SwitchQueued
  <2>2. ASSUME SwitchQueued PROVE SwitchQueued'
    BY <1>3, <2>2 DEF SwitchQueued
  <2> QED BY <2>1, <2>2
<1>5. Untouched'
  <2>1. \A i \in 1..Len(inbox') :
           inbox'[i].kind \in {"init", "retry", "list", "switch"}
    BY <1>2 DEF SelectOK, Untouched
  <2>2. \A s \in Slots : Unasked(tasks[s])'
    BY DEF SelectOK, Untouched, Unasked
  <2> QED BY <2>1, <2>2 DEF SelectOK, Untouched
<1>6. firstList => BeforeFirst'
  <2> HAVE firstList
  <2>1. BeforeFirst
    BY DEF SelectOK
  <2>2. \A s \in Slots : Collects(s)' => tasks'[s].ver = epoch'
    BY <2>1 DEF BeforeFirst, Collects
  <2>3. \A i \in 1..Len(outbox') : IsList(outbox'[i]) => outbox'[i].ver = epoch'
    BY <2>1 DEF BeforeFirst
  <2> QED BY <1>4, <2>1, <2>2, <2>3 DEF BeforeFirst
<1>7. ASSUME ~firstList, saved \in ToSet(identities) PROVE Restored'
  <2>1. Restored
    BY <1>7 DEF SelectOK
  <2>2. \A i \in 1..Len(inbox') :
           inbox'[i].kind = "switch" => ActiveOf(identities, inbox'[i].idx) = saved
    BY <1>2, <2>1 DEF Restored
  <2> QED BY <1>4, <2>1, <2>2 DEF Restored
<1> QED BY <1>5, <1>6, <1>7 DEF SelectOK

LEMMA OtherSelects ==
    ASSUME PageInv, Phase, SelectOK, OtherArrives
    PROVE  SelectOK'
<1> USE DEF PageInv
<1>1. /\ outbox # <<>> /\ outbox' = Tail(outbox) /\ inbox' = inbox
      /\ UNCHANGED <<identities, active, poisoned, tasks, epoch>>
      /\ UNCHANGED <<firstList, saved, lastActive>>
      /\ ReadyScreen' => ReadyScreen
  BY DEF OtherArrives, workerVars, ownVars, storage, display, history, ReadyScreen
<1>2. PICK q : q = <<>>
  OBVIOUS
<1>3. q \in Seq(Requests) /\ inbox' = inbox \o q /\ 1..Len(q) = {}
  BY <1>1, <1>2, EmptySeq DEF IInv, InboxOK
<1>4. \A i \in 1..Len(outbox') : \E k \in 1..Len(outbox) : outbox'[i] = outbox[k]
  <2>1. /\ Len(outbox) \in Nat /\ Len(outbox') = Len(outbox) - 1
        /\ \A i \in 1..Len(outbox') : outbox'[i] = outbox[i + 1]
    BY <1>1, HeadTailProperties, LenProperties DEF IInv, OutboxOK
  <2>2. \A i \in 1..Len(outbox') : i + 1 \in 1..Len(outbox)
    BY <2>1
  <2> QED BY <2>1, <2>2
<1>5. HostReceive
  BY DEF OtherArrives, HostReceive
<1>6. SomeStart' => SomeStart
  BY <1>5, NoneStays DEF Next
<1> QED BY <1>1, <1>3, <1>4, <1>6, SameSelection

LEMMA RetrySelects ==
    ASSUME PageInv, Phase, SelectOK, TapRetry
    PROVE  SelectOK'
<1> USE DEF PageInv
<1>1. /\ inbox' = Append(inbox, Req("retry", 0, NoId, <<>>)) /\ outbox' = outbox
      /\ UNCHANGED <<identities, active, poisoned, tasks, epoch>>
      /\ UNCHANGED <<firstList, saved, lastActive>>
      /\ screen' = "loading"
  BY DEF TapRetry, workerVars, ownVars, storage, display, history
<1>2. PICK r : r = Req("retry", 0, NoId, <<>>)
  OBVIOUS
<1>3. r \in Requests /\ r.kind = "retry"
  BY <1>2, EmptySeq DEF Req, Requests, Kinds
<1>4. PICK q : q = <<r>>
  OBVIOUS
<1>5. /\ q \in Seq(Requests) /\ inbox' = inbox \o q
      /\ \A i \in 1..Len(q) : q[i].kind = "retry"
  BY <1>1, <1>2, <1>3, <1>4 DEF IInv, InboxOK
<1>6. SomeStart
  BY DEF TapRetry, SomeStart, Offered
<1>7. ~ReadyScreen'
  BY <1>1 DEF ReadyScreen
<1> QED BY <1>1, <1>5, <1>6, <1>7, SameSelection

\* The dialog changes nothing the selection depends on.
LEMMA DialogSelects ==
    ASSUME PageInv, SelectOK, TapDelete \/ Cancel
    PROVE  SelectOK'
<1> USE DEF PageInv
<1>1. /\ UNCHANGED <<identities, active, poisoned, tasks, epoch, inbox, outbox, screen>>
      /\ UNCHANGED <<firstList, saved, lastActive>>
  BY DEF TapDelete, Cancel, vars, workerVars, pageVars, storage, history
<1>2. PICK q : q = <<>>
  OBVIOUS
<1>3. q \in Seq(Requests) /\ inbox' = inbox \o q /\ 1..Len(q) = {}
  BY <1>1, <1>2, EmptySeq DEF IInv, InboxOK
<1>4. SomeStart' => SomeStart
  BY <1>1 DEF SomeStart, Queued, Running, Failed, Offered
<1>5. ReadyScreen' => ReadyScreen
  BY <1>1 DEF ReadyScreen
<1> QED BY <1>1, <1>3, <1>4, <1>5, SameSelection

\* A session starts with one request, and with the identity of the last.
LEMMA FreshSelects ==
    ASSUME ~poisoned, tasks = [s \in Slots |-> Idle], outbox = <<>>,
           NEW keys, inbox = <<Req("init", 0, NoId, keys)>>,
           firstList, lastActive = saved, screen = "loading"
    PROVE  SelectOK
<1>1. \A i \in 1..Len(inbox) : inbox[i].kind = "init"
  BY DEF Req
<1>2. \A s \in Slots : Unasked(tasks[s]) /\ ~Collects(s)
  BY DEF Unasked, Idle, UnaskedPCs, Collects
<1>3. Untouched
  BY <1>1, <1>2 DEF Untouched
<1>4. BeforeFirst
  BY <1>1, <1>2 DEF BeforeFirst, SwitchQueued
<1> QED BY <1>3, <1>4 DEF SelectOK, ReadyScreen

LEMMA SelectInit == PageInit => SelectInv
<1> SUFFICES ASSUME PageInit PROVE SelectInv
  OBVIOUS
<1>1. PageInv
  BY PageInitInv
<1>2. Init
  BY DEF PageInit
<1>3. PICK keys : inbox = <<Req("init", 0, NoId, keys)>>
  BY <1>2 DEF Init
<1>4. SelectOK
  BY <1>2, <1>3, FreshSelects DEF PageInit, Init
<1> QED BY <1>1, <1>2, <1>4, PhaseInit DEF SelectInv

LEMMA SelectNext == SelectInv /\ [PageNext]_allVars => SelectInv'
<1> SUFFICES ASSUME SelectInv, [PageNext]_allVars PROVE SelectInv'
  OBVIOUS
<1>1. PageInv /\ Phase /\ (~acted => SelectOK)
  BY DEF SelectInv
<1>2. PageInv' /\ Phase'
  BY <1>1, PageNextInv, PhaseOnPage
<1>3. ASSUME ~acted' PROVE SelectOK'
  <2>1. CASE UNCHANGED allVars
    <3>1. /\ UNCHANGED <<identities, active, poisoned, tasks, epoch, inbox, outbox, screen>>
          /\ UNCHANGED <<firstList, saved, lastActive, acted>>
      BY <2>1 DEF allVars, ownVars, vars, workerVars, pageVars, storage, display, history
    <3>2. SelectOK
      BY <1>1, <1>3, <3>1
    <3> QED BY <3>1, <3>2
        DEF SelectOK, Untouched, Unasked, BeforeFirst, Restored, SwitchQueued,
            SomeStart, Queued, Running, Failed, Offered, ReadyScreen, Collects
  <2>2. CASE PageStep
    <3>1. CASE \E s \in Slots : (Dispatch(s) \/ Resume(s)) /\ UNCHANGED ownVars
      <4>1. PICK s \in Slots : (Dispatch(s) \/ Resume(s)) /\ UNCHANGED ownVars
        BY <3>1
      <4>2. SelectOK
        BY <1>1, <1>3, <4>1 DEF ownVars, history
      <4> QED BY <1>1, <4>1, <4>2, WorkerSelects
    <3>2. CASE IdentityListArrives
      <4>1. SelectOK
        BY <1>1, <1>3, <3>2 DEF IdentityListArrives
      <4> QED BY <1>1, <3>2, <4>1, ListSelects
    <3>3. CASE OtherArrives
      <4>1. SelectOK
        BY <1>1, <1>3, <3>3 DEF OtherArrives, ownVars, history
      <4> QED BY <1>1, <3>3, <4>1, OtherSelects
    <3>4. CASE AskFor \/ TapCard \/ Confirm
      BY <1>3, <3>4 DEF AskFor, TapCard, Confirm, Ask
    <3>5. CASE TapDelete \/ Cancel
      <4>1. SelectOK
        BY <1>1, <1>3, <3>5 DEF TapDelete, Cancel, history
      <4> QED BY <1>1, <3>5, <4>1, DialogSelects
    <3>6. CASE TapRetry
      <4>1. SelectOK
        BY <1>1, <1>3, <3>6 DEF TapRetry, ownVars, history
      <4> QED BY <1>1, <3>6, <4>1, RetrySelects
    <3>7. CASE Reload
      <4>1. /\ ~poisoned' /\ tasks' = [s \in Slots |-> Idle] /\ outbox' = <<>>
            /\ inbox' = <<Req("init", 0, NoId, stored)>>
            /\ firstList' /\ lastActive' = saved' /\ screen' = "loading"
        BY <3>7 DEF Reload, storage
      <4>2. \A i \in 1..Len(inbox') : inbox'[i].kind = "init"
        BY <4>1 DEF Req
      <4>3. \A s \in Slots : Unasked(tasks[s])' /\ ~Collects(s)'
        BY <4>1 DEF Unasked, Idle, UnaskedPCs, Collects
      <4>4. Untouched' /\ BeforeFirst'
        BY <4>1, <4>2, <4>3 DEF Untouched, BeforeFirst, SwitchQueued
      <4> QED BY <4>1, <4>4 DEF SelectOK, ReadyScreen
    <3> QED BY <2>2, <3>1, <3>2, <3>3, <3>4, <3>5, <3>6, <3>7 DEF PageStep
  <2> QED BY <2>1, <2>2 DEF PageNext
<1> QED BY <1>2, <1>3 DEF SelectInv

\* The identity of the last session is active again once the start is over, as
\* long as the user has done nothing (main.rs, on_identity_update: the first
\* list is searched for last_active_inbox and a switch to its position is
\* requested): whatever was loaded in whatever order, and whatever retries and
\* polls were under way, that position still is this identity's.
THEOREM LastIdentityReturns == PageSpec => []SelectionRestored
<1>1. PageInit => SelectInv
  BY SelectInit
<1>2. SelectInv /\ [PageNext]_allVars => SelectInv'
  BY SelectNext
<1>3. SelectInv => SelectionRestored
  <2> SUFFICES ASSUME SelectInv, Quiet, ReadyScreen, ~acted, saved \in ToSet(identities)
               PROVE  ActiveOf(identities, active) = saved
    BY DEF SelectionRestored
  <2>1. SelectOK
    BY DEF SelectInv
  <2>2. Restored
    BY <2>1 DEF SelectOK
  <2>3. ~SwitchQueued
    BY DEF Quiet, SwitchQueued
  <2> QED BY <2>2, <2>3 DEF Restored
<1> QED BY <1>1, <1>2, <1>3, PTL DEF PageSpec
=============================================================================
