----------------------------- MODULE XmtpWorker -----------------------------
(***************************************************************************)
(* The XMTP Dedicated Worker (src/xmes-xmtp-wasm/src/worker.rs): one       *)
(* single-threaded executor that owns the user's identities.  Every        *)
(* message from the page starts a handler with spawn_local; a handler runs *)
(* up to its next .await and is resumed when the awaited network call      *)
(* answers, so every .await is a point where the other handlers run.       *)
(*                                                                         *)
(* A handler in flight is a record of "tasks"; its pc names the await it   *)
(* is suspended at.  The network may answer any pending call in any order, *)
(* and may fail any call that can fail.                                    *)
(***************************************************************************)
EXTENDS Naturals, Sequences, SequencesExt

CONSTANTS
    Ids,         \* identities; an identity is named by its private key
    NoId,        \* no identity
    Slots,       \* bound: how many handlers may be in flight at once
    MaxRounds,   \* how many rounds of handle_init fit before its timeout
    InitKeys,    \* the key lists the page may start the worker with
    UserRequests,\* the requests the page may send (records of Req)
    MaxRequests, \* bound: how many of them it sends
    MaxInbox     \* bound: how many may wait in the worker's message queue

ASSUME NoIdAssumption == NoId \notin Ids

ASSUME BoundsAssumption ==
    /\ MaxRounds \in Nat /\ MaxRequests \in Nat /\ MaxInbox \in Nat

ASSUME InitKeysAssumption == InitKeys \subseteq Seq(Ids)

Kinds == {"init", "retry", "create", "restore", "remove", "switch", "address",
          "list", "consent", "act", "role", "members", "messages", "send"}

Requests ==
    [kind : Kinds, idx : Nat, id : Ids \cup {NoId}, keys : Seq(Ids)]

ASSUME UserRequestsAssumption ==
    /\ UserRequests \subseteq Requests
    /\ \A r \in UserRequests :
          /\ r.kind \notin {"init", "retry"}
          /\ r.kind = "restore" => r.id \in Ids

Req(kind, idx, id, keys) ==
    [kind |-> kind, idx |-> idx, id |-> id, keys |-> keys]

VARIABLES
    identities, \* WorkerState.identities
    active,     \* WorkerState.active, counted from 0 as in the code
    params,     \* WorkerState.init_key_hexes, what "retry" starts from
    poisoned,   \* a handler panicked while it borrowed the RefCell
    tasks,      \* [Slots -> handler in flight or Idle]
    inbox,      \* postMessage queue page -> worker
    outbox,     \* postMessage queue worker -> page
    used,       \* history: the identities that exist anywhere
    epoch,      \* history: how often identities or active have changed
    told,       \* history: the latest epoch an identity list was posted of
    screen,     \* the page: "loading", "ready" or "offline"
    sent        \* bound: how many requests the page has sent

workerVars == <<identities, active, params, poisoned, tasks, used, epoch,
                told>>
pageVars   == <<screen, sent>>
vars       == <<workerVars, inbox, outbox, pageVars>>

-----------------------------------------------------------------------------
(* Handlers in flight and posted messages.                                 *)

PCs == {"idle", "load", "make", "restore", "backoff", "addresses", "sync",
        "act", "role", "members", "send", "fetch"}

Tasks ==
    [pc    : PCs,
     kind  : Kinds,              \* the request that started the handler
     id    : Ids \cup {NoId},    \* the identity the awaited call is made for
     keys  : Seq(Ids),           \* handle_init: its key_hexes parameter
     todo  : Seq(Ids),           \* handle_init: keys not yet tried this round
     got   : Seq(Ids),           \* identities collected so far
     at    : Nat,                \* active_idx as read before the loop
     n     : Nat,                \* count as read before the loop
     ver   : Nat,                \* history: epoch when at and n were read
     round : Nat]

Idle ==
    [pc |-> "idle", kind |-> "list", id |-> NoId, keys |-> <<>>, todo |-> <<>>,
     got |-> <<>>, at |-> 0, n |-> 0, ver |-> 0, round |-> 0]

Started(kind) == [Idle EXCEPT !.kind = kind]

MsgTypes == {"identity_list", "conversations", "group_members", "messages",
             "error", "connection_error"}

\* "of" and "ver" are history: the identity a reply was computed for and the
\* epoch an identity list was collected in.  The code sends neither.
Messages ==
    [type : MsgTypes, list : Seq(Ids), active : Nat, of : Ids \cup {NoId},
     ver : Nat]

Reply(type, of) ==
    [type |-> type, list |-> <<>>, active |-> 0, of |-> of, ver |-> 0]

ErrorMsg == Reply("error", NoId)

IdentityListMsg(list, at, ver) ==
    [type |-> "identity_list", list |-> list, active |-> at, of |-> NoId,
     ver |-> ver]

\* WorkerState::active_clone
ActiveOf(ids, at) == IF at < Len(ids) THEN ids[at + 1] ELSE NoId

-----------------------------------------------------------------------------
(* What a handler does up to its next await.                               *)

\* The handler in slot s posts msgs and awaits the call t describes.
Await(s, t, msgs) ==
    /\ tasks' = [tasks EXCEPT ![s] = t]
    /\ outbox' = outbox \o msgs
    /\ told' = IF msgs # <<>> /\ msgs[1].ver > told THEN msgs[1].ver ELSE told

\* The handler in slot s posts msgs and returns.
Finish(s, msgs) == Await(s, Idle, msgs)

\* A handler that calls network function pc for the active identity, or
\* reports that there is none.
ForActive(s, t, pc, msgs) ==
    LET id == ActiveOf(identities, active)
    IN  IF id = NoId THEN Finish(s, Append(msgs, ErrorMsg))
                     ELSE Await(s, [t EXCEPT !.pc = pc, !.id = id], msgs)

\* handle_list, as the tail of another handler.
ListConversations(s, t, msgs) ==
    ForActive(s, Started(t.kind), "sync", msgs)

\* Mutation: active_idx is read when the list is posted, not before the loop.
PostListLateActive(s, t, list, at, ver) ==
    LET msgs == <<IdentityListMsg(list, active, ver)>>
    IN  IF t.kind = "init" THEN Finish(s, msgs)
                           ELSE ListConversations(s, t, msgs)

\* The end of post_identity_list_async and what its caller does next.
PostList(s, t, list, at, ver) ==
    LET msgs == <<IdentityListMsg(list, at, ver)>>
    IN  IF t.kind = "init" THEN Finish(s, msgs)
                           ELSE ListConversations(s, t, msgs)

\* post_identity_list_async up to its first await, run in the state ids, at.
Collect(s, t, ids, at, ver) ==
    IF ids = <<>>
    THEN Finish(s, <<IdentityListMsg(<<>>, at, ver), ErrorMsg>>)
    ELSE Await(s, [Started(t.kind) EXCEPT !.pc = "addresses", !.id = ids[1],
                       !.at = at, !.n = Len(ids), !.ver = ver], <<>>)

\* Mutation: identities live in a Cell a panic does not leave borrowed.
AssignUnlocked(s, t, ids, at) ==
    /\ identities' = ids
    /\ active' = at
    /\ epoch' = IF ids = identities /\ at = active THEN epoch ELSE epoch + 1
    /\ Collect(s, t, ids, at, epoch')

\* borrow_mut, the assignment of identities and active, and the refresh every
\* such handler ends in.  On a poisoned RefCell borrow_mut panics instead and
\* the handler is gone.
Assign(s, t, ids, at) ==
    IF poisoned
    THEN Finish(s, <<>>) /\ UNCHANGED <<identities, active, epoch>>
    ELSE /\ identities' = ids
         /\ active' = at
         /\ epoch' = IF ids = identities /\ at = active THEN epoch ELSE epoch + 1
         /\ Collect(s, t, ids, at, epoch')

\* Mutation: a new identity takes the place of all others.
PushAlone(s, t, id) == Assign(s, t, <<id>>, 0)

\* The lines shared by handle_create_identity and handle_restore_identity.
Push(s, t, id) == Assign(s, t, Append(identities, id), Len(identities))

\* Identity::new draws a key nobody else has and registers it.
Fresh(id) == id \in Ids \ used /\ used' = used \cup {id}

-----------------------------------------------------------------------------
(* The onmessage closure: a request starts its handler.                    *)

Takes(s, kind) ==
    /\ tasks[s] = Idle
    /\ inbox # <<>> /\ Head(inbox).kind = kind
    /\ inbox' = Tail(inbox)

\* One round of handle_init: try every key, or make an identity if there is none.
StartRound(s, keys, round) ==
    Await(s, [Started("init") EXCEPT
                !.pc = IF keys = <<>> THEN "make" ELSE "load",
                !.keys = keys, !.todo = keys, !.round = round], <<>>)

HandleInit(s) ==
    /\ Takes(s, "init")
    /\ IF poisoned THEN Finish(s, <<>>) /\ UNCHANGED params
       ELSE /\ params' = Head(inbox).keys
            /\ StartRound(s, params', 0)
    /\ UNCHANGED <<identities, active, poisoned, used, epoch, pageVars>>

HandleRetry(s) ==
    /\ Takes(s, "retry")
    /\ IF poisoned THEN Finish(s, <<>>) ELSE StartRound(s, params, 0)
    /\ UNCHANGED <<identities, active, params, poisoned, used, epoch, pageVars>>

HandleCreateIdentity(s) ==
    /\ Takes(s, "create")
    /\ Await(s, [Started("create") EXCEPT !.pc = "make"], <<>>)
    /\ UNCHANGED <<identities, active, params, poisoned, used, epoch, pageVars>>

HandleRestoreIdentity(s) ==
    /\ Takes(s, "restore")
    /\ Await(s, [Started("restore") EXCEPT !.pc = "restore",
                                           !.id = Head(inbox).id], <<>>)
    /\ UNCHANGED <<identities, active, params, poisoned, used, epoch, pageVars>>

\* Mutations: no special case for the last identity, no clamp to the new
\* length, no shift when an identity before the active one goes.
ActiveAfterRemoveUnderflows(idx) ==
    LET len == Len(identities) - 1
    IN  IF active >= len THEN len - 1
        ELSE IF idx < active THEN active - 1 ELSE active

ActiveAfterRemoveUnclamped(idx) ==
    IF Len(identities) = 1 THEN 0
    ELSE IF idx < active THEN active - 1 ELSE active

ActiveAfterRemoveUnshifted(idx) ==
    LET len == Len(identities) - 1
    IN  IF len = 0 THEN 0 ELSE IF active >= len THEN len - 1 ELSE active

\* The value of active once the identity at idx (from 0) has been removed.
ActiveAfterRemove(idx) ==
    LET len == Len(identities) - 1
    IN  IF len = 0 THEN 0
        ELSE IF active >= len THEN len - 1
        ELSE IF idx < active THEN active - 1 ELSE active

\* Removing the only identity continues with the creation of a new one.
HandleRemoveIdentity(s) ==
    LET idx == Head(inbox).idx
        t   == Started("remove")
    IN  /\ Takes(s, "remove")
        /\ IF poisoned \/ idx >= Len(identities)
           THEN Finish(s, <<>>) /\ UNCHANGED <<identities, active, epoch>>
           ELSE IF Len(identities) = 1
           THEN /\ identities' = <<>>
                /\ active' = ActiveAfterRemove(idx)
                /\ epoch' = epoch + 1
                /\ Await(s, [t EXCEPT !.pc = "make"], <<>>)
           ELSE Assign(s, t, RemoveAt(identities, idx + 1),
                       ActiveAfterRemove(idx))
        /\ UNCHANGED <<params, poisoned, used, pageVars>>

HandleSwitchIdentity(s) ==
    LET idx == Head(inbox).idx
    IN  /\ Takes(s, "switch")
        /\ Assign(s, Started("switch"), identities,
                  IF idx < Len(identities) THEN idx ELSE active)
        /\ UNCHANGED <<params, poisoned, used, pageVars>>

\* add_address and remove_address only report that they are not supported.
HandleAddress(s) ==
    /\ Takes(s, "address")
    /\ Finish(s, <<ErrorMsg>>)
    /\ UNCHANGED <<identities, active, params, poisoned, used, epoch, pageVars>>

\* accept_invitation and decline_invitation set the consent synchronously.
HandleConsent(s) ==
    /\ Takes(s, "consent")
    /\ \/ ListConversations(s, Started("consent"), <<>>)
       \/ Finish(s, <<ErrorMsg>>)
    /\ UNCHANGED <<identities, active, params, poisoned, used, epoch, pageVars>>

HandleList(s) ==
    /\ Takes(s, "list")
    /\ ListConversations(s, Started("list"), <<>>)
    /\ UNCHANGED <<identities, active, params, poisoned, used, epoch, pageVars>>

\* The handlers whose first await is a call for the active identity:
\* create_group, leave, add_members and update_group_name ("act"),
\* remove_member, set_admin and set_super_admin ("role"), list_members,
\* list_messages and send_message.
FirstCall ==
    [act |-> "act", role |-> "role", members |-> "members",
     messages |-> "fetch", send |-> "send"]

HandleForActive(s) ==
    \E kind \in DOMAIN FirstCall :
        /\ Takes(s, kind)
        /\ ForActive(s, Started(kind), FirstCall[kind], <<>>)
        /\ UNCHANGED <<identities, active, params, poisoned, used, epoch,
                       pageVars>>

Dispatch(s) ==
    \/ HandleInit(s) \/ HandleRetry(s)
    \/ HandleCreateIdentity(s) \/ HandleRestoreIdentity(s)
    \/ HandleRemoveIdentity(s) \/ HandleSwitchIdentity(s)
    \/ HandleAddress(s) \/ HandleConsent(s)
    \/ HandleList(s) \/ HandleForActive(s)

-----------------------------------------------------------------------------
(* handle_init resumes.                                                    *)

\* Mutation: the timeout ends handle_init without connection_error.
RoundEndsSilently(s, t, found) ==
    IF found # <<>> THEN Assign(s, t, found, 0)
    ELSE /\ \/ Finish(s, <<>>)
            \/ /\ t.round < MaxRounds
               /\ Await(s, [t EXCEPT !.pc = "backoff", !.got = <<>>,
                                     !.todo = <<>>], <<>>)
         /\ UNCHANGED <<identities, active, epoch>>

\* The end of a round that produced the identities found.
RoundEnds(s, t, found) ==
    IF found # <<>> THEN Assign(s, t, found, 0)
    ELSE /\ \/ Finish(s, <<Reply("connection_error", NoId)>>)
            \/ /\ t.round < MaxRounds
               /\ Await(s, [t EXCEPT !.pc = "backoff", !.got = <<>>,
                                     !.todo = <<>>], <<>>)
         /\ UNCHANGED <<identities, active, epoch>>

\* What a round has collected once from_key_hex has answered for the next key;
\* a key that fails is dropped.
FromKeyHex(t) == {t.got, Append(t.got, Head(t.todo))}

KeyLoaded(s) ==
    LET t == tasks[s] IN
    /\ t.pc = "load"
    /\ \E got \in FromKeyHex(t) :
          IF Len(t.todo) > 1
          THEN /\ Await(s, [t EXCEPT !.got = got, !.todo = Tail(t.todo)], <<>>)
               /\ UNCHANGED <<identities, active, epoch>>
          ELSE RoundEnds(s, t, got)
    /\ UNCHANGED <<params, poisoned, used, inbox, pageVars>>

FirstIdentityMade(s) ==
    LET t == tasks[s] IN
    /\ t.pc = "make" /\ t.kind = "init"
    /\ \/ \E id \in Ids : Fresh(id) /\ RoundEnds(s, t, <<id>>)
       \/ RoundEnds(s, t, <<>>) /\ UNCHANGED used
    /\ UNCHANGED <<params, poisoned, inbox, pageVars>>

BackoffElapsed(s) ==
    LET t == tasks[s] IN
    /\ t.pc = "backoff"
    /\ StartRound(s, t.keys, t.round + 1)
    /\ UNCHANGED <<identities, active, params, poisoned, used, epoch, inbox,
                   pageVars>>

-----------------------------------------------------------------------------
(* The handlers that change the set of identities resume.                  *)

IdentityCreated(s) ==
    LET t == tasks[s] IN
    /\ t.pc = "make" /\ t.kind = "create"
    /\ \/ \E id \in Ids : Fresh(id) /\ Push(s, t, id)
       \/ Finish(s, <<ErrorMsg>>) /\ UNCHANGED <<identities, active, epoch, used>>
    /\ UNCHANGED <<params, poisoned, inbox, pageVars>>

\* The phrase gives the identity id, in use elsewhere or not.
FromMnemonic(id) == used' = used \cup {id}

IdentityRestored(s) ==
    LET t == tasks[s] IN
    /\ t.pc = "restore"
    /\ \/ FromMnemonic(t.id) /\ Push(s, t, t.id)
       \/ Finish(s, <<ErrorMsg>>) /\ UNCHANGED <<identities, active, epoch, used>>
    /\ UNCHANGED <<params, poisoned, inbox, pageVars>>

\* Mutation: a replacement that cannot be made ends the handler.
ReplacementMadeOrError(s) ==
    LET t == tasks[s] IN
    /\ t.pc = "make" /\ t.kind = "remove"
    /\ \/ \E id \in Ids :
             Fresh(id) /\ Assign(s, t, Append(identities, id), active)
       \/ /\ Finish(s, <<ErrorMsg>>)
          /\ UNCHANGED <<identities, active, epoch, used>>
    /\ UNCHANGED <<params, poisoned, inbox, pageVars>>

\* handle_remove_identity after "Always keep at least one identity."
ReplacementMade(s) ==
    LET t == tasks[s] IN
    /\ t.pc = "make" /\ t.kind = "remove"
    /\ \/ \E id \in Ids :
             Fresh(id) /\ Assign(s, t, Append(identities, id), active)
       \/ /\ Collect(s, t, identities, active, epoch)
          /\ UNCHANGED <<identities, active, epoch, used>>
    /\ UNCHANGED <<params, poisoned, inbox, pageVars>>

-----------------------------------------------------------------------------
(* post_identity_list_async resumes: linked_addresses answered.            *)

\* Mutation: the entries are collected in the wrong order.
CollectedReversed(t) == <<t.id>> \o t.got

Collected(t) == Append(t.got, t.id)

\* The loop reads the next identity out of a vector that may have changed.
NextIdentity(s) ==
    LET t == tasks[s]
        i == Len(t.got) + 2
    IN  /\ t.pc = "addresses" /\ i <= t.n /\ i <= Len(identities)
        /\ Await(s, [t EXCEPT !.got = Collected(t), !.id = identities[i]], <<>>)
        /\ UNCHANGED <<identities, active, params, poisoned, used, epoch, inbox,
                       pageVars>>

\* The vector shrank below the index: the handler panics inside the statement
\* that borrows the RefCell and, without unwinding, never releases it.
IndexPanics(s) ==
    LET t == tasks[s]
        i == Len(t.got) + 2
    IN  /\ t.pc = "addresses" /\ i <= t.n /\ i > Len(identities)
        /\ poisoned' = TRUE
        /\ Finish(s, <<>>)
        /\ UNCHANGED <<identities, active, params, used, epoch, inbox, pageVars>>

PostIdentityList(s) ==
    LET t == tasks[s] IN
    /\ t.pc = "addresses" /\ Len(t.got) + 1 = t.n
    /\ PostList(s, t, Collected(t), t.at, t.ver)
    /\ UNCHANGED <<identities, active, params, poisoned, used, epoch, inbox,
                   pageVars>>

-----------------------------------------------------------------------------
(* The calls made for one identity answer.                                 *)

ConversationsListed(s) ==
    LET t == tasks[s] IN
    /\ t.pc = "sync"
    /\ \/ Finish(s, <<Reply("conversations", t.id)>>)
       \/ Finish(s, <<ErrorMsg>>)
    /\ UNCHANGED <<identities, active, params, poisoned, used, epoch, inbox,
                   pageVars>>

\* The list that follows is that of the identity active by now.
GroupActionDone(s) ==
    LET t == tasks[s] IN
    /\ t.pc = "act"
    /\ \/ ListConversations(s, t, <<>>)
       \/ Finish(s, <<ErrorMsg>>)
    /\ UNCHANGED <<identities, active, params, poisoned, used, epoch, inbox,
                   pageVars>>

\* So is the member list that follows; without an identity nothing is posted.
RoleChangeDone(s) ==
    LET t   == tasks[s]
        id2 == ActiveOf(identities, active)
    IN  /\ t.pc = "role"
        /\ \/ IF id2 = NoId THEN Finish(s, <<>>)
              ELSE Await(s, [t EXCEPT !.pc = "members", !.id = id2], <<>>)
           \/ Finish(s, <<ErrorMsg>>)
        /\ UNCHANGED <<identities, active, params, poisoned, used, epoch, inbox,
                       pageVars>>

\* Mutation: every failure to list the members is dropped.
MembersListedOrNot(s) ==
    LET t == tasks[s] IN
    /\ t.pc = "members"
    /\ Finish(s, <<Reply("group_members", t.id)>>) \/ Finish(s, <<>>)
    /\ UNCHANGED <<identities, active, params, poisoned, used, epoch, inbox,
                   pageVars>>

\* After a role change a failure to list the members is not reported.
MembersListed(s) ==
    LET t == tasks[s] IN
    /\ t.pc = "members"
    /\ \/ Finish(s, <<Reply("group_members", t.id)>>)
       \/ Finish(s, IF t.kind = "role" THEN <<>> ELSE <<ErrorMsg>>)
    /\ UNCHANGED <<identities, active, params, poisoned, used, epoch, inbox,
                   pageVars>>

MessageSent(s) ==
    LET t == tasks[s] IN
    /\ t.pc = "send"
    /\ \/ Await(s, [t EXCEPT !.pc = "fetch"], <<>>)
       \/ Finish(s, <<ErrorMsg>>)
    /\ UNCHANGED <<identities, active, params, poisoned, used, epoch, inbox,
                   pageVars>>

MessagesFetched(s) ==
    LET t == tasks[s] IN
    /\ t.pc = "fetch"
    /\ \/ Finish(s, <<Reply("messages", t.id)>>)
       \/ Finish(s, <<ErrorMsg>>)
    /\ UNCHANGED <<identities, active, params, poisoned, used, epoch, inbox,
                   pageVars>>

Resume(s) ==
    \/ KeyLoaded(s) \/ FirstIdentityMade(s) \/ BackoffElapsed(s)
    \/ IdentityCreated(s) \/ IdentityRestored(s) \/ ReplacementMade(s)
    \/ NextIdentity(s) \/ IndexPanics(s) \/ PostIdentityList(s)
    \/ ConversationsListed(s) \/ GroupActionDone(s) \/ RoleChangeDone(s)
    \/ MembersListed(s) \/ MessageSent(s) \/ MessagesFetched(s)

-----------------------------------------------------------------------------
(* The page, reduced to what decides which requests it may send: the       *)
(* screens are shown once an identity list has arrived, the retry button   *)
(* after a connection error, and the list is also polled before that.      *)

HostSend ==
    /\ sent < MaxRequests /\ Len(inbox) < MaxInbox
    /\ \E r \in UserRequests :
          /\ screen = "ready" \/ r.kind = "list"
          /\ inbox' = Append(inbox, r)
    /\ sent' = sent + 1
    /\ UNCHANGED <<workerVars, outbox, screen>>

HostRetry ==
    /\ screen = "offline"
    /\ sent < MaxRequests
    /\ inbox' = Append(inbox, Req("retry", 0, NoId, <<>>))
    /\ screen' = "loading"
    /\ sent' = sent + 1
    /\ UNCHANGED <<workerVars, outbox>>

HostReceive ==
    /\ outbox # <<>>
    /\ outbox' = Tail(outbox)
    /\ screen' = CASE Head(outbox).type = "identity_list"    -> "ready"
                   [] Head(outbox).type = "connection_error" -> "offline"
                   [] OTHER                                  -> screen
    /\ UNCHANGED <<workerVars, inbox, sent>>

Init ==
    /\ identities = <<>> /\ active = 0
    /\ params = <<>> /\ poisoned = FALSE
    /\ tasks = [s \in Slots |-> Idle]
    /\ \E keys \in InitKeys :
          /\ inbox = <<Req("init", 0, NoId, keys)>>
          /\ used = {keys[i] : i \in 1..Len(keys)}
    /\ outbox = <<>>
    /\ epoch = 0 /\ told = 0
    /\ screen = "loading" /\ sent = 0

Next ==
    \/ \E s \in Slots : Dispatch(s) \/ Resume(s)
    \/ HostSend \/ HostRetry \/ HostReceive

Spec == Init /\ [][Next]_vars

\* The executor keeps running handlers, the browser keeps delivering messages
\* and every network call returns; the user owes nothing.
Fairness ==
    /\ \A s \in Slots : WF_vars(Resume(s))
    /\ WF_vars(\E s \in Slots : Dispatch(s))
    /\ WF_vars(HostReceive)

FairSpec == Spec /\ Fairness

-----------------------------------------------------------------------------
(* Properties.                                                             *)

\* Every variable has its type.
TypeOK ==
    /\ identities \in Seq(Ids) /\ active \in Nat
    /\ params \in Seq(Ids) /\ poisoned \in BOOLEAN
    /\ tasks \in [Slots -> Tasks]
    /\ inbox \in Seq(Requests) /\ outbox \in Seq(Messages)
    /\ used \subseteq Ids /\ epoch \in Nat /\ told \in Nat
    /\ screen \in {"loading", "ready", "offline"} /\ sent \in Nat

\* However handlers interleave, active points into identities; it is 0 only
\* by default when there is none.  WorkerState::active relies on it.
ActiveInRange ==
    \/ active < Len(identities)
    \/ identities = <<>> /\ active = 0

\* The list the page receives may be a mix of two states, because handlers
\* change identities while it is collected, but its active_idx still points
\* into it: the page can index it without a check.
PostedActiveInRange ==
    \A i \in 1..Len(outbox) :
        outbox[i].type = "identity_list" =>
            \/ outbox[i].active < Len(outbox[i].list)
            \/ outbox[i].list = <<>> /\ outbox[i].active = 0

\* A list collected after the last change, and not yet read by the page, is
\* exactly what the worker holds: nothing is skipped, doubled or reordered.
CurrentListIsExact ==
    \A i \in 1..Len(outbox) :
        outbox[i].type = "identity_list" /\ outbox[i].ver = epoch =>
            outbox[i].list = identities /\ outbox[i].active = active

\* Seen from outside, the identities change as IdentityStore says: atomically,
\* by one operation at a time, with the selected identity kept through the
\* removal of another and start-up never overwriting what is there.
Store == INSTANCE IdentityStore WITH identities <- identities, active <- active

ImplementsStore == Store!StoreSpec

\* After one out-of-range panic in post_identity_list_async the identities can
\* never be changed again: every later borrow_mut panics too.
PanicFreezesIdentities ==
    [][poisoned => UNCHANGED <<identities, active, poisoned>>]_vars

\* A handler that has awaited something never returns without a message to the
\* page: a result, or an error on every path that fails.  The exceptions are a
\* panic and the handlers of role changes, which drop the error of the member
\* list they fetch last.
HandlersReport ==
    [][\A s \in Slots :
          tasks[s] # Idle /\ tasks'[s] = Idle =>
             \/ Len(outbox') > Len(outbox)
             \/ poisoned'
             \/ tasks[s].kind = "role"]_vars

\* The first run or a retry always ends in a screen: identities, or the retry
\* button once the 30 s are over.
InitAnswered == (screen = "loading") ~> (screen # "loading")

\* Each change of the identities is announced by a list collected after it,
\* unless a handler panicked.
ChangesAnnounced ==
    \A e \in 1..MaxRequests + 1 :
        (told < e /\ e <= epoch) ~> (told >= e \/ poisoned)

-----------------------------------------------------------------------------
(* The invariant that makes the safety properties inductive.               *)

\* A handler that collects an identity list has room left for the identity it
\* waits for, its snapshot of active lies within its snapshot of the length,
\* and as long as nothing has changed it is copying identities in order.
TaskOK(t) ==
    /\ t.pc = "load" => t.todo # <<>>
    /\ t.pc = "restore" => t.id \in Ids
    /\ t.pc = "addresses" =>
          /\ t.id \in Ids
          /\ Len(t.got) < t.n /\ t.at < t.n
          /\ t.ver <= epoch
          /\ t.ver = epoch =>
                /\ t.n = Len(identities) /\ t.at = active
                /\ \A i \in 1..Len(t.got) : t.got[i] = identities[i]
                /\ t.id = identities[Len(t.got) + 1]

\* The same facts about a list on its way to the page.
MessageOK(m) ==
    m.type = "identity_list" =>
        /\ m.active < Len(m.list) \/ (m.list = <<>> /\ m.active = 0)
        /\ m.ver <= epoch
        /\ m.ver = epoch => m.list = identities /\ m.active = active

StateOK ==
    /\ identities \in Seq(Ids) /\ active \in Nat
    /\ ActiveInRange
    /\ params \in Seq(Ids) /\ poisoned \in BOOLEAN
    /\ used \subseteq Ids /\ epoch \in Nat
    /\ screen \in {"loading", "ready", "offline"} /\ sent \in Nat

TasksOK ==
    /\ tasks \in [Slots -> Tasks]
    /\ \A s \in Slots : TaskOK(tasks[s])

OutboxOK ==
    /\ outbox \in Seq(Messages) /\ told \in Nat
    /\ \A i \in 1..Len(outbox) : MessageOK(outbox[i])

InboxOK ==
    /\ inbox \in Seq(Requests)
    /\ \A i \in 1..Len(inbox) : inbox[i].kind = "restore" => inbox[i].id \in Ids

IInv == StateOK /\ TasksOK /\ OutboxOK /\ InboxOK
=============================================================================
