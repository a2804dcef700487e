------------------------- MODULE ServiceWorkerProofs -------------------------
(***************************************************************************)
(* The number on the app's icon is right whenever the handlers of the      *)
(* service worker have had the count to themselves, for any number of      *)
(* handlers, conversations and messages.                                   *)
(***************************************************************************)
EXTENDS ServiceWorker, FiniteSetTheorems, SequenceTheorems, TLAPS

\* Handler s is in setBadgeCount, or about to be, and has met no other there.
Alone(s) == Busy(s) /\ jobs[s].alone

\* What such a handler may rely on.
AloneOK(s) ==
    LET j == jobs[s] IN
    /\ \A r \in Jobs : Busy(r) => r = s
    /\ j.pc = "icon" => badge = j.n
    /\ j.kind = "push" /\ exact =>
          IF j.pc = "read" THEN badge = tally ELSE j.n = tally + 1

\* Pushes have an inbox, and only they go through these steps.
Handlers ==
    {j \in JobType : /\ j.kind = "push" => j.inbox \in Inboxes
                     /\ j.pc \in {"read", "notify", "post"} => j.kind = "push"}

Types == TypeOK /\ jobs \in [Jobs -> Handlers]

BadgeOK == BadgeCountsAll /\ \A s \in Jobs : Alone(s) => AloneOK(s)

\* The inductive invariant.
IInv == Types /\ IsFiniteSet(unread) /\ IsFiniteSet(news) /\ BadgeOK

-----------------------------------------------------------------------------
(* Handlers.                                                               *)

\* What a step of a handler has to show.
LEMMA HandlerKeeps ==
    ASSUME IInv, jobs' \in [Jobs -> Handlers], BadgeOK', badge' \in Nat,
           icon' \in Nat, tally' \in Nat, asked' \in Nat, arrived' \in Nat,
           sent' \in Nat, turns' \in Nat, note' \in BOOLEAN, exact' \in BOOLEAN,
           mail' \in Seq(Nat), posted' \subseteq Inboxes, due' \in [Inboxes -> Nat],
           UNCHANGED <<open, list, unread, ihu, current, news>>
    PROVE  IInv'
<1>1. jobs' \in [Jobs -> JobType]
  <2>1. \A j \in Handlers : j \in JobType
    BY DEF Handlers
  <2> QED BY <2>1
<1>2. /\ open' \in BOOLEAN /\ list' \subseteq Inboxes /\ ihu' \subseteq Inboxes
      /\ unread' \subseteq Chats /\ news' \subseteq Chats /\ current' \in Inboxes
      /\ IsFiniteSet(unread') /\ IsFiniteSet(news')
  BY DEF IInv, Types, TypeOK
<1>3. TypeOK'
  BY <1>1, <1>2 DEF TypeOK
<1> QED BY <1>2, <1>3 DEF IInv, Types

\* The types, one by one.
LEMMA TypesHold ==
    ASSUME IInv
    PROVE  /\ Types /\ TypeOK /\ BadgeOK /\ jobs \in [Jobs -> Handlers]
           /\ badge \in Nat /\ icon \in Nat /\ tally \in Nat /\ asked \in Nat
           /\ arrived \in Nat /\ sent \in Nat /\ turns \in Nat
           /\ note \in BOOLEAN /\ exact \in BOOLEAN /\ open \in BOOLEAN
           /\ mail \in Seq(Nat) /\ posted \subseteq Inboxes
           /\ list \subseteq Inboxes /\ ihu \subseteq Inboxes
           /\ unread \subseteq Chats /\ news \subseteq Chats
           /\ current \in Inboxes /\ due \in [Inboxes -> Nat]
           /\ IsFiniteSet(unread) /\ IsFiniteSet(news)
BY DEF IInv, Types, TypeOK

\* A slot without a handler is one of the handler states.
LEMMA NoJobFields ==
    NoJob \in Handlers /\ NoJob.pc = "idle" /\ NoJob.kind = "none"
BY DEF NoJob, Handlers, JobType, JobPCs

\* After crowding, all handlers are still handlers and none claims to be alone.
LEMMA CrowdedFields ==
    ASSUME Types
    PROVE  /\ Crowded \in [Jobs -> Handlers]
           /\ \A s \in Jobs : ~Crowded[s].alone
<1>1. \A s \in Jobs : jobs[s] \in Handlers
  BY DEF Types, TypeOK
<1> QED BY <1>1 DEF Crowded, Handlers, JobType

\* A handler that starts keeps the invariant.
LEMMA StartedKeeps ==
    ASSUME Types, BadgeOK, NEW s \in Jobs, NEW kind \in {"push", "tap", "sync"},
           NEW n \in Nat, NEW i \in Inboxes \cup {NoInbox}, kind = "push" => i \in Inboxes, NEW pc,
           pc = IF kind = "push" THEN "read" ELSE "write",
           Started(s, kind, pc, n, i), UNCHANGED <<badge, icon, tally, exact>>
    PROVE  jobs' \in [Jobs -> Handlers] /\ BadgeOK'
<1> DEFINE others == \E r \in Jobs : Busy(r)
           new == [kind |-> kind, pc |-> pc, n |-> n, inbox |-> i,
                   alone |-> ~others]
<1>1. /\ new \in Handlers /\ new.pc = pc /\ new.kind = kind /\ new.n = n
      /\ new.alone = ~others
  BY DEF Handlers, JobType, JobPCs, Writing
<1>2. jobs' = [(IF others THEN Crowded ELSE jobs) EXCEPT ![s] = new]
  BY DEF Started
<1> HIDE DEF new
<1>3. jobs \in [Jobs -> Handlers]
  BY DEF Types, TypeOK
<1>4. jobs' \in [Jobs -> Handlers] /\ jobs'[s] = new
      /\ \A r \in Jobs \ {s} : jobs'[r] = IF others THEN Crowded[r] ELSE jobs[r]
  BY <1>1, <1>2, <1>3, CrowdedFields
<1>5. Busy(s)'
  BY <1>1, <1>4 DEF Busy, Writing
<1>6. BadgeCountsAll'
  BY <1>5 DEF BadgeCountsAll, Quiet
<1>7. CASE others
  <2>1. \A r \in Jobs : ~Alone(r)'
    BY <1>1, <1>4, <1>7, CrowdedFields DEF Alone
  <2> QED BY <1>4, <1>6, <2>1 DEF BadgeOK
<1>8. CASE ~others
  <2>1. \A r \in Jobs \ {s} : ~Busy(r)'
    BY <1>4, <1>8 DEF Busy
  <2>2. exact => badge = tally
    BY <1>8 DEF BadgeOK, BadgeCountsAll, Quiet
  <2>3. AloneOK(s)'
    BY <1>1, <1>4, <2>1, <2>2 DEF AloneOK
  <2> QED BY <1>4, <1>6, <2>1, <2>3 DEF BadgeOK, Alone
<1> QED BY <1>7, <1>8

\* A step of a handler that has nothing to do with the count keeps what is
\* known of it.
LEMMA QuietStepKeeps ==
    ASSUME Types, BadgeOK, NEW s \in Jobs, ~Busy(s), NEW to \in Handlers,
           to.pc \notin Writing, jobs' = [jobs EXCEPT ![s] = to],
           UNCHANGED <<badge, icon, tally, exact>>
    PROVE  jobs' \in [Jobs -> Handlers] /\ BadgeOK'
<1>1. jobs' \in [Jobs -> Handlers] /\ jobs'[s] = to
      /\ \A r \in Jobs \ {s} : jobs'[r] = jobs[r]
  BY DEF Types, TypeOK
<1>2. \A r \in Jobs : (Busy(r)' <=> Busy(r)) /\ (Alone(r)' <=> Alone(r))
  BY <1>1 DEF Busy, Alone
<1>3. ASSUME NEW r \in Jobs, Alone(r)' PROVE AloneOK(r)'
  <2>1. Alone(r) /\ r # s
    BY <1>2, <1>3 DEF Alone
  <2> QED BY <1>1, <1>2, <2>1 DEF BadgeOK, AloneOK
<1>4. BadgeCountsAll'
  BY <1>2 DEF BadgeOK, BadgeCountsAll, Quiet
<1> QED BY <1>1, <1>3, <1>4 DEF BadgeOK

\* So does one after which the count is no longer claimed to be right.
LEMMA InexactKeeps ==
    ASSUME Types, BadgeOK, NEW s \in Jobs, NEW to \in Handlers,
           to.pc \notin Writing, jobs' = [jobs EXCEPT ![s] = to],
           ~exact', UNCHANGED badge
    PROVE  jobs' \in [Jobs -> Handlers] /\ BadgeOK'
<1>1. jobs' \in [Jobs -> Handlers] /\ jobs'[s] = to
      /\ \A r \in Jobs \ {s} : jobs'[r] = jobs[r]
  BY DEF Types, TypeOK
<1>2. ASSUME NEW r \in Jobs, Alone(r)' PROVE AloneOK(r)'
  <2>1. r # s /\ Alone(r)
    BY <1>1, <1>2 DEF Alone, Busy
  <2>2. \A q \in Jobs : Busy(q)' => Busy(q)
    BY <1>1 DEF Busy
  <2> QED BY <1>1, <2>1, <2>2 DEF BadgeOK, AloneOK
<1> QED BY <1>1, <1>2 DEF BadgeOK, BadgeCountsAll

\* A handler that goes on in setBadgeCount keeps what is known of it, if what
\* is known of the handler itself is kept.
LEMMA BusyStepKeeps ==
    ASSUME Types, BadgeOK, NEW s \in Jobs, Busy(s), NEW to \in Handlers,
           to.pc \in Writing, jobs' = [jobs EXCEPT ![s] = to],
           UNCHANGED <<tally, exact>>, to.alone => jobs[s].alone,
           to.alone => /\ to.pc = "icon" => badge' = to.n
                       /\ to.kind = "push" /\ exact =>
                             IF to.pc = "read" THEN badge' = tally
                                               ELSE to.n = tally + 1
    PROVE  jobs' \in [Jobs -> Handlers] /\ BadgeOK'
<1>1. jobs' \in [Jobs -> Handlers] /\ jobs'[s] = to
      /\ \A r \in Jobs \ {s} : jobs'[r] = jobs[r]
  BY DEF Types, TypeOK
<1>2. \A r \in Jobs : Busy(r)' <=> Busy(r)
  BY <1>1 DEF Busy
<1>3. ASSUME NEW r \in Jobs, Alone(r)' PROVE AloneOK(r)'
  <2>1. Alone(r)
    BY <1>1, <1>2, <1>3 DEF Alone
  <2>2. AloneOK(r)
    BY <2>1 DEF BadgeOK
  <2>3. r = s
    BY <2>2 DEF AloneOK
  <2>4. to.alone
    BY <1>1, <1>3, <2>3 DEF Alone
  <2> QED BY <1>1, <1>2, <2>2, <2>3, <2>4 DEF AloneOK
<1>4. BadgeCountsAll'
  BY <1>2 DEF BadgeCountsAll, Quiet
<1> QED BY <1>1, <1>3, <1>4 DEF BadgeOK

\* The badge counter has been read out of IndexedDB.
LEMMA ReadCountKeeps ==
    ASSUME IInv, NEW s \in Jobs, ReadCount(s)
    PROVE  IInv'
<1>1. Types /\ BadgeOK /\ jobs[s] \in Handlers /\ badge \in Nat /\ jobs[s].pc = "read"
  BY DEF IInv, Types, TypeOK, ReadCount
<1>2. UNCHANGED <<badge, icon, note, tally, exact, asked, arrived, pageVars, worldVars>>
  BY DEF ReadCount
<1>3. PICK to \in Handlers :
        /\ jobs' = [jobs EXCEPT ![s] = to] /\ to.pc = "write" /\ to.kind = jobs[s].kind
        /\ to.alone => to.n = badge + 1 /\ jobs[s].alone
  <2>1. CASE jobs' = [jobs EXCEPT ![s].pc = "write", ![s].n = NextCount(badge)]
    <3> DEFINE n == NextCount(badge)
               to == [jobs[s] EXCEPT !.pc = "write", !.n = n]
    <3>0. n = badge + 1 /\ n \in Nat
      BY <1>1 DEF NextCount
    <3> HIDE DEF n
    <3>1. to \in Handlers /\ to.pc = "write" /\ to.kind = jobs[s].kind
          /\ to.alone = jobs[s].alone /\ to.n = badge + 1
      BY <1>1, <3>0 DEF Handlers, JobType, JobPCs, Writing
    <3>2. jobs' = [jobs EXCEPT ![s] = to]
      BY <1>1, <2>1 DEF Types, TypeOK, Handlers, JobType, n
    <3> QED BY <3>1, <3>2
  <2>2. CASE jobs' = [jobs EXCEPT ![s].pc = "write", ![s].n = NextCount(0),
                                  ![s].alone = FALSE]
    <3> DEFINE n == NextCount(0)
               to == [jobs[s] EXCEPT !.pc = "write", !.n = n, !.alone = FALSE]
    <3>0. n \in Nat
      BY DEF NextCount
    <3> HIDE DEF n
    <3>1. to \in Handlers /\ to.pc = "write" /\ to.kind = jobs[s].kind /\ ~to.alone
      BY <1>1, <3>0 DEF Handlers, JobType, JobPCs, Writing
    <3>2. jobs' = [jobs EXCEPT ![s] = to]
      BY <1>1, <2>2 DEF Types, TypeOK, Handlers, JobType, n
    <3> QED BY <3>1, <3>2
  <2> QED BY <2>1, <2>2 DEF ReadCount
<1>4. Busy(s) /\ to.pc \in Writing
  BY <1>1, <1>3 DEF Busy, Writing
<1>5. to.alone /\ to.kind = "push" /\ exact => to.n = tally + 1
  <2>1. to.alone => AloneOK(s)
    BY <1>1, <1>3, <1>4 DEF BadgeOK, Alone
  <2> QED BY <1>1, <1>3, <2>1 DEF AloneOK
<1>6. jobs' \in [Jobs -> Handlers] /\ BadgeOK'
  BY <1>1, <1>2, <1>3, <1>4, <1>5, BusyStepKeeps
<1> QED BY <1>2, <1>6, TypesHold, HandlerKeeps DEF pageVars, worldVars

\* It has been written back, one higher or as the page says.
LEMMA WriteCountKeeps ==
    ASSUME IInv, NEW s \in Jobs, WriteCount(s)
    PROVE  IInv'
<1>1. Types /\ BadgeOK /\ jobs[s] \in Handlers /\ jobs[s].pc = "write"
  BY DEF IInv, Types, TypeOK, WriteCount
<1>2. /\ badge' = jobs[s].n /\ jobs' = [jobs EXCEPT ![s].pc = "icon"]
      /\ UNCHANGED <<icon, note, tally, exact, asked, arrived, pageVars, worldVars>>
  BY DEF WriteCount, Cached
<1> DEFINE to == [jobs[s] EXCEPT !.pc = "icon"]
<1>3. /\ to \in Handlers /\ to.pc = "icon" /\ to.kind = jobs[s].kind
      /\ to.alone = jobs[s].alone /\ to.n = jobs[s].n
  BY <1>1 DEF Handlers, JobType, JobPCs, Writing
<1>4. jobs' = [jobs EXCEPT ![s] = to]
  BY <1>1, <1>2 DEF Types, TypeOK, Handlers, JobType
<1> HIDE DEF to
<1>5. Busy(s) /\ to.pc \in Writing
  BY <1>1, <1>3 DEF Busy, Writing
<1>6. to.alone /\ to.kind = "push" /\ exact => to.n = tally + 1
  <2>1. to.alone => AloneOK(s)
    BY <1>1, <1>3, <1>5 DEF BadgeOK, Alone
  <2> QED BY <1>1, <1>3, <2>1 DEF AloneOK
<1>7. jobs' \in [Jobs -> Handlers] /\ BadgeOK'
  BY <1>1, <1>2, <1>3, <1>4, <1>5, <1>6, BusyStepKeeps, ZenonT(60)
<1>8. badge' \in Nat
  BY <1>1, <1>2 DEF Handlers, JobType
<1> QED BY <1>2, <1>7, <1>8, TypesHold, HandlerKeeps DEF pageVars, worldVars

\* What is left of a handler that has resolved setBadgeCount.
LEMMA AfterCountFields ==
    ASSUME NEW j \in Handlers
    PROVE  AfterCount(j) \in Handlers /\ AfterCount(j).pc \notin Writing
<1>1. CASE j.kind = "push" \/ j.kind = "tap"
  BY <1>1 DEF AfterCount, Handlers, JobType, JobPCs, Writing
<1>2. CASE j.kind # "push" /\ j.kind # "tap"
  BY <1>2, NoJobFields DEF AfterCount, Writing
<1> QED BY <1>1, <1>2

\* setAppBadge shows what was written.
LEMMA SetIconKeeps ==
    ASSUME IInv, NEW s \in Jobs, SetIcon(s)
    PROVE  IInv'
<1> DEFINE j == jobs[s]
           to == AfterCount(j)
<1>1. Types /\ BadgeOK /\ j \in Handlers /\ j.pc = "icon" /\ j.n \in Nat /\ tally \in Nat
  BY DEF IInv, Types, TypeOK, SetIcon, Handlers, JobType
<1>2. /\ icon' = j.n /\ jobs' = [jobs EXCEPT ![s] = to]
      /\ tally' = IF j.kind = "push" THEN tally + 1 ELSE j.n
      /\ exact' = (j.alone /\ (exact \/ j.kind # "push"))
      /\ UNCHANGED <<badge, note, asked, arrived, pageVars, worldVars>>
  BY DEF SetIcon
<1>3. to \in Handlers /\ to.pc \notin Writing
  BY <1>1, AfterCountFields
<1> HIDE DEF to
<1>4. jobs' \in [Jobs -> Handlers] /\ BadgeOK'
  <2>1. CASE ~exact'
    BY <1>1, <1>2, <1>3, <2>1, InexactKeeps
  <2>2. CASE exact'
    <3>1. Alone(s)
      BY <1>1, <1>2, <2>2 DEF Alone, Busy, Writing
    <3>2. AloneOK(s)
      BY <1>1, <3>1 DEF BadgeOK
    <3>3. badge' = tally' /\ icon' = badge'
      BY <1>1, <1>2, <2>2, <3>2 DEF AloneOK
    <3>4. jobs' \in [Jobs -> Handlers] /\ jobs'[s] = to
          /\ \A r \in Jobs \ {s} : jobs'[r] = jobs[r]
      BY <1>1, <1>2, <1>3 DEF Types, TypeOK
    <3>5. \A r \in Jobs : ~Busy(r)'
      BY <1>3, <3>2, <3>4 DEF AloneOK, Busy
    <3> QED BY <3>3, <3>4, <3>5 DEF BadgeOK, BadgeCountsAll, Alone
  <2> QED BY <2>1, <2>2
<1>5. icon' \in Nat /\ tally' \in Nat /\ exact' \in BOOLEAN
  BY <1>1, <1>2 DEF Types, TypeOK, Handlers, JobType
<1> QED BY <1>2, <1>4, <1>5, TypesHold, HandlerKeeps DEF pageVars, worldVars

\* A count that fails, or a worker the browser stops, makes no more claims.
LEMMA CountFailsKeeps ==
    ASSUME IInv, NEW s \in Jobs, CountFails(s) \/ Stopped(s)
    PROVE  IInv'
<1>1. Types /\ BadgeOK /\ jobs[s] \in Handlers
  BY DEF IInv, Types, TypeOK
<1>2. PICK to \in Handlers : /\ to.pc \notin Writing
                            /\ jobs' = [jobs EXCEPT ![s] = to]
  BY <1>1, AfterCountFields, NoJobFields DEF CountFails, Stopped, AfterFailure, Writing
<1>3. /\ exact' = FALSE
      /\ UNCHANGED <<badge, icon, note, tally, asked, arrived, pageVars, worldVars>>
  BY DEF CountFails, Stopped
<1>4. jobs' \in [Jobs -> Handlers] /\ BadgeOK'
  BY <1>1, <1>2, <1>3, InexactKeeps
<1> QED BY <1>3, <1>4, TypesHold, HandlerKeeps DEF pageVars, worldVars

\* showNotification resolves.
LEMMA NotifyKeeps ==
    ASSUME IInv, NEW s \in Jobs, Notify(s)
    PROVE  IInv'
<1>1. Types /\ BadgeOK /\ jobs[s] \in Handlers /\ ~Busy(s) /\ jobs[s].pc = "notify"
  BY DEF IInv, Types, TypeOK, Notify, Busy, Writing
<1>2. UNCHANGED <<badge, icon, tally, exact, arrived, pageVars, worldVars>>
      /\ asked' = asked + 1
  BY DEF Notify
<1>3. PICK to \in Handlers : /\ to.pc \notin Writing /\ note' \in {note, TRUE}
                            /\ jobs' = [jobs EXCEPT ![s] = to]
  <2>1. CASE note' = TRUE /\ jobs' = [jobs EXCEPT ![s].pc = "post"]
    <3> DEFINE to == [jobs[s] EXCEPT !.pc = "post"]
    <3>1. to \in Handlers /\ to.pc \notin Writing
      BY <1>1 DEF Handlers, JobType, JobPCs, Writing
    <3>2. jobs' = [jobs EXCEPT ![s] = to]
      BY <1>1, <2>1 DEF Types, TypeOK, Handlers, JobType
    <3> QED BY <2>1, <3>1, <3>2
  <2>2. CASE note' = note /\ jobs' = [jobs EXCEPT ![s] = NoJob]
    BY <2>2, NoJobFields DEF Writing
  <2> QED BY <2>1, <2>2 DEF Notify
<1>4. jobs' \in [Jobs -> Handlers] /\ BadgeOK'
  BY <1>1, <1>2, <1>3, QuietStepKeeps
<1>5. asked' \in Nat
  BY <1>1, <1>2 DEF Types, TypeOK
<1>6. note' \in BOOLEAN
  BY <1>1, <1>3 DEF Types, TypeOK
<1> QED BY <1>2, <1>4, <1>5, <1>6, TypesHold, HandlerKeeps DEF pageVars, worldVars

\* The inbox of the notification has been passed on to the open windows.
LEMMA PostInboxKeeps ==
    ASSUME IInv, NEW s \in Jobs, PostInbox(s)
    PROVE  IInv'
<1>1. Types /\ BadgeOK /\ ~Busy(s) /\ jobs[s].inbox \in Inboxes
  BY DEF IInv, Types, TypeOK, Handlers, PostInbox, Busy, Writing
<1>2. /\ posted' = IF open THEN posted \cup {jobs[s].inbox} ELSE posted
      /\ jobs' = [jobs EXCEPT ![s] = NoJob]
      /\ UNCHANGED <<badge, icon, note, tally, exact, asked, arrived, open, mail,
                     list, unread, ihu, current, worldVars>>
  BY DEF PostInbox
<1>3. jobs' \in [Jobs -> Handlers] /\ BadgeOK'
  BY <1>1, <1>2, NoJobFields, QuietStepKeeps DEF Writing
<1>4. posted' \subseteq Inboxes
  BY <1>1, <1>2 DEF Types, TypeOK
<1> QED BY <1>2, <1>3, <1>4 DEF IInv, Types, TypeOK, Handlers, worldVars

\* A push event starts a handler that reads the counter.
LEMMA PushArrivesKeeps ==
    ASSUME IInv, NEW s \in Jobs, PushArrives(s)
    PROVE  IInv'
<1>1. PICK i \in Inboxes :
        /\ due[i] > 0 /\ due' = [due EXCEPT ![i] = @ - 1]
        /\ Started(s, "push", "read", 0, i) /\ arrived' = arrived + 1
        /\ UNCHANGED <<badge, icon, note, tally, exact, asked, pageVars,
                       news, sent, turns>>
  BY DEF PushArrives
<1>2. jobs' \in [Jobs -> Handlers] /\ BadgeOK'
  BY <1>1, TypesHold, StartedKeeps
<1>3. due' \in [Inboxes -> Nat] /\ arrived' \in Nat
  BY <1>1, TypesHold
<1> QED BY <1>1, <1>2, <1>3, TypesHold, HandlerKeeps DEF pageVars

\* A tap on the notification does not touch the counter.
LEMMA NoteTappedKeeps ==
    ASSUME IInv, NEW s \in Jobs, NoteTapped(s)
    PROVE  IInv'
<1>1. /\ turns' = turns + 1 /\ note' = FALSE
      /\ Started(s, "tap", "write", 0, NoInbox)
      /\ UNCHANGED <<badge, icon, tally, exact, asked, arrived, pageVars,
                     news, due, sent>>
  BY DEF NoteTapped
<1>2. jobs' \in [Jobs -> Handlers] /\ BadgeOK'
  BY <1>1, TypesHold, StartedKeeps
<1>3. turns' \in Nat
  BY <1>1, TypesHold
<1>4. note' \in BOOLEAN
  BY <1>1
<1> QED BY <1>1, <1>2, <1>3, <1>4, TypesHold, HandlerKeeps DEF pageVars

\* A message of the page starts a handler that writes the counter.
LEMMA MailArrivesKeeps ==
    ASSUME IInv, NEW s \in Jobs, MailArrives(s)
    PROVE  IInv'
<1>1. /\ mail # <<>> /\ mail' = Tail(mail)
      /\ Started(s, "sync", "write", Head(mail), NoInbox)
      /\ UNCHANGED <<badge, icon, note, tally, exact, asked, arrived, open,
                     posted, list, unread, ihu, current, worldVars>>
  BY DEF MailArrives
<1>2. Head(mail) \in Nat /\ Tail(mail) \in Seq(Nat)
  BY <1>1, TypesHold, HeadTailProperties
<1>3. jobs' \in [Jobs -> Handlers] /\ BadgeOK'
  BY <1>1, <1>2, TypesHold, StartedKeeps
<1> QED BY <1>1, <1>2, <1>3, TypesHold, HandlerKeeps DEF worldVars

-----------------------------------------------------------------------------
(* The page.                                                               *)

\* Handlers none of which claims to be right.
LEMMA CrowdedKeeps ==
    ASSUME IInv, ~exact', NEW s \in Jobs,
           jobs' \in {Crowded, [Crowded EXCEPT ![s] = NoJob]},
           jobs' = Crowded \/ jobs[s].pc = "focus"
    PROVE  jobs' \in [Jobs -> Handlers] /\ BadgeOK'
<1>1. ASSUME NEW r \in Jobs
      PROVE  Crowded[r] \in Handlers /\ ~Crowded[r].alone
  <2>1. jobs[r] \in Handlers
    BY TypesHold
  <2>2. [jobs[r] EXCEPT !.alone = FALSE] \in Handlers
        /\ ~[jobs[r] EXCEPT !.alone = FALSE].alone
    BY <2>1 DEF Handlers, JobType
  <2> QED BY <2>2 DEF Crowded
<1>2. Crowded \in [Jobs -> Handlers]
  BY <1>1 DEF Crowded
<1>3. jobs' \in [Jobs -> Handlers]
  BY <1>2, NoJobFields
<1>4. ASSUME NEW r \in Jobs PROVE ~Alone(r)'
  <2>1. jobs'[r] = Crowded[r] \/ jobs'[r] = NoJob
    BY <1>2
  <2> QED BY <1>1, <2>1, NoJobFields DEF Alone, Busy, Writing
<1> QED BY <1>3, <1>4 DEF BadgeOK, BadgeCountsAll

\* The page writes unread_ids, which stays finite.
LEMMA UnreadSetKeeps ==
    ASSUME IInv, NEW u, IsFiniteSet(u), u \subseteq Chats,
           unread' = u, BadgeEffect(u), UNCHANGED <<badge, note, tally, asked, arrived>>,
           jobs' \in [Jobs -> Handlers] /\ BadgeOK',
           open' \in BOOLEAN, list' \subseteq Inboxes, posted' \subseteq Inboxes,
           ihu' \subseteq Inboxes, current' \in Inboxes, news' \subseteq news,
           due' = due, sent' = sent, turns' \in Nat
    PROVE  IInv'
<1>1. Cardinality(u) \in Nat
  BY FS_CardinalityType
<1>2. /\ mail' \in Seq(Nat) /\ icon' \in Nat /\ exact' = FALSE
  BY <1>1, TypesHold, AppendProperties DEF BadgeEffect
<1>3. IsFiniteSet(news') /\ news' \subseteq Chats
  BY TypesHold, FS_Subset
<1>4. jobs' \in [Jobs -> JobType]
  <2>1. \A j \in Handlers : j \in JobType
    BY DEF Handlers
  <2> QED BY <2>1
<1>5. exact' \in BOOLEAN /\ note' \in BOOLEAN
  BY <1>2, TypesHold
<1>6. TypeOK'
  BY <1>2, <1>3, <1>4, <1>5, TypesHold DEF TypeOK
<1> QED BY <1>3, <1>6 DEF IInv, Types

\* There is a handler, whatever the bound.
LEMMA SomeJob == \E s \in Jobs : TRUE
<1>1. MaxJobs \in Nat \ {0}
  BY ServiceWorkerAssumption DEF ServiceWorkerAssumption
<1>2. 1 \in Jobs
  BY <1>1 DEF Jobs
<1> QED BY <1>2

\* What the page's own write of the counter does to the handlers.
LEMMA CrowdedEffect ==
    ASSUME IInv, NEW u, UnreadSet(u)
    PROVE  jobs' \in [Jobs -> Handlers] /\ BadgeOK'
<1>1. PICK s \in Jobs : TRUE
  BY SomeJob
<1>2. exact' = FALSE /\ jobs' = Crowded
  BY DEF UnreadSet, BadgeEffect
<1> QED BY <1>1, <1>2, CrowdedKeeps

\* The user opens the app.
LEMMA OpenWindowKeeps ==
    ASSUME IInv, OpenWindow
    PROVE  IInv'
<1>1. UnreadSet(unread) /\ turns' \in Nat
  BY TypesHold DEF OpenWindow
<1>2. jobs' \in [Jobs -> Handlers] /\ BadgeOK'
  BY <1>1, CrowdedEffect
<1>3. /\ open' = TRUE /\ list' = {} /\ posted' = {}
      /\ UNCHANGED <<ihu, current, news, due, sent>>
  BY DEF OpenWindow, Window
<1> QED BY <1>1, <1>2, <1>3, TypesHold, UnreadSetKeeps DEF UnreadSet

\* A conversation list tells the page what is unread.
LEMMA ListArrivesKeeps ==
    ASSUME IInv, ListArrives
    PROVE  IInv'
<1>1. /\ news' = news \ OwnChats /\ ihu' \subseteq Inboxes
      /\ UNCHANGED <<open, posted, list, current, due, sent, turns>>
  BY TypesHold DEF ListArrives
<1>2. CASE news \cap OwnChats = {}
  <2>1. UNCHANGED <<workerVars, mail, unread>> /\ news' = news
    BY <1>1, <1>2 DEF ListArrives
  <2>2. TypeOK'
    BY <1>1, <2>1, TypesHold DEF TypeOK, workerVars
  <2> QED BY <2>1, <2>2, TypesHold DEF IInv, Types, BadgeOK, BadgeCountsAll, Quiet,
         Alone, AloneOK, Busy, workerVars
<1>3. CASE news \cap OwnChats # {}
  <2> DEFINE u == unread \cup (news \cap OwnChats)
  <2>1. UnreadSet(u)
    BY <1>3 DEF ListArrives
  <2>2. IsFiniteSet(u) /\ u \subseteq Chats
    BY TypesHold, FS_Union, FS_Subset
  <2>3. jobs' \in [Jobs -> Handlers] /\ BadgeOK'
    BY <2>1, CrowdedEffect
  <2> HIDE DEF u
  <2> QED BY <1>1, <2>1, <2>2, <2>3, TypesHold, UnreadSetKeeps DEF UnreadSet
<1> QED BY <1>2, <1>3

\* Opening a chat makes its conversation read.
LEMMA OpenChatKeeps ==
    ASSUME IInv, OpenChat
    PROVE  IInv'
<1>1. PICK c \in OwnChats :
        /\ turns' = turns + 1 /\ UnreadSet(unread \ {c})
        /\ UNCHANGED <<open, posted, list, ihu, current, news, due, sent>>
  BY DEF OpenChat
<1> DEFINE u == unread \ {c}
<1>2. IsFiniteSet(u) /\ u \subseteq Chats
  BY TypesHold, FS_Subset
<1>3. jobs' \in [Jobs -> Handlers] /\ BadgeOK'
  BY <1>1, CrowdedEffect
<1>4. turns' \in Nat
  BY <1>1, TypesHold
<1> HIDE DEF u
<1>5. unread' = u /\ BadgeEffect(u) /\ UNCHANGED <<badge, note, tally, asked, arrived>>
  BY <1>1 DEF UnreadSet, u
<1> QED BY <1>1, <1>2, <1>3, <1>4, <1>5, TypesHold, UnreadSetKeeps

\* The handler of a tap focuses the window, or opens one.
LEMMA FocusKeeps ==
    ASSUME IInv, NEW s \in Jobs, Focus(s)
    PROVE  IInv'
<1>1. jobs[s].pc = "focus" /\ UNCHANGED worldVars /\ ~Busy(s)
  BY DEF Focus, Busy, Writing
<1>2. CASE open
  <2>1. /\ jobs' = [jobs EXCEPT ![s] = NoJob]
        /\ UNCHANGED <<badge, icon, note, tally, exact, asked, arrived, pageVars>>
    BY <1>2 DEF Focus
  <2>2. jobs' \in [Jobs -> Handlers] /\ BadgeOK'
    BY <1>1, <2>1, TypesHold, NoJobFields, QuietStepKeeps DEF Writing
  <2> QED BY <1>1, <2>1, <2>2, TypesHold, HandlerKeeps DEF pageVars, worldVars
<1>3. CASE ~open
  <2>1. /\ Window /\ unread' = unread /\ BadgeEffect(unread)
        /\ jobs' = [Crowded EXCEPT ![s] = NoJob]
        /\ UNCHANGED <<badge, note, tally, asked, arrived>>
    BY <1>3 DEF Focus
  <2>2. jobs' \in [Jobs -> Handlers] /\ BadgeOK'
    BY <1>1, <2>1, CrowdedKeeps DEF BadgeEffect
  <2> QED BY <1>1, <2>1, <2>2, TypesHold, UnreadSetKeeps DEF Window, worldVars
<1> QED BY <1>2, <1>3

\* Steps that touch neither the handlers nor the count.
LEMMA OtherStepsKeep ==
    ASSUME IInv, CloseWindow \/ Switch \/ PostArrives \/ Absorb \/ MessageSent
    PROVE  IInv'
<1>1. UNCHANGED <<workerVars, mail, unread>>
  BY DEF CloseWindow, Switch, PostArrives, Absorb, MessageSent, pageVars
<1>2. Types' /\ IsFiniteSet(news')
  <2>1. CASE CloseWindow
    <3>1. /\ turns' \in Nat /\ list' = {} /\ posted' = {}
          /\ UNCHANGED <<workerVars, mail, unread, ihu, current, news, due, sent>>
      BY <2>1, TypesHold DEF CloseWindow
    <3>2. open' \in BOOLEAN
      BY <2>1 DEF CloseWindow
    <3> QED BY <3>1, <3>2, TypesHold DEF Types, TypeOK, workerVars
  <2>2. CASE Switch
    BY <1>1, <2>2, TypesHold DEF Switch, Types, TypeOK, workerVars
  <2>3. CASE PostArrives
    BY <1>1, <2>3, TypesHold DEF PostArrives, Listened, Types, TypeOK, workerVars,
       worldVars
  <2>4. CASE Absorb
    BY <1>1, <2>4, TypesHold DEF Absorb, Types, TypeOK, workerVars, worldVars
  <2>5. CASE MessageSent
    <3>1. PICK c \in Chats :
            /\ sent' = sent + 1 /\ news' = news \cup {c}
            /\ due' = due \/ due' = [due EXCEPT ![Owner[c]] = @ + 1]
            /\ UNCHANGED <<pageVars, turns>>
      BY <2>5 DEF MessageSent
    <3>2. sent' \in Nat /\ news' \subseteq Chats /\ due' \in [Inboxes -> Nat]
      BY <3>1, TypesHold, SMTT(30)
    <3>3. IsFiniteSet(news')
      BY <3>1, TypesHold, FS_AddElement
    <3> QED BY <1>1, <3>1, <3>2, <3>3, TypesHold DEF Types, TypeOK, workerVars, pageVars
  <2> QED BY <2>1, <2>2, <2>3, <2>4, <2>5 
<1>3. BadgeOK'
  BY <1>1, TypesHold DEF BadgeOK, BadgeCountsAll, Quiet, Alone, AloneOK, Busy,
     workerVars
<1> QED BY <1>1, <1>2, <1>3, TypesHold DEF IInv

-----------------------------------------------------------------------------

\* There is nothing to count at the start.
LEMMA InitHolds ==
    ASSUME Init
    PROVE  IInv
<1>1. TypeOK /\ IsFiniteSet(unread) /\ IsFiniteSet(news)
  <2>1. /\ badge \in Nat /\ icon \in Nat /\ tally \in Nat /\ asked \in Nat
        /\ arrived \in Nat /\ sent \in Nat /\ turns \in Nat /\ mail \in Seq(Nat)
        /\ due \in [Inboxes -> Nat]
    BY DEF Init
  <2>2. note \in BOOLEAN /\ exact \in BOOLEAN /\ open \in BOOLEAN
    BY DEF Init
  <2>3. jobs \in [Jobs -> JobType]
    BY NoJobFields DEF Init, Handlers
  <2>4. /\ posted = {} /\ list = {} /\ unread = {} /\ ihu = {} /\ news = {}
        /\ current \in Inboxes
    BY DEF Init
  <2> QED BY <2>1, <2>2, <2>3, <2>4, FS_EmptySet DEF TypeOK
<1>2. jobs \in [Jobs -> Handlers] /\ \A s \in Jobs : ~Busy(s)
  BY NoJobFields DEF Init, Handlers, Busy, Writing
<1>3. BadgeOK
  BY <1>2 DEF Init, BadgeOK, BadgeCountsAll, Alone
<1> QED BY <1>1, <1>2, <1>3 DEF IInv, Types

\* The inductive invariant holds in every state of every behaviour.
THEOREM Invariance == Spec => []IInv
<1>1. Init => IInv
  BY InitHolds
<1>2. IInv /\ [Next]_vars => IInv'
  <2> SUFFICES ASSUME IInv, [Next]_vars PROVE IInv'
    OBVIOUS
  <2>1. ASSUME NEW s \in Jobs, PushArrives(s) \/ NoteTapped(s) \/ MailArrives(s)
        PROVE  IInv'
    BY <2>1, PushArrivesKeeps, NoteTappedKeeps, MailArrivesKeeps
  <2>2. ASSUME NEW s \in Jobs, HandlerStep(s) \/ Stopped(s) PROVE IInv'
    BY <2>2, ReadCountKeeps, WriteCountKeeps, SetIconKeeps, CountFailsKeeps,
       NotifyKeeps, PostInboxKeeps, FocusKeeps DEF HandlerStep
  <2>3. CASE OpenWindow \/ ListArrives \/ OpenChat
    BY <2>3, OpenWindowKeeps, ListArrivesKeeps, OpenChatKeeps
  <2>4. CASE CloseWindow \/ Switch \/ PostArrives \/ Absorb \/ MessageSent
    BY <2>4, OtherStepsKeep
  <2>5. CASE UNCHANGED vars
    BY <2>5 DEF vars, workerVars, pageVars, worldVars, IInv, Types, TypeOK, BadgeOK,
       BadgeCountsAll, Quiet, Alone, AloneOK, Busy
  <2> QED BY <2>1, <2>2, <2>3, <2>4, <2>5 DEF Next
<1> QED BY <1>1, <1>2, PTL DEF Spec

\* Every variable of the service worker and of the page has its type (sw.js).
THEOREM TypeCorrect == Spec => []TypeOK
<1>1. IInv => TypeOK
  BY DEF IInv, Types
<1> QED BY Invariance, <1>1, PTL

\* When no handler is in setBadgeCount and none met another there, failed or
\* was stopped since the count was last set, the badge counts every push.
THEOREM BadgeIsRight == Spec => []BadgeCountsAll
<1>1. IInv => BadgeCountsAll
  BY DEF IInv, BadgeOK
<1> QED BY Invariance, <1>1, PTL
=============================================================================
