-------------------------------- MODULE Watch --------------------------------
(***************************************************************************)
(* Change notifications: rust/src/watch.rs, and the half of                *)
(* Database::commit and Database::restore (rust/src/lib.rs) that feeds it. *)
(*                                                                         *)
(* Writer threads commit under the engine lock, collecting the changes to  *)
(* publish before the versions become visible, and publish them after they *)
(* have released it, under the registry's lock but push by push.  Each     *)
(* watcher has one consumer thread, which polls, waits on the condition    *)
(* variable and can be woken.  `got', `told' and `owed' are auxiliary:     *)
(* what a consumer has taken, how many losses it was told of, and what a   *)
(* watcher that was there when a commit began has a right to.              *)
(*                                                                         *)
(* A change carries the place of its commit in the commit order instead of *)
(* commit_ts: the two agree until a restore, which sets the timestamps to  *)
(* whatever the backup had.                                                *)
(***************************************************************************)
EXTENDS Integers, Sequences, FiniteSets, Functions

CONSTANTS
    Writers,   \* threads that commit
    Watchers,  \* subscriptions, each made at most once
    Keys,
    Observed,  \* [Watchers -> SUBSET Keys]: the keys under each prefix
    Valued,    \* the watchers with WatchOptions::values
    WatchSettings, \* what a behaviour may be set to: WatchOptions::capacity, who
                   \* commits and subscribes, and bounds on commits, restores and
                   \* the keys written
    Nobody

ASSUME WatchAssumption ==
    /\ Observed \in [Watchers -> SUBSET Keys]
    /\ Valued \subseteq Watchers
    /\ Nobody \notin Writers
    /\ WatchSettings \subseteq [writers : SUBSET Writers, watchers : SUBSET Watchers,
                                keys : SUBSET Keys, capacity : Nat \ {0}, commits : Nat,
                                restores : Nat]

VARIABLES
    next_nth, \* the place in the commit order of the next commit
    engine,   \* the writer inside Database::commit, or Nobody
    writer,   \* [pc, writes, changes] of each writer
    subs,     \* Registry::subs, in subscription order
    publisher,\* the writer inside Registry::publish, or Nobody
    work,     \* pushes it still has to do: <<watcher, change>>
    state,    \* [queue, dropped, closed, woken] of each watcher
    consumer, \* "none", "idle", "waiting" or "notified" in poll, "gone"
    open,     \* the database has not been dropped
    restores, \* restores so far
    limits,   \* the member of WatchSettings that holds throughout
    got, told, owed

watchvars == <<next_nth, engine, writer, subs, publisher, work, state, consumer, open,
               restores, limits, got, told, owed>>

Change(kind, key, value, nth) ==
    [kind |-> kind, key |-> key, value |-> value, nth |-> nth]
Reset == Change("Reset", Nobody, FALSE, 0)

(* What a commit writes to each of its keys.                               *)
WriteSets == UNION {[K -> {"Put", "Delete"}] : K \in SUBSET limits.keys \ {{}}}
NoWrites == [k \in {} |-> "Put"]
Idle == [pc |-> "idle", writes |-> NoWrites, changes |-> <<>>]

TypeOK ==
    /\ next_nth \in 1 .. (limits.commits + 1)
    /\ engine \in Writers \cup {Nobody} /\ publisher \in Writers \cup {Nobody}
    /\ \A w \in Writers : writer[w].pc \in {"idle", "collect", "finish", "publish", "push"}
    /\ \A w \in Writers : (engine = w) = (writer[w].pc \in {"collect", "finish"})
    /\ \A w \in Writers : (publisher = w) = (writer[w].pc = "push")
    /\ Range(subs) \subseteq Watchers /\ IsInjective(subs)
    /\ publisher = Nobody => work = <<>>
    /\ \A s \in Watchers : /\ Len(state[s].queue) <= limits.capacity
                           /\ state[s].dropped \in Nat
                           /\ consumer[s] \in {"none", "idle", "waiting", "notified", "gone"}

-----------------------------------------------------------------------------
(* Commits.                                                                *)

(* The log is durable.  pending_changes first asks whether anyone listens. *)
StartCommit(w, writes) ==
    /\ open
    /\ writer[w].pc = "idle"
    /\ engine = Nobody
    /\ next_nth <= limits.commits
    /\ engine' = w
    /\ writer' = [writer EXCEPT ![w] =
                    [pc |-> IF subs = <<>> THEN "finish" ELSE "collect",
                     writes |-> writes, changes |-> <<>>]]
    /\ owed' = [s \in Watchers |->
                    IF s \in Range(subs)
                    THEN owed[s] \cup {<<next_nth, k>> : k \in DOMAIN writes \cap Observed[s]}
                    ELSE owed[s]]
    /\ UNCHANGED <<next_nth, subs, publisher, work, state, consumer, open, restores,
                   got, told, limits>>

(* Wrong on purpose: asks whether everybody wants values.                  *)
AllWantValues == \A s \in Range(subs) : s \in Valued

wants_values == \E s \in Range(subs) : s \in Valued

(* wants_values under the registry's lock, then one change per write.      *)
Collect(w) ==
    /\ writer[w].pc = "collect"
    /\ publisher = Nobody
    /\ LET writes == writer[w].writes
           ChangeTo(k) == Change(writes[k], k, wants_values /\ writes[k] = "Put", next_nth)
           keys == CHOOSE f \in Bijection(1 .. Cardinality(DOMAIN writes), DOMAIN writes) : TRUE
       IN  writer' = [writer EXCEPT
                        ![w].changes = [i \in 1 .. Len(keys) |-> ChangeTo(keys[i])],
                        ![w].pc = "finish"]
    /\ UNCHANGED <<next_nth, engine, subs, publisher, work, state, consumer, open,
                   restores, got, told, owed, limits>>

(* versions.commit, any checkpoint, and the engine lock is dropped.        *)
FinishCommit(w) ==
    /\ writer[w].pc = "finish"
    /\ next_nth' = next_nth + 1
    /\ engine' = Nobody
    /\ writer' = [writer EXCEPT ![w] =
                    IF @.changes = <<>> THEN Idle ELSE [@ EXCEPT !.pc = "publish"]]
    /\ UNCHANGED <<subs, publisher, work, state, consumer, open, restores, got, told, owed, limits>>

(* Database::restore has swapped the contents and dropped the engine lock. *)
Restore(w) ==
    /\ open
    /\ writer[w].pc = "idle"
    /\ engine = Nobody
    /\ restores < limits.restores
    /\ restores' = restores + 1
    /\ writer' = [writer EXCEPT ![w] = [Idle EXCEPT !.pc = "publish", !.changes = <<Reset>>]]
    /\ UNCHANGED <<next_nth, engine, subs, publisher, work, state, consumer, open,
                   got, told, owed, limits>>

-----------------------------------------------------------------------------
(* Registry::publish.                                                      *)

Matches(s, change) == change.kind = "Reset" \/ change.key \in Observed[s]

PushesFor(s, changes) ==
    LET mine == SelectSeq(changes, LAMBDA c : Matches(s, c))
    IN  [i \in 1 .. Len(mine) |-> <<s, mine[i]>>]

StartPublish(w) ==
    /\ writer[w].pc = "publish"
    /\ publisher = Nobody
    /\ publisher' = w
    /\ work' = LET upTo[n \in 0 .. Len(subs)] ==
                     IF n = 0 THEN <<>> ELSE upTo[n - 1] \o PushesFor(subs[n], writer[w].changes)
               IN  upTo[Len(subs)]
    /\ writer' = [writer EXCEPT ![w].pc = "push"]
    /\ UNCHANGED <<next_nth, engine, subs, state, consumer, open, restores, got, told, owed, limits>>

Notify(s) == [consumer EXCEPT ![s] = IF @ = "waiting" THEN "notified" ELSE @]

Full(s) == Len(state[s].queue) >= limits.capacity

(* When the queue is full the oldest change makes room.                    *)
Enqueue(s, change) ==
    Append(IF Full(s) THEN Tail(state[s].queue) ELSE state[s].queue, change)

(* Shared::push.                                                           *)
Push(w) ==
    /\ publisher = w
    /\ work # <<>>
    /\ LET s == Head(work)[1]
           change == [Head(work)[2] EXCEPT !.value = @ /\ s \in Valued]
       IN  IF state[s].closed
           THEN UNCHANGED <<state, consumer>>
           ELSE /\ state' = [state EXCEPT
                                ![s].queue = Enqueue(s, change),
                                ![s].dropped = IF Full(s) THEN @ + 1 ELSE @]
                /\ consumer' = Notify(s)
    /\ work' = Tail(work)
    /\ UNCHANGED <<next_nth, engine, writer, subs, publisher, open, restores, got, told, owed, limits>>

EndPublish(w) ==
    /\ publisher = w
    /\ work = <<>>
    /\ publisher' = Nobody
    /\ writer' = [writer EXCEPT ![w] = Idle]
    /\ UNCHANGED <<next_nth, engine, subs, work, state, consumer, open, restores, got, told, owed, limits>>

-----------------------------------------------------------------------------
(* Watchers.                                                               *)

Fresh == [queue |-> <<>>, dropped |-> 0, closed |-> FALSE, woken |-> FALSE]

Subscribe(s) ==
    /\ open
    /\ s \in limits.watchers
    /\ consumer[s] = "none"
    /\ publisher = Nobody
    /\ subs' = Append(subs, s)
    /\ consumer' = [consumer EXCEPT ![s] = "idle"]
    /\ UNCHANGED <<next_nth, engine, writer, publisher, work, state, open, restores,
                   got, told, owed, limits>>

(* Drop of the Watcher.                                                    *)
Unsubscribe(s) ==
    /\ consumer[s] = "idle"
    /\ publisher = Nobody
    /\ subs' = SelectSeq(subs, LAMBDA x : x # s)
    /\ consumer' = [consumer EXCEPT ![s] = "gone"]
    /\ UNCHANGED <<next_nth, engine, writer, publisher, work, state, open, restores,
                   got, told, owed, limits>>

(* Wrong on purpose: forgets the drops that nobody has asked about yet.    *)
TakeForgetsDrops(s) ==
    /\ UNCHANGED told
    /\ got' = [got EXCEPT ![s] = @ \o state[s].queue]
    /\ state' = [state EXCEPT ![s] = [Fresh EXCEPT !.closed = state[s].closed]]
    /\ consumer' = [consumer EXCEPT ![s] = "idle"]

(* The end of try_poll and of poll: drain the queue.                       *)
Take(s) ==
    /\ UNCHANGED told
    /\ got' = [got EXCEPT ![s] = @ \o state[s].queue]
    /\ state' = [state EXCEPT ![s].queue = <<>>, ![s].woken = FALSE]
    /\ consumer' = [consumer EXCEPT ![s] = "idle"]

MustWait(s) == state[s].queue = <<>> /\ ~state[s].closed /\ ~state[s].woken

Wait(s) ==
    /\ consumer' = [consumer EXCEPT ![s] = "waiting"]
    /\ UNCHANGED <<state, got, told>>

NotConsumers ==
    UNCHANGED <<next_nth, engine, writer, subs, publisher, work, open, restores, owed, limits>>

try_poll(s) == consumer[s] = "idle" /\ Take(s) /\ NotConsumers

poll(s) ==
    /\ consumer[s] = "idle"
    /\ IF MustWait(s) THEN Wait(s) ELSE Take(s)
    /\ NotConsumers

(* A notified poll looks again.                                            *)
Recheck(s) ==
    /\ consumer[s] = "notified"
    /\ IF MustWait(s) THEN Wait(s) ELSE Take(s)
    /\ NotConsumers

Timeout(s) == consumer[s] \in {"waiting", "notified"} /\ Take(s) /\ NotConsumers

(* Reads the drop count and resets it.                                     *)
TakeDropped(s) ==
    /\ consumer[s] = "idle"
    /\ state' = [state EXCEPT ![s].dropped = 0]
    /\ told' = [told EXCEPT ![s] = @ + state[s].dropped]
    /\ UNCHANGED <<consumer, got>>
    /\ NotConsumers

(* Wrong on purpose: sets the flag and notifies nobody.                    *)
WakeWithoutNotify(s) ==
    /\ consumer[s] \notin {"none", "gone"}
    /\ state' = [state EXCEPT ![s].woken = TRUE]
    /\ UNCHANGED <<consumer, got, told>>
    /\ NotConsumers

wake(s) ==
    /\ consumer[s] \notin {"none", "gone"}
    /\ state' = [state EXCEPT ![s].woken = TRUE]
    /\ consumer' = Notify(s)
    /\ UNCHANGED <<got, told>>
    /\ NotConsumers

(* Wrong on purpose: closes the watchers and leaves the sleepers asleep.   *)
CloseWithoutNotify ==
    /\ open
    /\ \A w \in Writers : writer[w].pc = "idle"
    /\ open' = FALSE
    /\ subs' = <<>>
    /\ state' = [s \in Watchers |->
                    IF s \in Range(subs) THEN [state[s] EXCEPT !.closed = TRUE] ELSE state[s]]
    /\ UNCHANGED <<next_nth, engine, writer, publisher, work, consumer, restores, got, told,
                   owed, limits>>

(* Drop of the Database: nobody is inside it any more.                     *)
close_all ==
    /\ open
    /\ \A w \in Writers : writer[w].pc = "idle"
    /\ open' = FALSE
    /\ subs' = <<>>
    /\ state' = [s \in Watchers |->
                    IF s \in Range(subs) THEN [state[s] EXCEPT !.closed = TRUE] ELSE state[s]]
    /\ consumer' = [s \in Watchers |->
                    IF s \in Range(subs) THEN Notify(s)[s] ELSE consumer[s]]
    /\ UNCHANGED <<next_nth, engine, writer, publisher, work, restores, got, told, owed, limits>>

-----------------------------------------------------------------------------
WatchInit ==
    /\ next_nth = 1
    /\ engine = Nobody /\ publisher = Nobody
    /\ writer = [w \in Writers |-> Idle]
    /\ subs = <<>> /\ work = <<>>
    /\ state = [s \in Watchers |-> Fresh]
    /\ consumer = [s \in Watchers |-> "none"]
    /\ open = TRUE
    /\ restores = 0
    /\ limits \in WatchSettings
    /\ got = [s \in Watchers |-> <<>>] /\ told = [s \in Watchers |-> 0]
    /\ owed = [s \in Watchers |-> {}]

WriterStep(w) ==
    \/ Collect(w) \/ FinishCommit(w) \/ StartPublish(w) \/ Push(w) \/ EndPublish(w)

WatchNext ==
    \/ \E w \in limits.writers :
        \/ \E writes \in WriteSets : StartCommit(w, writes)
        \/ Restore(w)
        \/ WriterStep(w)
    \/ \E s \in Watchers :
        \/ Subscribe(s) \/ Unsubscribe(s)
        \/ try_poll(s) \/ poll(s) \/ Recheck(s) \/ Timeout(s)
        \/ TakeDropped(s) \/ wake(s)
    \/ close_all

(* A commit that started runs on: the code between its locks is            *)
(* straight-line.  A thread that was notified runs again.  Timeouts are    *)
(* not relied on.                                                          *)
Fairness ==
    /\ \A w \in Writers : WF_watchvars(WriterStep(w))
    /\ \A s \in Watchers : WF_watchvars(Recheck(s))

WatchSpec == WatchInit /\ [][WatchNext]_watchvars /\ Fairness

-----------------------------------------------------------------------------
(* Properties.                                                             *)

(* Everything that has reached a watcher and not been dropped, in order.   *)
Stream(s) == got[s] \o state[s].queue

Concerns(change, nth, k) == change.nth = nth /\ change.key = k

(* The nth commit has not come to the end of publishing to s.            *)
InFlight(s, nth, k) ==
    \/ engine # Nobody /\ nth = next_nth
    \/ \E w \in Writers : /\ writer[w].pc = "publish"
                         /\ \E c \in Range(writer[w].changes) : Concerns(c, nth, k)
    \/ \E p \in Range(work) : p[1] = s /\ Concerns(p[2], nth, k)

(* A watcher that subscribed before a commit began misses none of its      *)
(* changes, whatever else subscribes, polls or commits meanwhile, except   *)
(* for as many as Watcher::dropped reports (watch.rs:12-15).               *)
NothingLostSilently ==
    \A s \in Watchers : consumer[s] \notin {"none", "gone"} =>
        Cardinality({x \in owed[s] :
                        /\ ~InFlight(s, x[1], x[2])
                        /\ \A c \in Range(Stream(s)) : ~Concerns(c, x[1], x[2])})
            <= told[s] + state[s].dropped

(* The changes of one commit reach a watcher together: another commit's    *)
(* never come in between, because publish holds the registry's lock        *)
(* throughout (watch.rs:286-298).                                          *)
CommitsContiguous ==
    \A s \in Watchers : LET c == Stream(s) IN
        \A i, j \in 1 .. Len(c) : i < j /\ c[i].nth = c[j].nth /\ c[i].nth # 0 =>
            \A m \in i .. j : c[m].nth = c[i].nth

(* A watcher that asked for values and was there when a commit began gets  *)
(* the value of every key it put: what wants_values saw still holds when   *)
(* the changes are pushed (lib.rs:505-530).                                *)
ValuesForTheOwed ==
    \A s \in Valued : \A c \in Range(Stream(s)) :
        c.kind = "Put" /\ <<c.nth, c.key>> \in owed[s] => c.value

(* A commit arrives whole: its changes together, within the queue, and     *)
(* with the values that were asked for.                                    *)
CommitsArriveWhole == TypeOK /\ CommitsContiguous /\ ValuesForTheOwed

(* No wake-up is lost: a consumer asleep in poll that nobody has notified  *)
(* has nothing to return for (watch.rs:109-130, 160-188).                  *)
SleepersHaveNothing ==
    \A s \in Watchers : consumer[s] = "waiting" => MustWait(s)

(* A poll that has a reason to return does so without its timeout: a       *)
(* change, Watcher::wake, or the database going away.                      *)
PollReturns ==
    \A s \in Watchers :
        consumer[s] \in {"waiting", "notified"} /\ ~MustWait(s) ~> consumer[s] = "idle"

(* A commit returns however slow or absent the consumers are.              *)
CommitsReturn ==
    \A w \in Writers : writer[w].pc # "idle" ~> writer[w].pc = "idle"

(* Nobody waits for ever: neither a poll with a reason to return           *)
(* (watch.rs:160-188) nor a commit behind slow consumers (lib.rs:455-473). *)
NobodyWaitsForever == PollReturns /\ CommitsReturn

(* Claimed by watch.rs:12-13 and 71: changes arrive in commit order.       *)
InCommitOrder ==
    \A s \in Watchers : LET c == Stream(s) IN
        \A i, j \in 1 .. Len(c) : i < j /\ c[j].nth # 0 => c[i].nth <= c[j].nth
=============================================================================
