------------------------------ MODULE Isolates -------------------------------
(***************************************************************************)
(* The asynchronous Dart client over the shared engine of Handles:         *)
(*   worker.dart        a supervised worker isolate that owns a handle and *)
(*                      answers requests in order;                         *)
(*   watch_isolate.dart a subscription, on an isolate and a handle of its  *)
(*                      own;                                               *)
(*   isolate_worker.dart  AsyncPhoenixDB, which closes both.               *)
(*                                                                         *)
(* Isolates share nothing and send each other messages.  The Dart VM is    *)
(* external: an isolate's messages to another arrive in the order they     *)
(* were sent, a port keeps its messages until someone listens, those to a  *)
(* closed port are lost, an uncaught error ends an isolate, and the native *)
(* finalizer then closes the handle it leaves.                             *)
(***************************************************************************)
EXTENDS Handles, Sequences, FiniteSets, SequencesExt

CONSTANTS
    Closers,  \* the calls of AsyncPhoenixDB::close; several may overlap
    Settings  \* bounds of a behaviour, and what may happen in it: `calls', the
              \* requests a client makes; `events', of which "die" a worker ends
              \* by an uncaught error, "watch" a subscription is made, "cancel"
              \* it is cancelled, "spawn" its isolate does not start, "break" its polls
              \* fail, "app" another isolate opens the file too, "other" another
              \* process does, "fail" opens fail

ASSUME IsolatesAssumption ==
    /\ {"worker", "watch", "app"} = Holders
    /\ "cancel" \notin Closers
    /\ Settings \subseteq [calls : Nat, closers : SUBSET Closers, events : SUBSET
                            {"die", "watch", "cancel", "break", "spawn", "app", "other", "fail"}]

VARIABLES
    client,   \* WorkerClient: [pc, closed, dead, ports]; ports says whether its
              \* three ports are open
    calls,    \* what has become of each call, by id: "pending", "ok", "error"
    worker,   \* the worker isolate: [pc, listened], whether its exit is reported
    commands, \* requests on their way to the worker: [id, final]
    inbox,    \* messages on their way back: [port, msg, id]
    session,  \* WatchSession: [pc, stopped, control, events]; events says whether
              \* its port is open
    watch,    \* the watcher isolate: [pc, stop]
    control,  \* stop messages on their way to it
    news,     \* its messages on their way back
    stopper,  \* who is inside WatchSession::stop or AsyncPhoenixDB::close, and where
    final,    \* the id of each close's request
    setting

workervars == <<client, calls, worker, commands, inbox>>
watchvars == <<session, watch, control, news>>
isovars == <<workervars, watchvars, stopper, final, setting>>
allvars == <<handlevars, isovars>>

May(event) == event \in setting.events

Stoppers == Closers \cup {"cancel"}
Ids == DOMAIN calls
Pending == {i \in Ids : calls[i] = "pending"}
Settle(ids, outcome) == [i \in Ids |-> IF i \in ids THEN outcome ELSE calls[i]]

-----------------------------------------------------------------------------
(* The worker isolate: serveWorker.                                        *)

Message(port, msg, id) == [port |-> port, msg |-> msg, id |-> id]

(* Requests sent to an isolate that no longer listens are lost.            *)
Listening == worker.pc \in {"opening", "serving", "closing"}
Request(id, is_final) ==
    commands' = IF Listening THEN Append(commands, [id |-> id, final |-> is_final])
                ELSE commands

(* The entry point runs: it opens the database.                            *)
WorkerStarts ==
    /\ client.pc = "spawning" /\ worker.pc = "off"
    /\ CallOpen("worker")
    /\ worker' = [worker EXCEPT !.pc = "opening"]
    /\ UNCHANGED <<client, calls, commands, inbox, watchvars, stopper, final, setting>>

WorkerOpens ==
    /\ worker.pc = "opening"
    /\ \/ /\ handle["worker"].pc = "open"
          /\ inbox' = Append(inbox, Message("ready", "port", 0))
          /\ worker' = [worker EXCEPT !.pc = "serving"]
       \/ /\ handle["worker"].pc = "failed"
          /\ inbox' = Append(inbox, Message("ready", "failure", 0))
          /\ worker' = [worker EXCEPT !.pc = "ending"]
    /\ UNCHANGED <<handlevars, client, calls, commands, watchvars, stopper, final, setting>>

(* An ordinary request: a result, or the error the handler threw.          *)
Serve ==
    /\ worker.pc = "serving" /\ commands # <<>> /\ ~Head(commands).final
    /\ \E outcome \in {"ok", "error"} :
            inbox' = Append(inbox, Message("responses", outcome, Head(commands).id))
    /\ commands' = Tail(commands)
    /\ UNCHANGED <<handlevars, client, calls, worker, watchvars, stopper, final, setting>>

ServeFinal ==
    /\ worker.pc = "serving" /\ commands # <<>> /\ Head(commands).final
    /\ CallClose("worker")
    /\ worker' = [worker EXCEPT !.pc = "closing"]
    /\ UNCHANGED <<client, calls, commands, inbox, watchvars, stopper, final, setting>>

(* Whatever the close came to, the commands port is closed.                *)
AnswerFinal ==
    /\ worker.pc = "closing" /\ handle["worker"].pc = "closed"
    /\ \E outcome \in {"ok", "error"} :
            inbox' = Append(inbox, Message("responses", outcome, Head(commands).id))
    /\ commands' = <<>>
    /\ worker' = [worker EXCEPT !.pc = "ending"]
    /\ UNCHANGED <<handlevars, client, calls, watchvars, stopper, final, setting>>

(* An error nobody catches: onError hears of it at once.                   *)
WorkerDies ==
    /\ May("die")
    /\ worker.pc = "serving"
    /\ inbox' = Append(inbox, Message("errors", "crash", 0))
    /\ CallClose("worker")
    /\ commands' = <<>>
    /\ worker' = [worker EXCEPT !.pc = "dying"]
    /\ UNCHANGED <<client, calls, watchvars, stopper, final, setting>>

(* The isolate is gone: onExit, and the exit listener if there is one yet. *)
WorkerExits ==
    /\ \/ worker.pc = "ending"
       \/ worker.pc = "dying" /\ handle["worker"].pc = "closed"
    /\ inbox' = inbox \o <<Message("ready", "null", 0)>> \o
                IF worker.listened THEN <<Message("exit", "null", 0)>> ELSE <<>>
    /\ worker' = [worker EXCEPT !.pc = "exited"]
    /\ UNCHANGED <<handlevars, client, calls, commands, watchvars, stopper, final, setting>>

(* addOnExitListener reaches the isolate.                                  *)
WorkerListened ==
    /\ client.pc \in {"booting", "up"} /\ ~worker.listened
    /\ worker.pc # "exited"
    /\ worker' = [worker EXCEPT !.listened = TRUE]
    /\ UNCHANGED <<handlevars, client, calls, commands, inbox, watchvars, stopper, final,
                   setting>>

-----------------------------------------------------------------------------
(* The client side: WorkerClient.                                          *)

Spawn ==
    /\ client.pc = "none"
    /\ client' = [client EXCEPT !.pc = "spawning"]
    /\ UNCHANGED <<handlevars, calls, worker, commands, inbox, watchvars, stopper, final,
                   setting>>

Spawned ==
    /\ client.pc = "spawning" /\ worker.pc # "off"
    /\ client' = [client EXCEPT !.pc = "booting"]
    /\ UNCHANGED <<handlevars, calls, worker, commands, inbox, watchvars, stopper, final,
                   setting>>

(* The first message on one of these ports, with what comes before it kept *)
(* for its own listener.                                                   *)
IsNext(n, ports) ==
    /\ inbox[n].port \in ports
    /\ \A m \in 1 .. (n - 1) : inbox[m].port \notin ports

(* ready.first.                                                            *)
Booted ==
    /\ client.pc = "booting"
    /\ \E n \in 1 .. Len(inbox) :
        /\ IsNext(n, {"ready"})
        /\ IF inbox[n].msg = "port"
           THEN /\ client' = [client EXCEPT !.pc = "up", !.ports = TRUE]
                /\ inbox' = SelectSeq(inbox, LAMBDA m : m.port # "ready")
           ELSE /\ client' = [client EXCEPT !.pc = "failed"]
                /\ inbox' = <<>>
    /\ UNCHANGED <<handlevars, calls, worker, commands, watchvars, stopper, final, setting>>

(* Wrong on purpose: marks the client dead and forgets who is waiting.     *)
FailForgetting ==
    /\ client' = [client EXCEPT !.dead = TRUE, !.ports = FALSE]
    /\ inbox' = <<>>
    /\ UNCHANGED calls

(* _fail: every call in flight fails, and the ports are closed.            *)
Fail ==
    /\ client' = [client EXCEPT !.dead = TRUE, !.ports = FALSE]
    /\ inbox' = <<>>
    /\ calls' = Settle(Pending, "error")

(* The listeners of the three ports; a null left on the ready port is      *)
(* nobody's.                                                               *)
Deliver ==
    /\ client.ports
    /\ \E n \in 1 .. Len(inbox) :
        /\ IsNext(n, {"responses", "errors", "exit"})
        /\ IF inbox[n].port = "responses"
           THEN /\ calls' = Settle(Pending \cap {inbox[n].id}, inbox[n].msg)
                /\ inbox' = SelectSeq(SubSeq(inbox, n + 1, Len(inbox)), LAMBDA m : m.port # "ready")
                /\ UNCHANGED client
           ELSE Fail
    /\ UNCHANGED <<handlevars, worker, commands, watchvars, stopper, final, setting>>

(* call: refused, or pending under the next id.                            *)
DoCall(is_final) ==
    IF client.dead \/ client.closed
    THEN calls' = Append(calls, "error") /\ UNCHANGED commands
    ELSE calls' = Append(calls, "pending") /\ Request(Len(calls) + 1, is_final)

Call ==
    /\ client.pc = "up"
    /\ Cardinality(Ids) < setting.calls
    /\ DoCall(FALSE)
    /\ UNCHANGED <<handlevars, client, worker, inbox, watchvars, stopper, final, setting>>

-----------------------------------------------------------------------------
(* The watcher isolate: _watchMain.                                        *)

WatchStarts ==
    /\ session.pc = "spawning" /\ watch.pc = "off"
    /\ CallOpen("watch")
    /\ watch' = [watch EXCEPT !.pc = "opening"]
    /\ UNCHANGED <<workervars, session, control, news, stopper, final, setting>>

Tell(msgs) == news' = IF session.events THEN news \o msgs ELSE news

WatchOpens ==
    /\ watch.pc = "opening"
    /\ \/ /\ handle["watch"].pc = "open"
          /\ Tell(<<"ready">>)
          /\ watch' = [watch EXCEPT !.pc = "polling"]
       \/ /\ handle["watch"].pc = "failed"
          /\ Tell(<<"failed">>)
          /\ watch' = [watch EXCEPT !.pc = "ending"]
    /\ UNCHANGED <<handlevars, workervars, session, control, stopper, final, setting>>

(* A poll returns, with changes or without; bound: one batch on its way.   *)
Poll ==
    /\ watch.pc = "polling"
    /\ \/ UNCHANGED news
       \/ "batch" \notin ToSet(news) /\ Tell(<<"batch">>)
    /\ watch' = [watch EXCEPT !.pc = "yielding"]
    /\ UNCHANGED <<handlevars, workervars, session, control, stopper, final, setting>>

(* Wrong on purpose: goes on polling without a turn of the event loop.     *)
PollOn ==
    /\ watch.pc = "yielding"
    /\ watch' = [watch EXCEPT !.pc = "polling"]
    /\ UNCHANGED <<handlevars, workervars, session, control, news, stopper, final, setting>>

(* Future.delayed: the control port is served before the loop goes on.     *)
Yield ==
    /\ watch.pc = "yielding"
    /\ control' = 0
    /\ watch' = [stop |-> watch.stop \/ control > 0,
                 pc |-> IF watch.stop \/ control > 0 THEN "stopping" ELSE "polling"]
    /\ UNCHANGED <<handlevars, workervars, session, news, stopper, final, setting>>

(* Out of the loop: the watcher and then the handle are closed.            *)
WatchCloses ==
    /\ watch.pc = "stopping"
    /\ CallClose("watch")
    /\ watch' = [watch EXCEPT !.pc = "closing"]
    /\ UNCHANGED <<workervars, session, control, news, stopper, final, setting>>

(* A poll fails: the session is told and the loop ends.  Or its error is   *)
(* not one the loop catches, and onError hears of it.                      *)
WatchBreaks ==
    /\ May("break")
    /\ watch.pc = "polling"
    /\ \/ Tell(<<"failed">>) /\ watch' = [watch EXCEPT !.pc = "stopping"] /\ UNCHANGED handlevars
       \/ Tell(<<"crash">>) /\ watch' = [watch EXCEPT !.pc = "closing"] /\ CallClose("watch")
    /\ UNCHANGED <<workervars, session, control, stopper, final, setting>>

WatchExits ==
    /\ \/ watch.pc = "ending"
       \/ watch.pc = "closing" /\ handle["watch"].pc = "closed"
    /\ Tell(<<"null">>)
    /\ watch' = [watch EXCEPT !.pc = "exited"]
    /\ UNCHANGED <<handlevars, workervars, session, control, stopper, final, setting>>

-----------------------------------------------------------------------------
(* The client side: WatchSession.                                          *)

(* stop messages reach an isolate whose control port is open.              *)
SendStop == control' = IF watch.pc \in {"polling", "yielding"} THEN control + 1 ELSE control

Listen ==
    /\ May("watch")
    /\ client.pc = "up" /\ session.pc = "none"
    /\ \A c \in Closers : stopper[c] = "no"
    /\ session' = [session EXCEPT !.pc = "spawning", !.events = TRUE]
    /\ UNCHANGED <<handlevars, workervars, watch, control, news, stopper, final, setting>>

(* _finish.                                                                *)
Finish ==
    /\ session' = [session EXCEPT !.stopped = TRUE, !.events = FALSE]
    /\ news' = <<>>

(* Isolate.spawn returns; a session stopped meanwhile is stopped again.    *)
SessionSpawned ==
    /\ session.pc = "spawning" /\ watch.pc # "off"
    /\ IF session.stopped
       THEN /\ session' = [session EXCEPT !.pc = "running", !.events = FALSE]
            /\ news' = <<>>
       ELSE session' = [session EXCEPT !.pc = "running"] /\ UNCHANGED news
    /\ UNCHANGED <<handlevars, workervars, watch, control, stopper, final, setting>>

(* Isolate.spawn fails: the session is told of it and is done.             *)
SpawnFails ==
    /\ May("spawn")
    /\ session.pc = "spawning" /\ watch.pc = "off"
    /\ session' = [pc |-> "running", stopped |-> TRUE, events |-> FALSE, control |-> session.control]
    /\ news' = <<>>
    /\ UNCHANGED <<handlevars, workervars, watch, control, stopper, final, setting>>

(* The listener of the events port.                                        *)
Hear ==
    /\ session.events /\ news # <<>>
    /\ CASE Head(news) = "ready" ->
                /\ session' = [session EXCEPT !.control = TRUE]
                /\ IF session.stopped THEN SendStop ELSE UNCHANGED control
                /\ news' = Tail(news)
         [] Head(news) \in {"batch", "crash"} ->
                news' = Tail(news) /\ UNCHANGED <<session, control>>
         [] Head(news) \in {"failed", "null"} -> Finish /\ UNCHANGED control
    /\ UNCHANGED <<handlevars, workervars, watch, stopper, final, setting>>

(* stop, by whom and what that one does next: after a first stop it waits  *)
(* for the poll to run out, and then finishes.                             *)
Stop(s, next) ==
    IF session.stopped
    THEN Finish /\ UNCHANGED control /\ stopper' = [stopper EXCEPT ![s] = next]
    ELSE /\ session' = [session EXCEPT !.stopped = TRUE]
         /\ IF session.control THEN SendStop ELSE UNCHANGED control
         /\ stopper' = [stopper EXCEPT ![s] = "stopping"]
         /\ UNCHANGED news

(* The subscription is cancelled.                                          *)
Cancel ==
    /\ May("cancel")
    /\ stopper["cancel"] = "no" /\ session.pc # "none"
    /\ Stop("cancel", "done")
    /\ UNCHANGED <<handlevars, workervars, watch, final, setting>>

Waited(s) ==
    /\ stopper[s] = "stopping"
    /\ Finish
    /\ stopper' = [stopper EXCEPT ![s] = IF s = "cancel" THEN "done" ELSE "worker"]
    /\ UNCHANGED <<handlevars, workervars, watch, control, final, setting>>

-----------------------------------------------------------------------------
(* AsyncPhoenixDB::close.                                                  *)

(* The subscription is one of _watchers until its stream is done.          *)
Watching == session.pc # "none" /\ session.events

StartClose(c) ==
    /\ c \in setting.closers
    /\ client.pc = "up" /\ stopper[c] = "no"
    /\ IF Watching
       THEN Stop(c, "worker")
       ELSE /\ stopper' = [stopper EXCEPT ![c] = "worker"]
            /\ UNCHANGED <<session, control, news>>
    /\ UNCHANGED <<handlevars, workervars, watch, final, setting>>

(* WorkerClient::close, up to its await.                                   *)
CloseWorker(c) ==
    /\ stopper[c] = "worker"
    /\ IF client.closed \/ client.dead
       THEN /\ client' = [client EXCEPT !.closed = TRUE]
            /\ stopper' = [stopper EXCEPT ![c] = "done"]
            /\ UNCHANGED <<calls, commands, final>>
       ELSE /\ DoCall(TRUE)
            /\ final' = [final EXCEPT ![c] = Len(calls')]
            /\ stopper' = [stopper EXCEPT ![c] = "waiting"]
            /\ UNCHANGED client
    /\ UNCHANGED <<handlevars, worker, inbox, watchvars, setting>>

(* Its finally, when the request has been answered or has failed.          *)
CloseEnds(c) ==
    /\ stopper[c] = "waiting" /\ calls[final[c]] # "pending"
    /\ client' = [client EXCEPT !.closed = TRUE, !.ports = FALSE]
    /\ calls' = Settle(Pending, "error")
    /\ inbox' = <<>>
    /\ stopper' = [stopper EXCEPT ![c] = "done"]
    /\ UNCHANGED <<handlevars, worker, commands, watchvars, final, setting>>

-----------------------------------------------------------------------------
IsolatesInit ==
    /\ HandlesInit
    /\ setting \in Settings
    /\ client = [pc |-> "none", closed |-> FALSE, dead |-> FALSE, ports |-> FALSE]
    /\ calls = <<>> /\ commands = <<>> /\ inbox = <<>>
    /\ worker = [pc |-> "off", listened |-> FALSE]
    /\ session = [pc |-> "none", stopped |-> FALSE, control |-> FALSE, events |-> FALSE]
    /\ watch = [pc |-> "off", stop |-> FALSE]
    /\ control = 0 /\ news = <<>>
    /\ stopper = [s \in Stoppers |-> "no"]
    /\ final = [c \in Closers |-> 0]

(* Another isolate with a handle of its own, once; another process.        *)
AppOpens == May("app") /\ handle["app"].pc = "none" /\ CallOpen("app") /\ UNCHANGED isovars
AppCloses == CallClose("app") /\ UNCHANGED isovars
ElseProcess == May("other") /\ OtherProcess /\ UNCHANGED isovars

Native(h) ==
    /\ InCall(h)
    /\ handle'[h].pc = "failed" => flock # 0 \/ May("fail")
    /\ UNCHANGED isovars

WorkerStep ==
    \/ WorkerStarts \/ WorkerOpens \/ Serve \/ ServeFinal \/ AnswerFinal \/ WorkerExits
WatchStep == WatchStarts \/ WatchOpens \/ Poll \/ Yield \/ WatchCloses \/ WatchExits
LoopStep ==
    \/ Spawned \/ Booted \/ Deliver \/ SessionSpawned \/ Hear
    \/ \E s \in Stoppers : Waited(s)
    \/ \E c \in Closers : CloseWorker(c) \/ CloseEnds(c)

IsolatesNext ==
    \/ Spawn \/ Call \/ Listen \/ Cancel \/ \E c \in Closers : StartClose(c)
    \/ WorkerStep \/ WatchStep \/ LoopStep
    \/ WorkerListened \/ WorkerDies \/ WatchBreaks \/ SpawnFails
    \/ \E h \in Holders : Native(h)
    \/ AppOpens \/ AppCloses \/ ElseProcess

(* Threads run and event loops turn: nothing in them waits but for the     *)
(* registry's lock, and no holder keeps that.  Nobody has to call, cancel, *)
(* close or die.                                                           *)
Fairness ==
    /\ WF_allvars(WorkerStep) /\ WF_allvars(WatchStep)
    /\ WF_allvars(WorkerListened)
    /\ WF_allvars(Spawned \/ Booted) /\ WF_allvars(Deliver)
    /\ WF_allvars(SessionSpawned) /\ WF_allvars(Hear)
    /\ \A s \in Stoppers : WF_allvars(Waited(s))
    /\ \A c \in Closers : WF_allvars(CloseWorker(c) \/ CloseEnds(c))
    /\ \A h \in Holders : WF_allvars(Native(h))

IsolatesSpec == IsolatesInit /\ [][IsolatesNext]_allvars /\ Fairness

-----------------------------------------------------------------------------
(* Properties.                                                             *)

IsolatesTypeOK ==
    /\ client.pc \in {"none", "spawning", "booting", "up", "failed"}
    /\ client.ports => client.pc = "up"
    /\ \A i \in Ids : calls[i] \in {"pending", "ok", "error"}
    /\ worker.pc \in {"off", "opening", "serving", "closing", "ending", "dying", "exited"}
    /\ watch.pc \in {"off", "opening", "polling", "yielding", "stopping", "closing",
                     "ending", "exited"}
    /\ control \in 0 .. 1
    /\ \A c \in Closers : final[c] \in 0 .. Len(calls)

(* A request is served by an isolate whose handle is open: none is taken   *)
(* up after the final one, by overlapping closes either (worker.dart:85-89).*)
ServesAnOpenHandle == worker.pc = "serving" => handle["worker"].pc = "open"

(* Handles are used while they are open, and none is opened against an     *)
(* engine of its own process that is going away.                           *)
HandlesAreSound == IsolatesTypeOK /\ ServesAnOpenHandle /\ NeverBusyWithItself

(* "every in-flight and later call fails ... instead of waiting forever"   *)
(* (worker.dart:8-10): also one sent behind the final request, to a worker *)
(* that has just died, or by a client that another close has closed.       *)
CallsComplete ==
    \A i \in 1 .. (Max({s.calls : s \in Settings}) + Cardinality(Closers)) :
        i \in Pending ~> i \notin Pending

(* "a failed open is reported, never a hang" (worker.dart:6-7).            *)
SpawnReturns == client.pc \in {"spawning", "booting"} ~> client.pc \in {"up", "failed"}

(* Every call into the worker returns, the one that starts it too.         *)
EveryCallReturns == CallsComplete /\ SpawnReturns

(* Closing the client leads to the worker's and the subscription's handles *)
(* being closed, so that the file is free for other processes, provided    *)
(* the subscription was ready when it was stopped (isolate_worker.dart:    *)
(* 513-519; README of the project).                                        *)
ClosedClientHoldsNothing ==
    \A c \in Closers :
        stopper[c] = "done" /\ (session.pc = "none" \/ session.control) ~>
            \A h \in {"worker", "watch"} : handle[h].pc \in NoHandle

(* A subscription ends when its isolate does, however that happened        *)
(* (watch_isolate.dart:195-197).                                           *)
SubscriptionEnds == watch.pc = "exited" ~> ~session.events

(* What was closed or broken off is let go: handles, and the subscription  *)
(* that an isolate served.                                                 *)
NothingIsLeftOpen == ClosedClientHoldsNothing /\ SubscriptionEnds
=============================================================================
