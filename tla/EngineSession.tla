----------------------------- MODULE EngineSession -----------------------------
(***************************************************************************)
(* One session of the broker with a served engine (engine_session.py): a   *)
(* child process that is started on first use, answers one request per     *)
(* line, and is killed on a timeout, an error or idleness.  Four kinds of   *)
(* threads meet in it: the caller, which exchanges requests; a reader per  *)
(* child, which moves its answers into a queue; the idle timers; and the   *)
(* children themselves.  A signal may end the caller at any point.         *)
(*                                                                         *)
(* Children are numbered in the order they are started, queues after the   *)
(* child they are made for.  A request is a call, the attempt at it and    *)
(* whether it is idempotent; a line names the request it answers.          *)
(***************************************************************************)
EXTENDS Naturals, Sequences, FiniteSets

CONSTANTS MaxCalls,     \* bound: exchanges the caller asks for
          MaxChildren   \* bound: children that can be started

ASSUME SessionAssumption == MaxCalls \in Nat /\ MaxChildren \in Nat

VARIABLES
    lock,           \* self._lock: who holds it
    process,        \* self._process, 0 for None
    responses,      \* self._responses: the queue the caller reads
    timer,          \* self._idle_timer: its generation, 0 for None
    idleGeneration, \* self._idle_generation
    fired,          \* the timers that have expired and wait for the lock
    pc, call, idempotent, attempt,  \* the caller and its request
    outcome,        \* how the present attempt ended, and with which answer
    spawned,        \* a child that is started and not yet self._process
    started,        \* the children started so far
    engine,         \* each child: what it is doing
    stdin,          \* each child: its standard input is open
    inbox,          \* each child: the request it has been written
    pipe,           \* each child: its standard output, not yet read
    reader,         \* each child: the queue its reader fills, NoQueue if none
    queue,          \* the queues
    served,         \* the requests engines have begun to execute (history)
    firstChild      \* the child of the first attempt (history)

lockVars   == <<lock, process, responses>>
timerVars  == <<timer, idleGeneration, fired>>
callVars   == <<call, idempotent, attempt>>
childVars  == <<engine, stdin, inbox, pipe>>
readerVars == <<reader, queue>>
vars == <<lockVars, timerVars, pc, callVars, outcome, spawned, started,
          childVars, readerVars, served, firstChild>>

Children == 1 .. MaxChildren
NoChild  == 0
NoQueue  == MaxChildren + 1
Requests == (1 .. MaxCalls) \X {1, 2} \X BOOLEAN
NoRequest == <<0, 0, TRUE>>
Items    == [kind : {"line", "oversized", "eof"}, of : Requests \cup {NoRequest}]
Running  == {"starting", "ready", "busy"}
Outcomes == [kind : {"none", "answer", "rejected", "timeout", "invocation-failed"},
             of : Requests \cup {NoRequest}]
NoOutcome == [kind |-> "none", of |-> NoRequest]

TypeOK ==
    /\ lock \in {"free", "caller", "timer"}
    /\ process \in Children \cup {NoChild}
    /\ responses \in Children \cup {NoChild}
    /\ timer \in Nat /\ idleGeneration \in Nat /\ timer <= idleGeneration
    /\ fired \subseteq [generation : 1 .. idleGeneration, stale : BOOLEAN]
    /\ pc \in {"idle", "enter", "ensure", "adopt", "await", "write", "blocked",
               "wait", "leave", "closing", "gone"}
    /\ call \in 0 .. MaxCalls /\ idempotent \in BOOLEAN /\ attempt \in {1, 2}
    /\ outcome \in Outcomes
    /\ spawned \in Children \cup {NoChild}
    /\ started \in 0 .. MaxChildren
    /\ engine \in [Children -> Running \cup {"absent", "exited"}]
    /\ stdin \in [Children -> BOOLEAN]
    /\ inbox \in [Children -> Requests \cup {NoRequest}]
    /\ pipe \in [Children -> Seq(Items)]
    /\ reader \in [Children -> 0 .. NoQueue]
    /\ queue \in [0 .. MaxChildren -> Seq(Items)]
    /\ served \subseteq Requests
    /\ firstChild \in Children \cup {NoChild}


Init ==
    /\ lock = "free" /\ process = NoChild /\ responses = NoChild
    /\ timer = 0 /\ idleGeneration = 0 /\ fired = {}
    /\ pc = "idle" /\ call = 0 /\ idempotent = TRUE /\ attempt = 1
    /\ outcome = NoOutcome
    /\ spawned = NoChild /\ started = 0
    /\ engine = [c \in Children |-> "absent"]
    /\ stdin = [c \in Children |-> FALSE]
    /\ inbox = [c \in Children |-> NoRequest]
    /\ pipe = [c \in Children |-> <<>>]
    /\ reader = [c \in Children |-> NoQueue]
    /\ queue = [q \in 0 .. MaxChildren |-> <<>>]
    /\ served = {} /\ firstChild = NoChild

-----------------------------------------------------------------------------
(* The caller: SessionTransport.exchange and Level1Session.exchange *)

Request == <<call, attempt, idempotent>>

Alive(c) == c # NoChild /\ engine[c] \in Running

\* The broker asks for an exchange; queries are idempotent, builds are not.
Exchange ==
    /\ pc = "idle" /\ call < MaxCalls
    /\ call' = call + 1
    /\ idempotent' \in BOOLEAN
    /\ attempt' = 1
    /\ outcome' = NoOutcome
    /\ firstChild' = NoChild
    /\ pc' = "enter"
    /\ UNCHANGED <<lockVars, timerVars, spawned, started, childVars, readerVars,
                   served>>

\* The lock is taken and the idle timer cancelled; a timer that has expired
\* already is beyond cancelling.
Enter ==
    /\ pc = "enter" /\ lock = "free"
    /\ lock' = "caller"
    /\ timer' = 0
    /\ fired' = {[f EXCEPT !.stale = TRUE] : f \in fired}
    /\ pc' = "ensure"
    /\ UNCHANGED <<process, responses, idleGeneration, callVars, outcome, spawned,
                   started, childVars, readerVars, served, firstChild>>

\* _ensure_started finds the child running.
ReuseChild ==
    /\ pc = "ensure" /\ Alive(process)
    /\ pc' = "write"
    /\ UNCHANGED <<lockVars, timerVars, callVars, outcome, spawned, started,
                   childVars, readerVars, served, firstChild>>

\* Mutant of Spawn: the queue of the previous child is kept.
SpawnKeepsQueue ==
    /\ pc = "ensure" /\ ~Alive(process) /\ started < MaxChildren
    /\ process' = NoChild
    /\ started' = started + 1
    /\ spawned' = started'
    /\ engine' = [engine EXCEPT ![started'] = "starting"]
    /\ stdin' = [stdin EXCEPT ![started'] = TRUE]
    /\ pc' = "adopt"
    /\ UNCHANGED <<lock, responses, timerVars, callVars, outcome, inbox, pipe,
                   readerVars, served, firstChild>>

\* It does not: a dead child is forgotten, and a fresh queue and a fresh child
\* are made.
Spawn ==
    /\ pc = "ensure" /\ ~Alive(process) /\ started < MaxChildren
    /\ process' = NoChild
    /\ started' = started + 1
    /\ responses' = started'
    /\ spawned' = started'
    /\ engine' = [engine EXCEPT ![started'] = "starting"]
    /\ stdin' = [stdin EXCEPT ![started'] = TRUE]
    /\ pc' = "adopt"
    /\ UNCHANGED <<lock, timerVars, callVars, outcome, inbox, pipe, readerVars,
                   served, firstChild>>

\* Popen raises.
SpawnFails ==
    /\ pc = "ensure" /\ ~Alive(process)
    /\ process' = NoChild
    /\ outcome' = [NoOutcome EXCEPT !.kind = "invocation-failed"]
    /\ pc' = "leave"
    /\ UNCHANGED <<lock, responses, timerVars, callVars, spawned, started,
                   childVars, readerVars, served, firstChild>>

\* The child becomes self._process and its reader starts.
Adopt ==
    /\ pc = "adopt"
    /\ process' = spawned
    /\ reader' = [reader EXCEPT ![spawned] = responses]
    /\ spawned' = NoChild
    /\ pc' = "await"
    /\ UNCHANGED <<lock, responses, timerVars, callVars, outcome, started,
                   childVars, queue, served, firstChild>>

\* _kill: the child is gone and forgotten; its reader may still have lines.
\* (_last_stderr_line waits before it without a bound, for a child it has killed
\* and for the end of that child's output: a killed process group ends.)
KillAndFail(reason) ==
    /\ engine' = [engine EXCEPT ![process] = "exited"]
    /\ process' = NoChild
    /\ outcome' = [NoOutcome EXCEPT !.kind = reason]
    /\ pc' = "leave"
    /\ UNCHANGED <<lock, responses, timerVars, callVars, spawned, started, stdin,
                   inbox, pipe, readerVars, served, firstChild>>

BecomeReady ==
    /\ pc = "await" /\ engine[process] = "ready"
    /\ pc' = "write"
    /\ UNCHANGED <<lockVars, timerVars, callVars, outcome, spawned, started,
                   childVars, readerVars, served, firstChild>>

\* Mutant of NotReady: the wait for the marker has no deadline.
NotReadyUnbounded ==
    pc = "await" /\ engine[process] = "exited" /\ KillAndFail("invocation-failed")

\* The ready marker does not come in time, or the child is dead by then.
NotReady ==
    pc = "await" /\ engine[process] # "ready" /\ KillAndFail("invocation-failed")

\* A request that the pipe holds is written at once ...
Write ==
    /\ pc = "write" /\ Alive(process)
    /\ inbox' = [inbox EXCEPT ![process] = Request]
    /\ firstChild' = IF attempt = 1 THEN process ELSE firstChild
    /\ pc' = "wait"
    /\ UNCHANGED <<lockVars, timerVars, callVars, outcome, spawned, started,
                   engine, stdin, pipe, readerVars, served>>

\* ... a longer one keeps its caller, without a deadline, until the child has
\* read enough of it (ReadOn).
WriteBlocks ==
    /\ pc = "write" /\ Alive(process)
    /\ firstChild' = IF attempt = 1 THEN process ELSE firstChild
    /\ pc' = "blocked"
    /\ UNCHANGED <<lockVars, timerVars, callVars, outcome, spawned, started,
                   childVars, readerVars, served>>

\* The pipe is broken, also under a caller that is blocked in it.
WriteFails ==
    pc \in {"write", "blocked"} /\ ~Alive(process) /\ KillAndFail("rejected")

Take(item) ==
    /\ queue[responses] # <<>> /\ Head(queue[responses]) = item
    /\ queue' = [queue EXCEPT ![responses] = Tail(@)]

ReceiveAnswer ==
    /\ pc = "wait"
    /\ \E r \in Requests :
          /\ Take([kind |-> "line", of |-> r])
          /\ outcome' = [kind |-> "answer", of |-> r]
    /\ pc' = "leave"
    /\ UNCHANGED <<lockVars, timerVars, callVars, spawned, started, childVars,
                   reader, served, firstChild>>

\* The child closed its output, or wrote more than a response may hold.
ReceiveEnd ==
    /\ pc = "wait"
    /\ \E kind \in {"eof", "oversized"} : Take([kind |-> kind, of |-> NoRequest])
    /\ engine' = [engine EXCEPT ![process] = "exited"]
    /\ process' = NoChild
    /\ outcome' = [NoOutcome EXCEPT !.kind = "rejected"]
    /\ pc' = "leave"
    /\ UNCHANGED <<lock, responses, timerVars, callVars, spawned, started, stdin,
                   inbox, pipe, reader, served, firstChild>>

\* Mutant of Timeout: the child is left running.
TimeoutSparesChild ==
    /\ pc = "wait" /\ queue[responses] = <<>>
    /\ outcome' = [NoOutcome EXCEPT !.kind = "timeout"]
    /\ pc' = "leave"
    /\ UNCHANGED <<lockVars, timerVars, callVars, spawned, started, childVars,
                   readerVars, served, firstChild>>

\* Mutant of Timeout: the child is forgotten without being killed.
TimeoutForgetsChild ==
    /\ pc = "wait" /\ queue[responses] = <<>>
    /\ process' = NoChild
    /\ outcome' = [NoOutcome EXCEPT !.kind = "timeout"]
    /\ pc' = "leave"
    /\ UNCHANGED <<lock, responses, timerVars, callVars, spawned, started,
                   childVars, readerVars, served, firstChild>>

Timeout == pc = "wait" /\ queue[responses] = <<>> /\ KillAndFail("timeout")

\* Mutant of Retry: every request is sent again.
RetryAlways == attempt = 1 /\ outcome.kind \in {"rejected", "timeout"}

\* SessionTransport: an idempotent request that was lost is sent once more.
Retry ==
    attempt = 1 /\ idempotent /\ outcome.kind \in {"rejected", "timeout"}

\* Mutant of Leave: the timer is armed under the number of the next one.
LeaveUncounted ==
    /\ pc = "leave"
    /\ timer' = IF process # NoChild THEN idleGeneration + 1 ELSE timer
    /\ lock' = "free"
    /\ IF Retry THEN attempt' = 2 /\ pc' = "enter"
                ELSE attempt' = attempt /\ pc' = "idle"
    /\ UNCHANGED <<process, responses, idleGeneration, fired, call, idempotent,
                   outcome, spawned, started, childVars, readerVars, served,
                   firstChild>>

\* Mutant of Leave: the cancelled timer is not armed again.
LeaveUnarmed ==
    /\ pc = "leave"
    /\ UNCHANGED <<timer, idleGeneration>>
    /\ lock' = "free"
    /\ IF Retry THEN attempt' = 2 /\ pc' = "enter"
                ELSE attempt' = attempt /\ pc' = "idle"
    /\ UNCHANGED <<process, responses, fired, call, idempotent, outcome, spawned,
                   started, childVars, readerVars, served, firstChild>>

\* The `finally` of the exchange: a child that is left gets an idle timer.
Leave ==
    /\ pc = "leave"
    /\ IF process # NoChild
       THEN /\ idleGeneration' = idleGeneration + 1
            /\ timer' = idleGeneration'
       ELSE UNCHANGED <<timer, idleGeneration>>
    /\ lock' = "free"
    /\ IF Retry THEN attempt' = 2 /\ pc' = "enter"
                ELSE attempt' = attempt /\ pc' = "idle"
    /\ UNCHANGED <<process, responses, fired, call, idempotent, outcome, spawned,
                   started, childVars, readerVars, served, firstChild>>

-----------------------------------------------------------------------------
(* The idle timers *)

\* A timer's interval is over: its thread goes for the lock.
Fire ==
    /\ pc # "gone" /\ timer # 0
    /\ \A f \in fired : f.generation # timer
    /\ fired' = fired \cup {[generation |-> timer, stale |-> FALSE]}
    /\ UNCHANGED <<lockVars, timer, idleGeneration, pc, callVars, outcome, spawned,
                   started, childVars, readerVars, served, firstChild>>

\* Mutant of Current: any armed timer will do.
CurrentOfAny(f) == timer # 0

\* _close_when_idle: the timer has not been cancelled or replaced.
Current(f) == timer # 0 /\ f.generation = idleGeneration

TimerTooLate ==
    /\ lock = "free"
    /\ \E f \in fired : ~Current(f) /\ fired' = fired \ {f}
    /\ UNCHANGED <<lockVars, timer, idleGeneration, pc, callVars, outcome, spawned,
                   started, childVars, readerVars, served, firstChild>>

\* close: the child's input is closed, and the timer waits for its end. (A
\* current timer was armed for a child, which is self._process to this day.)
CloseWhenIdle ==
    /\ lock = "free" /\ process # NoChild
    /\ \E f \in fired : Current(f) /\ fired' = fired \ {f}
    /\ lock' = "timer"
    /\ timer' = 0
    /\ stdin' = [stdin EXCEPT ![process] = FALSE]
    /\ UNCHANGED <<process, responses, idleGeneration, pc, callVars, outcome,
                   spawned, started, engine, inbox, pipe, readerVars, served,
                   firstChild>>

\* The child has ended, or is terminated and killed after three seconds.
EndClose ==
    /\ lock = "timer"
    /\ engine' = [engine EXCEPT ![process] = "exited"]
    /\ process' = NoChild
    /\ lock' = "free"
    /\ UNCHANGED <<responses, timerVars, pc, callVars, outcome, spawned, started,
                   stdin, inbox, pipe, readerVars, served, firstChild>>

-----------------------------------------------------------------------------
(* The end of the broker *)

\* SIGTERM, or the end of the input: the caller's own thread closes the
\* session, whatever it was doing (the lock is reentrant). It waits for a
\* timer that is closing.
Shutdown ==
    /\ pc \notin {"closing", "gone"} /\ lock # "timer"
    /\ lock' = "caller"
    /\ timer' = 0
    /\ stdin' = IF process = NoChild THEN stdin
                ELSE [stdin EXCEPT ![process] = FALSE]
    /\ pc' = "closing"
    /\ UNCHANGED <<process, responses, idleGeneration, fired, callVars, outcome,
                   spawned, started, engine, inbox, pipe, readerVars, served,
                   firstChild>>

\* The process is gone, with its threads and what it remembered, and the
\* children's inputs close.
Vanish ==
    /\ pc' = "gone"
    /\ stdin' = [c \in Children |-> FALSE]
    /\ lock' = "free" /\ process' = NoChild /\ responses' = NoChild
    /\ timer' = 0 /\ idleGeneration' = 0 /\ fired' = {}
    /\ call' = 0 /\ idempotent' = TRUE /\ attempt' = 1
    /\ outcome' = NoOutcome /\ spawned' = NoChild /\ firstChild' = NoChild
    /\ reader' = [c \in Children |-> NoQueue]
    /\ queue' = [q \in 0 .. MaxChildren |-> <<>>]
    /\ UNCHANGED <<started, inbox, pipe, served>>

EndShutdown ==
    /\ pc = "closing"
    /\ engine' = IF process = NoChild THEN engine
                 ELSE [engine EXCEPT ![process] = "exited"]
    /\ Vanish

\* The broker is killed and closes nothing.
Killed == pc # "gone" /\ Vanish /\ UNCHANGED engine

-----------------------------------------------------------------------------
(* The children and their readers *)

sessionVars == <<lockVars, timerVars, pc, callVars, outcome, spawned, started,
                 firstChild>>

SignalReady(c) ==
    /\ engine[c] = "starting"
    /\ engine' = [engine EXCEPT ![c] = "ready"]
    /\ UNCHANGED <<sessionVars, stdin, inbox, pipe, readerVars, served>>

BeginRequest(c) ==
    /\ engine[c] = "ready" /\ inbox[c] # NoRequest
    /\ engine' = [engine EXCEPT ![c] = "busy"]
    /\ served' = served \cup {inbox[c]}
    /\ UNCHANGED <<sessionVars, stdin, inbox, pipe, readerVars>>

\* The serve loop reads on: the rest of the request it has been written fits.
ReadOn(c) ==
    /\ pc = "blocked" /\ c = process /\ engine[c] = "ready"
    /\ inbox' = [inbox EXCEPT ![c] = Request]
    /\ pc' = "wait"
    /\ UNCHANGED <<lockVars, timerVars, callVars, outcome, spawned, started,
                   firstChild, engine, stdin, pipe, readerVars, served>>

\* One line per request; the broker also expects one that is too long.
Answer(c) ==
    /\ engine[c] = "busy"
    /\ \E item \in {[kind |-> "line", of |-> inbox[c]],
                    [kind |-> "oversized", of |-> NoRequest]} :
          pipe' = [pipe EXCEPT ![c] = Append(@, item)]
    /\ engine' = [engine EXCEPT ![c] = "ready"]
    /\ inbox' = [inbox EXCEPT ![c] = NoRequest]
    /\ UNCHANGED <<sessionVars, stdin, readerVars, served>>

\* The serve loop ends with its input.
ExitAtEof(c) ==
    /\ engine[c] \in {"starting", "ready"} /\ ~stdin[c] /\ inbox[c] = NoRequest
    /\ engine' = [engine EXCEPT ![c] = "exited"]
    /\ UNCHANGED <<sessionVars, stdin, inbox, pipe, readerVars, served>>

\* The engine refuses a request and ends, or it crashes.
Die(c) ==
    /\ engine[c] \in Running
    /\ engine' = [engine EXCEPT ![c] = "exited"]
    /\ UNCHANGED <<sessionVars, stdin, inbox, pipe, readerVars, served>>

\* _drain_stdout moves one line to its queue, and ends after a line that is
\* too long.
Drain(c) ==
    /\ pc # "gone" /\ reader[c] # NoQueue /\ pipe[c] # <<>>
    /\ queue' = [queue EXCEPT ![reader[c]] = Append(@, Head(pipe[c]))]
    /\ pipe' = [pipe EXCEPT ![c] = Tail(@)]
    /\ reader' = IF Head(pipe[c]).kind = "oversized"
                 THEN [reader EXCEPT ![c] = NoQueue] ELSE reader
    /\ UNCHANGED <<sessionVars, engine, stdin, inbox, served>>

DrainEnd(c) ==
    /\ pc # "gone" /\ reader[c] # NoQueue /\ pipe[c] = <<>>
    /\ engine[c] = "exited"
    /\ queue' = [queue EXCEPT ![reader[c]] =
                     Append(@, [kind |-> "eof", of |-> NoRequest])]
    /\ reader' = [reader EXCEPT ![c] = NoQueue]
    /\ UNCHANGED <<sessionVars, engine, stdin, inbox, pipe, served>>

-----------------------------------------------------------------------------

CallerStep ==
    \/ Enter \/ ReuseChild \/ Spawn \/ SpawnFails \/ Adopt \/ BecomeReady
    \/ NotReady \/ Write \/ WriteBlocks \/ WriteFails \/ ReceiveAnswer
    \/ ReceiveEnd \/ Timeout \/ Leave \/ EndShutdown

TimerStep == TimerTooLate \/ CloseWhenIdle \/ EndClose

ChildStep(c) ==
    SignalReady(c) \/ ReadOn(c) \/ BeginRequest(c) \/ Answer(c) \/ ExitAtEof(c)

ReaderStep(c) == Drain(c) \/ DrainEnd(c)

\* The broker has ended; this is the only rest the system comes to.
Ended == pc = "gone" /\ UNCHANGED vars

Next ==
    \/ Ended
    \/ Exchange \/ CallerStep \/ Fire \/ TimerStep \/ Shutdown \/ Killed
    \/ \E c \in Children : ChildStep(c) \/ Die(c) \/ ReaderStep(c)

Spec == Init /\ [][Next]_vars

\* An engine that is left alone finishes what it does and sees its input end.
EngineFairness == \A c \in Children : WF_vars(ChildStep(c))

\* An engine that waits for a request reads all of it, whatever it does then.
RequestsAreRead == \A c \in Children : WF_vars(ReadOn(c))

-----------------------------------------------------------------------------
(* Properties *)

\* An exchange returns the answer to the request it wrote, never a late one of
\* an earlier request that timed out.
AnswersOwnRequest ==
    (pc = "leave" /\ outcome.kind = "answer") => outcome.of = Request

\* No engine runs that the session does not know: a request that fails leaves
\* no child behind it.
NoOrphan ==
    pc # "gone" =>
        \A c \in Children : engine[c] \in Running => c \in {process, spawned}

\* "reads retry once on a fresh child, writes never" (SessionTransport): an
\* engine begins a write at most once, a read at most twice, and never twice
\* in the same child.
WritesServedOnce ==
    \A r, s \in served : (r[1] = s[1] /\ ~r[3]) => r = s

RetriesOnFreshChild ==
    (pc = "wait" /\ attempt = 2) => process # firstChild

\* "only the timer of the current generation may close the child": a timer that
\* expired before an exchange never closes the child after it.
StaleTimerSpares ==
    [][\A f \in fired : (lock = "free" /\ lock' = "timer" /\ f \notin fired')
           => ~f.stale]_vars

\* An idle child has a timer that will close it.
IdleChildHasTimer ==
    (lock = "free" /\ process # NoChild) => timer # 0 /\ timer = idleGeneration

\* An exchange returns, with an answer or an error, unless the broker ends. It
\* needs an engine that reads its requests: the write has no deadline.
ExchangeReturns ==
    RequestsAreRead => (pc = "enter" ~> pc \in {"idle", "gone"})

\* A child the session no longer uses ends, also after the broker: by the idle
\* timer, by close, or by the end of its input, unless the engine itself hangs.
ChildrenEnd ==
    EngineFairness =>
        \A c \in Children : engine[c] \in Running ~>
            (engine[c] = "exited" \/ pc \notin {"idle", "gone"})

=============================================================================
