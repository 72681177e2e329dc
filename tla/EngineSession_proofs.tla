------------------------ MODULE EngineSession_proofs ------------------------
(***************************************************************************)
(* The safety of one session, for any number of calls and children.  The    *)
(* inductive invariant is the conjunction of types, control, the numbering  *)
(* of children, the timers, the attempts, what has been asked and the lines *)
(* on their way; each part is kept by every step of Next, given those       *)
(* before it.                                                               *)
(*                                                                          *)
(* A hook is a session: its worker does what a caller does, and its main    *)
(* thread does nothing to the session that a dying engine or a killed       *)
(* broker would not do. What is proved of a session therefore holds while   *)
(* the hook abandons its worker, kills its engine and leaves.               *)
(***************************************************************************)
EXTENDS ImpactHook, SequenceTheorems, TLAPS

(* Types *)

Scalars ==
    /\ lock \in {"free", "caller", "timer"}
    /\ process \in 0 .. MaxChildren
    /\ responses \in 0 .. MaxChildren
    /\ pc \in {"idle", "enter", "ensure", "adopt", "await", "write", "blocked",
               "wait", "leave", "closing", "gone"}
    /\ call \in 0 .. MaxCalls /\ idempotent \in BOOLEAN /\ attempt \in {1, 2}
    /\ spawned \in 0 .. MaxChildren
    /\ started \in 0 .. MaxChildren
    /\ firstChild \in 0 .. MaxChildren

TimerTypes ==
    /\ timer \in Nat /\ idleGeneration \in Nat /\ timer <= idleGeneration
    /\ fired \subseteq [generation : 1 .. idleGeneration, stale : BOOLEAN]

ChildTypes ==
    /\ engine \in [Children -> Running \cup {"absent", "exited"}]
    /\ stdin \in [Children -> BOOLEAN]
    /\ reader \in [Children -> 0 .. NoQueue]

RequestTypes ==
    /\ outcome \in Outcomes
    /\ inbox \in [Children -> Requests \cup {NoRequest}]
    /\ served \subseteq Requests

LineTypes ==
    /\ pipe \in [Children -> Seq(Items)]
    /\ queue \in [0 .. MaxChildren -> Seq(Items)]

-----------------------------------------------------------------------------
(* Control, and the children *)

Holding == {"ensure", "adopt", "await", "write", "blocked", "wait", "leave",
            "closing"}

\* Who holds the lock, and where there is a child to speak of.
Control ==
    /\ lock = "caller" <=> pc \in Holding
    /\ lock = "timer" => process # NoChild
    /\ pc = "gone" => lock = "free" /\ process = NoChild
    /\ pc \in {"await", "write", "blocked", "wait"} => process # NoChild
    /\ spawned # NoChild => pc \in {"adopt", "closing"}
    /\ pc = "adopt" => process = NoChild /\ spawned # NoChild
    /\ pc \notin {"idle", "closing", "gone"} => call # 0

\* A child nobody has written to and nobody reads from.
Silent(c) ==
    /\ inbox[c] = NoRequest /\ pipe[c] = <<>> /\ queue[c] = <<>>
    /\ reader[c] = NoQueue

\* Children are started in order, each with the queue of its number.
Numbering ==
    /\ process <= started /\ firstChild <= started
    /\ spawned \in {NoChild, started}
    /\ \A c \in Children : c > started => engine[c] = "absent" /\ Silent(c)
    /\ \A c \in Children : c <= started => engine[c] # "absent"
    /\ \A c \in Children : engine[c] = "busy" => inbox[c] # NoRequest
    /\ \A c \in Children : reader[c] \in {c, NoQueue}
    /\ process # NoChild => responses = process
    /\ pc = "adopt" => responses = spawned /\ Silent(spawned)

-----------------------------------------------------------------------------
(* Timers and attempts *)

\* A stale timer is one that is not the armed one.
Timers ==
    /\ timer \in {0, idleGeneration}
    /\ IdleChildHasTimer
    /\ \A f \in fired : f.stale => timer = 0 \/ f.generation < idleGeneration

\* A failed attempt leaves no child; a second one has a child of its own.
Attempts ==
    /\ (pc = "leave" /\ outcome.kind # "answer") => process = NoChild
    /\ attempt = 2 =>
          /\ idempotent
          /\ process # NoChild => process # firstChild
          /\ spawned # NoChild => spawned # firstChild

-----------------------------------------------------------------------------
(* What has been asked, and what is answered *)

\* What engines have been written.
Asked == served \cup {inbox[c] : c \in Children}

\* A call is asked in order, a write once.
Once ==
    /\ \A r \in Asked \ {NoRequest} : pc # "gone" =>
          /\ r[1] <= call
          /\ r[1] = call =>
                /\ r[3] = idempotent
                /\ attempt = 1 =>
                      pc \notin {"enter", "ensure", "adopt", "await", "write",
                                 "blocked"}
    /\ \A r, s \in Asked : (r[1] = s[1] /\ ~r[3]) => r = s

(* The lines between an engine and its caller *)

NoLine(s) == \A i \in DOMAIN s : s[i].kind # "line"

\* The one line there may be comes first and answers the request.
LineFirst(s) ==
    \A i \in DOMAIN s : s[i].kind = "line" => i = 1 /\ s[i].of = Request

\* Nothing is on its way.
Clean(c) ==
    /\ inbox[c] = NoRequest /\ NoLine(pipe[c]) /\ NoLine(queue[c])
    /\ engine[c] \in Running => pipe[c] = <<>> /\ queue[c] = <<>>

\* The request has not been answered.
Unanswered(c) ==
    /\ inbox[c] = Request /\ NoLine(pipe[c]) /\ NoLine(queue[c])
    /\ engine[c] \in Running => pipe[c] = <<>> /\ queue[c] = <<>>

\* It has been, once.
Answered(c) ==
    /\ inbox[c] = NoRequest
    /\ engine[c] \in Running =>
          \/ Len(pipe[c]) = 1 /\ queue[c] = <<>>
          \/ pipe[c] = <<>> /\ Len(queue[c]) = 1
    /\ LineFirst(pipe[c]) /\ LineFirst(queue[c])
    /\ queue[c] # <<>> => NoLine(pipe[c])

Lines ==
    /\ process # NoChild /\ pc \notin {"wait", "closing"} => Clean(process)
    /\ pc = "wait" => Unanswered(process) \/ Answered(process)
    /\ AnswersOwnRequest

\* The inductive invariant.
IInv ==
    /\ Scalars /\ TimerTypes /\ ChildTypes /\ RequestTypes /\ LineTypes
    /\ Control /\ Numbering /\ NoOrphan /\ Timers /\ Attempts /\ Once /\ Lines

-----------------------------------------------------------------------------
(* Types are kept *)

\* The request reaches the child: at once, or when the child has read on.
Asks ==
    /\ pc \in {"write", "blocked"} /\ Alive(process)
    /\ inbox' = [inbox EXCEPT ![process] = Request]
    /\ firstChild' = firstChild \/ (attempt = 1 /\ firstChild' = process)
    /\ pc' = "wait"
    /\ UNCHANGED <<lockVars, timerVars, callVars, outcome, spawned, started,
                   engine, stdin, pipe, readerVars, served>>

\* Both steps by which a request reaches its child are of this form.
LEMMA WriteAsks ==
    ASSUME Write \/ \E c \in Children : ReadOn(c)
    PROVE  Asks
<1>1. CASE Write
  BY <1>1 DEF Write, Asks
<1>2. ASSUME NEW c \in Children, ReadOn(c)
      PROVE  Asks
  BY <1>2 DEF ReadOn, Asks, Alive, Running, Children, NoChild
<1> QED
  BY <1>1, <1>2

\* The type invariant is the conjunction of its parts.
LEMMA TypeParts ==
    ASSUME SessionAssumption
    PROVE  TypeOK <=> /\ Scalars /\ TimerTypes /\ ChildTypes
                      /\ RequestTypes /\ LineTypes
<1>1. Children \cup {NoChild} = 0 .. MaxChildren
  BY DEF SessionAssumption, Children, NoChild
<1> QED
  BY <1>1 DEF TypeOK, Scalars, TimerTypes, ChildTypes, RequestTypes, LineTypes

\* Each part is kept by every step.
LEMMA ScalarsStep ==
    ASSUME SessionAssumption, Scalars, [Next]_vars
    PROVE  Scalars'
<1> USE DEF SessionAssumption, Scalars, Children, NoChild, vars, lockVars,
    timerVars, callVars, childVars, readerVars, sessionVars
<1>1. CASE Ended \/ UNCHANGED vars
  BY <1>1 DEF Ended
<1>2. CASE Exchange \/ Enter \/ ReuseChild \/ SpawnFails \/ BecomeReady
  BY <1>2 DEF Exchange, Enter, ReuseChild, SpawnFails, BecomeReady
<1>3. CASE Spawn \/ Adopt \/ NotReady
  BY <1>3 DEF Spawn, Adopt, NotReady, KillAndFail
<1>4. CASE Asks \/ WriteBlocks \/ WriteFails \/ ReceiveAnswer
  BY <1>4 DEF Asks, WriteBlocks, WriteFails, KillAndFail, ReceiveAnswer, Take
<1>5. CASE ReceiveEnd \/ Timeout \/ Leave
  BY <1>5 DEF ReceiveEnd, Take, Timeout, KillAndFail, Leave
<1>6. CASE Fire \/ TimerTooLate \/ CloseWhenIdle \/ EndClose
  BY <1>6 DEF Fire, TimerTooLate, CloseWhenIdle, EndClose
<1>7. CASE Shutdown
  BY <1>7 DEF Shutdown
<1>8. CASE EndShutdown
  BY <1>8 DEF EndShutdown, Vanish
<1>9. CASE Killed
  BY <1>9 DEF Killed, Vanish
<1>10. ASSUME NEW c \in Children, SignalReady(c) \/ BeginRequest(c) \/
                                  Answer(c) \/ ExitAtEof(c)
      PROVE  Scalars'
  BY <1>10 DEF SignalReady, BeginRequest, Answer, ExitAtEof
<1>11. ASSUME NEW c \in Children, Die(c) \/ Drain(c) \/ DrainEnd(c)
      PROVE  Scalars'
  BY <1>11 DEF Die, Drain, DrainEnd
<1> QED
  BY <1>1, <1>2, <1>3, <1>4, <1>5, <1>6, <1>7, <1>8, <1>9, <1>10, <1>11,
     WriteAsks
     DEF Next, CallerStep, TimerStep, ChildStep, ReaderStep

\* The timers: an expired one keeps its number when it turns stale.
LEMMA TimerTypesStep ==
    ASSUME TimerTypes, [Next]_vars
    PROVE  TimerTypes'
<1> USE DEF TimerTypes, vars, lockVars, timerVars, callVars, childVars,
    readerVars, sessionVars
<1>1. CASE Ended \/ UNCHANGED vars
  BY <1>1 DEF Ended
<1>2. CASE Enter
  <2> SUFFICES ASSUME NEW f \in fired
               PROVE  [f EXCEPT !.stale = TRUE] \in
                          [generation : 1 .. idleGeneration, stale : BOOLEAN]
    BY <1>2 DEF Enter
  <2> QED
    OBVIOUS
<1>3. CASE Fire
  <2>1. timer \in 1 .. idleGeneration
    BY <1>3 DEF Fire
  <2>2. [generation |-> timer, stale |-> FALSE] \in
            [generation : 1 .. idleGeneration, stale : BOOLEAN]
    BY <2>1
  <2> QED
    BY <1>3, <2>2 DEF Fire
<1>4. CASE TimerTooLate
  BY <1>4 DEF TimerTooLate
<1>5. CASE Leave
  BY <1>5 DEF Leave
<1>6. CASE Exchange \/ ReuseChild \/ Spawn \/ SpawnFails \/ Adopt \/
           BecomeReady \/ NotReady
  BY <1>6 DEF Exchange, ReuseChild, Spawn, SpawnFails, Adopt, BecomeReady,
     NotReady, KillAndFail
<1>7. CASE Asks \/ WriteBlocks \/ WriteFails \/ ReceiveAnswer \/ ReceiveEnd \/
           Timeout
  BY <1>7 DEF Asks, WriteBlocks, WriteFails, KillAndFail, ReceiveAnswer, Take,
     ReceiveEnd, Timeout
<1>8. CASE CloseWhenIdle \/ EndClose \/ Shutdown
  BY <1>8 DEF CloseWhenIdle, EndClose, Shutdown
<1>9. CASE EndShutdown \/ Killed
  BY <1>9 DEF EndShutdown, Vanish, Killed
<1>10. ASSUME NEW c \in Children, SignalReady(c) \/ BeginRequest(c) \/
                                  Answer(c) \/ ExitAtEof(c) \/ Die(c) \/
                                  Drain(c) \/ DrainEnd(c)
      PROVE  TimerTypes'
  BY <1>10 DEF SignalReady, BeginRequest, Answer, ExitAtEof, Die, Drain,
     DrainEnd
<1> QED
  BY <1>1, <1>2, <1>3, <1>4, <1>5, <1>6, <1>7, <1>8, <1>9, <1>10, WriteAsks
     DEF Next, CallerStep, TimerStep, ChildStep, ReaderStep

\* The children.
LEMMA ChildTypesStep ==
    ASSUME SessionAssumption, Scalars, ChildTypes, [Next]_vars
    PROVE  ChildTypes'
<1> USE DEF SessionAssumption, Scalars, ChildTypes, Children, NoChild, NoQueue,
    Running, vars, lockVars, timerVars, callVars, childVars, readerVars,
    sessionVars
<1>1. CASE Ended \/ UNCHANGED vars
  BY <1>1 DEF Ended
<1>2. CASE Adopt
  <2>1. responses \in 0 .. NoQueue
    OBVIOUS
  <2>2. reader' = [reader EXCEPT ![spawned] = responses]
    BY <1>2 DEF Adopt
  <2>3. reader' \in [Children -> 0 .. NoQueue]
    BY <2>1, <2>2
  <2> QED
    BY <1>2, <2>3 DEF Adopt
<1>3. CASE Spawn
  BY <1>3 DEF Spawn
<1>4. CASE NotReady \/ WriteFails \/ Timeout \/ ReceiveEnd
  BY <1>4 DEF NotReady, KillAndFail, WriteFails, Timeout, ReceiveEnd, Take
<1>5. CASE CloseWhenIdle \/ EndClose \/ Shutdown
  BY <1>5 DEF CloseWhenIdle, EndClose, Shutdown
<1>6. CASE EndShutdown
  BY <1>6 DEF EndShutdown, Vanish
<1>7. CASE Killed
  BY <1>7 DEF Killed, Vanish
<1>8. CASE Exchange \/ Enter \/ ReuseChild \/ SpawnFails \/ BecomeReady \/
           Asks \/ WriteBlocks
  BY <1>8 DEF Exchange, Enter, ReuseChild, SpawnFails, BecomeReady, Asks,
     WriteBlocks
<1>9. CASE ReceiveAnswer \/ Leave \/ Fire \/ TimerTooLate
  BY <1>9 DEF ReceiveAnswer, Take, Leave, Fire, TimerTooLate
<1>10. ASSUME NEW c \in Children, SignalReady(c) \/ BeginRequest(c) \/
                                  Answer(c) \/ ExitAtEof(c) \/ Die(c)
      PROVE  ChildTypes'
  BY <1>10 DEF SignalReady, BeginRequest, Answer, ExitAtEof, Die
<1>11. ASSUME NEW c \in Children, Drain(c)
      PROVE  ChildTypes'
  BY <1>11 DEF Drain
<1>12. ASSUME NEW c \in Children, DrainEnd(c)
      PROVE  ChildTypes'
  BY <1>12 DEF DrainEnd
<1> QED
  BY <1>1, <1>2, <1>3, <1>4, <1>5, <1>6, <1>7, <1>8, <1>9, <1>10, <1>11, <1>12,
     WriteAsks
     DEF Next, CallerStep, TimerStep, ChildStep, ReaderStep

\* What is asked and answered.
LEMMA RequestTypesStep ==
    ASSUME SessionAssumption, Scalars, Control, RequestTypes, [Next]_vars
    PROVE  RequestTypes'
<1> USE DEF SessionAssumption, Scalars, Control, RequestTypes, Outcomes,
    NoOutcome, vars, lockVars, timerVars, callVars, childVars, readerVars,
    sessionVars
<1>1. CASE Ended \/ UNCHANGED vars
  BY <1>1 DEF Ended
<1>2. CASE Asks
  <2>1. Request \in Requests
    BY <1>2 DEF Asks, Request, Requests
  <2> QED
    BY <1>2, <2>1 DEF Asks
<1>3. CASE ReceiveAnswer
  BY <1>3 DEF ReceiveAnswer, Take
<1>4. CASE ReceiveEnd \/ Timeout \/ NotReady \/ WriteFails
  BY <1>4 DEF ReceiveEnd, Take, Timeout, KillAndFail, NotReady, WriteFails
<1>5. CASE SpawnFails \/ Exchange
  BY <1>5 DEF SpawnFails, Exchange
<1>6. CASE EndShutdown
  BY <1>6 DEF EndShutdown, Vanish
<1>7. CASE Killed
  BY <1>7 DEF Killed, Vanish
<1>8. CASE Enter \/ ReuseChild \/ Spawn \/ Adopt \/ BecomeReady \/
           WriteBlocks \/ Leave
  BY <1>8 DEF Enter, ReuseChild, Spawn, Adopt, BecomeReady, WriteBlocks, Leave
<1>9. CASE Fire \/ TimerTooLate \/ CloseWhenIdle \/ EndClose \/ Shutdown
  BY <1>9 DEF Fire, TimerTooLate, CloseWhenIdle, EndClose, Shutdown
<1>10. ASSUME NEW c \in Children, Answer(c) \/ BeginRequest(c)
      PROVE  RequestTypes'
  BY <1>10 DEF Answer, BeginRequest
<1>11. ASSUME NEW c \in Children, SignalReady(c) \/ ExitAtEof(c) \/ Die(c) \/
                                  Drain(c) \/ DrainEnd(c)
      PROVE  RequestTypes'
  BY <1>11 DEF SignalReady, ExitAtEof, Die, Drain, DrainEnd
<1> QED
  BY <1>1, <1>2, <1>3, <1>4, <1>5, <1>6, <1>7, <1>8, <1>9, <1>10, <1>11,
     WriteAsks
     DEF Next, CallerStep, TimerStep, ChildStep, ReaderStep

\* The lines: what is appended is an item.
LEMMA LineTypesStep ==
    ASSUME SessionAssumption, Scalars, ChildTypes, RequestTypes, LineTypes,
           [Next]_vars
    PROVE  LineTypes'
<1> USE DEF LineTypes, vars, lockVars, timerVars, callVars, childVars,
    readerVars, sessionVars
<1>1. CASE Ended \/ UNCHANGED vars
  BY <1>1 DEF Ended
<1>2. CASE ReceiveAnswer \/ ReceiveEnd
  <2>1. queue' = [queue EXCEPT ![responses] = Tail(queue[responses])]
        /\ queue[responses] # <<>> /\ UNCHANGED pipe
    BY <1>2 DEF ReceiveAnswer, ReceiveEnd, Take
  <2>2. queue[responses] \in Seq(Items)
    BY DEF Scalars
  <2>3. Tail(queue[responses]) \in Seq(Items)
    BY <2>1, <2>2
  <2> QED
    BY <2>1, <2>3
<1>3. CASE EndShutdown \/ Killed
  <2>1. <<>> \in Seq(Items)
    OBVIOUS
  <2>2. queue' = [q \in 0 .. MaxChildren |-> <<>>] /\ UNCHANGED pipe
    BY <1>3 DEF EndShutdown, Killed, Vanish
  <2> QED
    BY <2>1, <2>2
<1>4. CASE Exchange \/ Enter \/ ReuseChild \/ Spawn \/ SpawnFails \/ Adopt \/
           BecomeReady
  BY <1>4 DEF Exchange, Enter, ReuseChild, Spawn, SpawnFails, Adopt, BecomeReady
<1>5. CASE NotReady \/ Asks \/ WriteBlocks \/ WriteFails \/ Timeout \/ Leave
  BY <1>5 DEF NotReady, KillAndFail, Asks, WriteBlocks, WriteFails, Timeout,
     Leave
<1>6. CASE Fire \/ TimerTooLate \/ CloseWhenIdle \/ EndClose \/ Shutdown
  BY <1>6 DEF Fire, TimerTooLate, CloseWhenIdle, EndClose, Shutdown
<1>7. ASSUME NEW c \in Children, Answer(c)
      PROVE  LineTypes'
  <2>1. \A item \in Items : Append(pipe[c], item) \in Seq(Items)
    OBVIOUS
  <2>2. /\ [kind |-> "line", of |-> inbox[c]] \in Items
        /\ [kind |-> "oversized", of |-> NoRequest] \in Items
    BY DEF Items, RequestTypes
  <2> QED
    BY <1>7, <2>1, <2>2 DEF Answer
<1>8. ASSUME NEW c \in Children, Drain(c)
      PROVE  LineTypes'
  <2>1. Head(pipe[c]) \in Items /\ Tail(pipe[c]) \in Seq(Items)
    BY <1>8 DEF Drain
  <2>2. \A q \in 0 .. MaxChildren :
            Append(queue[q], Head(pipe[c])) \in Seq(Items)
    BY <2>1
  <2> QED
    BY <1>8, <2>1, <2>2 DEF Drain, ChildTypes, NoQueue
<1>9. ASSUME NEW c \in Children, DrainEnd(c)
      PROVE  LineTypes'
  <2>1. [kind |-> "eof", of |-> NoRequest] \in Items
    BY DEF Items
  <2>2. \A q \in 0 .. MaxChildren :
            Append(queue[q], [kind |-> "eof", of |-> NoRequest]) \in Seq(Items)
    BY <2>1
  <2> QED
    BY <1>9, <2>2 DEF DrainEnd, ChildTypes, NoQueue
<1>10. ASSUME NEW c \in Children, SignalReady(c) \/ BeginRequest(c) \/
                                  ExitAtEof(c) \/ Die(c)
      PROVE  LineTypes'
  BY <1>10 DEF SignalReady, BeginRequest, ExitAtEof, Die
<1> QED
  BY <1>1, <1>2, <1>3, <1>4, <1>5, <1>6, <1>7, <1>8, <1>9, <1>10, WriteAsks
     DEF Next, CallerStep, TimerStep, ChildStep, ReaderStep

-----------------------------------------------------------------------------
(* Control, children, timers and attempts *)

\* The lock follows the caller's place in the program.
LEMMA ControlStep ==
    ASSUME SessionAssumption, Scalars, Control, [Next]_vars
    PROVE  Control'
<1> USE DEF SessionAssumption, Scalars, Control, Holding, Alive, Children,
    NoChild, vars, lockVars, timerVars, callVars, childVars, readerVars,
    sessionVars
<1>1. CASE Ended \/ UNCHANGED vars
  BY <1>1 DEF Ended
<1>2. CASE Exchange \/ Enter \/ ReuseChild
  BY <1>2 DEF Exchange, Enter, ReuseChild
<1>3. CASE Spawn \/ SpawnFails
  BY <1>3 DEF Spawn, SpawnFails
<1>4. CASE Adopt
  BY <1>4 DEF Adopt
<1>5. CASE BecomeReady \/ Asks \/ WriteBlocks \/ ReceiveAnswer
  BY <1>5 DEF BecomeReady, Asks, WriteBlocks, ReceiveAnswer, Take
<1>6. CASE NotReady \/ WriteFails \/ Timeout \/ ReceiveEnd
  BY <1>6 DEF NotReady, KillAndFail, WriteFails, Timeout, ReceiveEnd, Take
<1>7. CASE Leave
  BY <1>7 DEF Leave
<1>8. CASE Fire \/ TimerTooLate
  BY <1>8 DEF Fire, TimerTooLate
<1>9. CASE CloseWhenIdle \/ EndClose
  BY <1>9 DEF CloseWhenIdle, EndClose
<1>10. CASE Shutdown \/ EndShutdown \/ Killed
  BY <1>10 DEF Shutdown, EndShutdown, Vanish, Killed
<1>11. ASSUME NEW c \in Children, SignalReady(c) \/ BeginRequest(c) \/
                                  Answer(c) \/ ExitAtEof(c)
      PROVE  Control'
  BY <1>11 DEF SignalReady, BeginRequest, Answer, ExitAtEof
<1>12. ASSUME NEW c \in Children, Die(c) \/ Drain(c) \/ DrainEnd(c)
      PROVE  Control'
  BY <1>12 DEF Die, Drain, DrainEnd
<1> QED
  BY <1>1, <1>2, <1>3, <1>4, <1>5, <1>6, <1>7, <1>8, <1>9, <1>10, <1>11, <1>12,
     WriteAsks
     DEF Next, CallerStep, TimerStep, ChildStep, ReaderStep

\* A step of the caller or of a timer that starts, stops and asks no child.
LEMMA NumberingKept ==
    ASSUME SessionAssumption, Scalars, Numbering,
           process' \in {process, NoChild},
           firstChild' \in {firstChild, NoChild},
           UNCHANGED <<responses, spawned, started, engine, inbox, pipe,
                       readerVars>>,
           pc' = "adopt" => pc = "adopt"
    PROVE  Numbering'
<1>1. process' <= started' /\ firstChild' <= started'
  BY DEF Numbering, Scalars, NoChild, SessionAssumption
<1>2. \A c \in Children : Silent(c) => Silent(c)'
  BY DEF Silent, readerVars
<1>3. \A c \in Children : c > started' =>
          engine'[c] = "absent" /\ Silent(c)'
  BY <1>2 DEF Numbering
<1>4. pc' = "adopt" => responses' = spawned' /\ Silent(spawned)'
  BY DEF Numbering, Silent, readerVars
<1> QED
  BY <1>1, <1>3, <1>4 DEF Numbering, readerVars

\* The session's child ends and is forgotten.
LEMMA NumberingAtAnEnd ==
    ASSUME SessionAssumption, Scalars, ChildTypes, Numbering,
           process \in Children, process' = NoChild,
           engine' = [engine EXCEPT ![process] = "exited"],
           spawned' = spawned, pc' # "adopt",
           UNCHANGED <<started, firstChild, inbox, pipe, reader>>,
           \A c \in Children : c # process => queue'[c] = queue[c]
    PROVE  Numbering'
<1> USE DEF ChildTypes
<1>1. /\ \A c \in Children : c # process => engine'[c] = engine[c]
      /\ engine'[process] = "exited"
  OBVIOUS
<1>2. process <= started /\ started \in Nat /\ firstChild <= started
      /\ spawned \in {NoChild, started} /\ NoChild <= started
  BY DEF Numbering, Scalars, NoChild
<1>3. \A c \in Children : c > started => c # process
  BY <1>2 DEF Children
<1>4. \A c \in Children : c > started => engine'[c] = "absent" /\ Silent(c)'
  BY <1>1, <1>3 DEF Numbering, Silent
<1>5. \A c \in Children : c <= started => engine'[c] # "absent"
  BY <1>1 DEF Numbering
<1>6. \A c \in Children : engine'[c] = "busy" => inbox'[c] # NoRequest
  BY <1>1 DEF Numbering
<1>7. \A c \in Children : reader'[c] \in {c, NoQueue}
  BY DEF Numbering
<1> QED
  BY <1>2, <1>4, <1>5, <1>6, <1>7 DEF Numbering

\* A child that has not been started is silent; a queue belongs to one child.
LEMMA NumberingStep ==
    ASSUME SessionAssumption, Scalars, ChildTypes, RequestTypes, LineTypes,
           Control, Numbering, [Next]_vars
    PROVE  Numbering'
<1> USE DEF SessionAssumption, Scalars, ChildTypes, Control, Numbering, Silent,
    Children, NoChild, NoQueue, Running, vars, lockVars, timerVars, callVars,
    childVars, readerVars, sessionVars
<1>1. CASE Ended \/ UNCHANGED vars
  BY <1>1 DEF Ended
<1>2. CASE Exchange \/ Enter \/ ReuseChild
  BY <1>2, NumberingKept DEF Exchange, Enter, ReuseChild
<1>3. CASE Spawn
  <2>1. /\ started' = started + 1 /\ spawned' = started'
        /\ responses' = started' /\ process' = NoChild /\ started' \in Children
        /\ engine' = [engine EXCEPT ![started'] = "starting"]
        /\ pc = "ensure" /\ UNCHANGED <<inbox, pipe, reader, queue, firstChild>>
    BY <1>3 DEF Spawn
  <2>2. \A c \in Children : Silent(c) => Silent(c)'
    BY <2>1
  <2>3. \A c \in Children : c > started' =>
            engine'[c] = "absent" /\ Silent(c)'
    BY <2>1, <2>2
  <2>4. \A c \in Children : c <= started' => engine'[c] # "absent"
    BY <2>1
  <2>5. \A c \in Children : engine'[c] = "busy" => inbox'[c] # NoRequest
    BY <2>1
  <2>6. Silent(spawned)'
    BY <2>1
  <2> QED
    BY <2>1, <2>3, <2>4, <2>5, <2>6
<1>4. CASE SpawnFails \/ BecomeReady
  BY <1>4, NumberingKept DEF SpawnFails, BecomeReady
<1>23. CASE WriteBlocks
  BY <1>23 DEF WriteBlocks
<1>5. CASE Adopt
  <2>1. /\ process' = spawned /\ spawned' = NoChild /\ pc' = "await"
        /\ reader' = [reader EXCEPT ![spawned] = spawned]
        /\ UNCHANGED <<responses, started, firstChild, engine, inbox, pipe,
                       queue>>
    BY <1>5 DEF Adopt
  <2>2. \A c \in Children : c # spawned => reader'[c] = reader[c]
    BY <2>1
  <2>3. \A c \in Children : reader'[c] \in {c, NoQueue}
    BY <2>1
  <2>4. spawned = started
    BY <1>5 DEF Adopt
  <2>5. \A c \in Children : c > started => Silent(c)'
    BY <2>1, <2>2, <2>4
  <2> QED
    BY <1>5, <2>1, <2>3, <2>5 DEF Adopt
<1>6. CASE Asks
  <2>1. Request # NoRequest
    BY <1>6 DEF Asks, Request, NoRequest
  <2>2. inbox' \in [Children -> Requests \cup {NoRequest}]
    BY RequestTypesStep DEF RequestTypes
  <2>3. \A c \in Children : c # process => inbox'[c] = inbox[c]
    BY <1>6 DEF Asks, RequestTypes
  <2>4. inbox'[process] = Request
    BY <1>6 DEF Asks, RequestTypes
  <2>5. \A c \in Children : c > started => Silent(c)'
    BY <1>6, <2>3 DEF Asks
  <2>6. \A c \in Children : engine'[c] = "busy" => inbox'[c] # NoRequest
    BY <1>6, <2>1, <2>3, <2>4 DEF Asks
  <2> QED
    BY <1>6, <2>5, <2>6 DEF Asks
<1>7. CASE NotReady \/ WriteFails \/ Timeout
  <2>1. process \in Children
    BY <1>7 DEF NotReady, WriteFails, Timeout
  <2>2. /\ engine' = [engine EXCEPT ![process] = "exited"]
        /\ process' = NoChild /\ spawned' = spawned /\ pc' = "leave"
        /\ UNCHANGED <<started, firstChild, inbox, pipe, reader, queue>>
    BY <1>7 DEF NotReady, KillAndFail, WriteFails, Timeout
  <2> QED
    BY <2>1, <2>2, NumberingAtAnEnd
<1>8. CASE ReceiveAnswer
  BY <1>8 DEF ReceiveAnswer, Take
<1>9. CASE ReceiveEnd
  <2>1. process \in Children /\ responses = process
    BY <1>9 DEF ReceiveEnd
  <2>2. /\ engine' = [engine EXCEPT ![process] = "exited"]
        /\ process' = NoChild /\ spawned' = spawned /\ pc' = "leave"
        /\ UNCHANGED <<started, firstChild, inbox, pipe, reader>>
        /\ queue' = [queue EXCEPT ![responses] = Tail(@)]
    BY <1>9 DEF ReceiveEnd, Take
  <2>3. \A c \in Children : c # process => queue'[c] = queue[c]
    BY <2>1, <2>2 DEF LineTypes
  <2> QED
    BY <2>1, <2>2, <2>3, NumberingAtAnEnd
<1>10. CASE Leave
  BY <1>10, NumberingKept DEF Leave
<1>11. CASE Fire \/ TimerTooLate
  BY <1>11, NumberingKept DEF Fire, TimerTooLate
<1>12. CASE CloseWhenIdle \/ Shutdown
  BY <1>12, NumberingKept DEF CloseWhenIdle, Shutdown
<1>13. CASE EndClose
  <2>1. process \in Children /\ pc # "adopt"
    BY <1>13 DEF EndClose, Holding
  <2>2. /\ engine' = [engine EXCEPT ![process] = "exited"]
        /\ process' = NoChild /\ spawned' = spawned /\ pc' = pc
        /\ UNCHANGED <<started, firstChild, inbox, pipe, reader, queue>>
    BY <1>13 DEF EndClose
  <2> QED
    BY <2>1, <2>2, NumberingAtAnEnd
<1>14. CASE EndShutdown
  BY <1>14 DEF EndShutdown, Vanish
<1>15. CASE Killed
  BY <1>15 DEF Killed, Vanish
<1>16. ASSUME NEW c \in Children, SignalReady(c)
      PROVE  Numbering'
  BY <1>16 DEF SignalReady
<1>17. ASSUME NEW c \in Children, BeginRequest(c)
      PROVE  Numbering'
  BY <1>17 DEF BeginRequest
<1>18. ASSUME NEW c \in Children, Answer(c)
      PROVE  Numbering'
  BY <1>18 DEF Answer
<1>19. ASSUME NEW c \in Children, ExitAtEof(c)
      PROVE  Numbering'
  BY <1>19 DEF ExitAtEof
<1>20. ASSUME NEW c \in Children, Die(c)
      PROVE  Numbering'
  BY <1>20 DEF Die
<1>21. ASSUME NEW c \in Children, Drain(c)
      PROVE  Numbering'
  BY <1>21 DEF Drain
<1>22. ASSUME NEW c \in Children, DrainEnd(c)
      PROVE  Numbering'
  BY <1>22 DEF DrainEnd
<1> QED
  BY <1>1, <1>2, <1>3, <1>4, <1>5, <1>6, <1>7, <1>8, <1>9, <1>10, <1>11, <1>12,
     <1>13, <1>14, <1>15, <1>16, <1>17, <1>18, <1>19, <1>20, <1>21, <1>22,
     <1>23, WriteAsks
     DEF Next, CallerStep, TimerStep, ChildStep, ReaderStep

\* Only Spawn starts a child, when the session knows of no running one; a child
\* is forgotten when it is killed or has ended.
LEMMA NoOrphanStep ==
    ASSUME SessionAssumption, Scalars, ChildTypes, Control, Numbering, NoOrphan,
           [Next]_vars
    PROVE  NoOrphan'
<1> USE DEF SessionAssumption, Scalars, ChildTypes, Control, Numbering,
    NoOrphan, Alive, Running, Children, NoChild, vars, lockVars, timerVars,
    callVars, childVars, readerVars, sessionVars
<1>1. CASE Ended \/ UNCHANGED vars
  BY <1>1 DEF Ended
<1>2. CASE Exchange \/ Enter \/ ReuseChild \/ BecomeReady
  BY <1>2 DEF Exchange, Enter, ReuseChild, BecomeReady
<1>3. CASE Spawn \/ SpawnFails
  BY <1>3 DEF Spawn, SpawnFails
<1>4. CASE Adopt
  BY <1>4 DEF Adopt
<1>5. CASE Asks \/ WriteBlocks \/ ReceiveAnswer \/ Leave
  BY <1>5 DEF Asks, WriteBlocks, ReceiveAnswer, Take, Leave
<1>6. CASE NotReady \/ WriteFails \/ Timeout
  BY <1>6 DEF NotReady, KillAndFail, WriteFails, Timeout
<1>7. CASE ReceiveEnd
  BY <1>7 DEF ReceiveEnd, Take
<1>8. CASE Fire \/ TimerTooLate
  BY <1>8 DEF Fire, TimerTooLate
<1>9. CASE CloseWhenIdle \/ EndClose
  BY <1>9 DEF CloseWhenIdle, EndClose
<1>10. CASE Shutdown \/ EndShutdown \/ Killed
  BY <1>10 DEF Shutdown, EndShutdown, Vanish, Killed
<1>11. ASSUME NEW c \in Children, SignalReady(c) \/ BeginRequest(c) \/
                                  Answer(c)
      PROVE  NoOrphan'
  BY <1>11 DEF SignalReady, BeginRequest, Answer
<1>12. ASSUME NEW c \in Children, ExitAtEof(c) \/ Die(c)
      PROVE  NoOrphan'
  BY <1>12 DEF ExitAtEof, Die
<1>13. ASSUME NEW c \in Children, Drain(c) \/ DrainEnd(c)
      PROVE  NoOrphan'
  BY <1>13 DEF Drain, DrainEnd
<1> QED
  BY <1>1, <1>2, <1>3, <1>4, <1>5, <1>6, <1>7, <1>8, <1>9, <1>10, <1>11, <1>12,
     <1>13, WriteAsks
     DEF Next, CallerStep, TimerStep, ChildStep, ReaderStep

\* A timer is armed where the lock is released, under a number no expired timer
\* has.
LEMMA TimersStep ==
    ASSUME SessionAssumption, Scalars, TimerTypes, Control, Timers, [Next]_vars
    PROVE  Timers'
<1> USE DEF Scalars, TimerTypes, Control, Timers, IdleChildHasTimer, Holding,
    NoChild, vars, lockVars, timerVars, callVars, childVars, readerVars,
    sessionVars
<1>1. CASE Ended \/ UNCHANGED vars
  BY <1>1 DEF Ended
<1>2. CASE Exchange \/ ReuseChild
  BY <1>2 DEF Exchange, ReuseChild
<1>3. CASE Enter
  BY <1>3 DEF Enter
<1>4. CASE Spawn \/ SpawnFails \/ Adopt
  BY <1>4 DEF Spawn, SpawnFails, Adopt
<1>5. CASE BecomeReady \/ Asks \/ WriteBlocks \/ ReceiveAnswer
  BY <1>5 DEF BecomeReady, Asks, WriteBlocks, ReceiveAnswer, Take
<1>6. CASE NotReady \/ WriteFails \/ Timeout \/ ReceiveEnd
  BY <1>6 DEF NotReady, KillAndFail, WriteFails, Timeout, ReceiveEnd, Take
<1>7. CASE Leave
  BY <1>7 DEF Leave
<1>8. CASE Fire
  BY <1>8 DEF Fire
<1>9. CASE TimerTooLate
  BY <1>9 DEF TimerTooLate
<1>10. CASE CloseWhenIdle \/ EndClose
  BY <1>10 DEF CloseWhenIdle, EndClose
<1>11. CASE Shutdown \/ EndShutdown \/ Killed
  BY <1>11 DEF Shutdown, EndShutdown, Vanish, Killed
<1>12. ASSUME NEW c \in Children, SignalReady(c) \/ BeginRequest(c) \/
                                  Answer(c) \/ ExitAtEof(c)
      PROVE  Timers'
  BY <1>12 DEF SignalReady, BeginRequest, Answer, ExitAtEof
<1>13. ASSUME NEW c \in Children, Die(c) \/ Drain(c) \/ DrainEnd(c)
      PROVE  Timers'
  BY <1>13 DEF Die, Drain, DrainEnd
<1> QED
  BY <1>1, <1>2, <1>3, <1>4, <1>5, <1>6, <1>7, <1>8, <1>9, <1>10, <1>11, <1>12,
     <1>13, WriteAsks
     DEF Next, CallerStep, TimerStep, ChildStep, ReaderStep

\* A second attempt begins without a child, so that the child it gets is new.
LEMMA AttemptsStep ==
    ASSUME SessionAssumption, Scalars, RequestTypes, Control, Numbering,
           Attempts, [Next]_vars
    PROVE  Attempts'
<1> USE DEF Scalars, Control, Numbering, Attempts, NoOutcome, Retry, NoChild,
    vars, lockVars, timerVars, callVars, childVars, readerVars, sessionVars
<1>1. CASE Ended \/ UNCHANGED vars
  BY <1>1 DEF Ended
<1>2. CASE Exchange \/ Enter \/ ReuseChild
  BY <1>2 DEF Exchange, Enter, ReuseChild
<1>3. CASE Spawn \/ SpawnFails
  BY <1>3 DEF Spawn, SpawnFails
<1>4. CASE Adopt
  BY <1>4 DEF Adopt
<1>5. CASE BecomeReady \/ Asks \/ WriteBlocks
  BY <1>5 DEF BecomeReady, Asks, WriteBlocks
<1>6. CASE ReceiveAnswer
  BY <1>6 DEF ReceiveAnswer, Take
<1>7. CASE NotReady \/ WriteFails \/ Timeout
  BY <1>7 DEF NotReady, KillAndFail, WriteFails, Timeout
<1>8. CASE ReceiveEnd
  BY <1>8 DEF ReceiveEnd, Take
<1>9. CASE Leave
  BY <1>9 DEF Leave
<1>10. CASE Fire \/ TimerTooLate
  BY <1>10 DEF Fire, TimerTooLate
<1>11. CASE CloseWhenIdle \/ EndClose
  BY <1>11 DEF CloseWhenIdle, EndClose
<1>12. CASE Shutdown \/ EndShutdown \/ Killed
  BY <1>12 DEF Shutdown, EndShutdown, Vanish, Killed
<1>13. ASSUME NEW c \in Children, SignalReady(c) \/ BeginRequest(c) \/
                                  Answer(c) \/ ExitAtEof(c)
      PROVE  Attempts'
  BY <1>13 DEF SignalReady, BeginRequest, Answer, ExitAtEof
<1>14. ASSUME NEW c \in Children, Die(c) \/ Drain(c) \/ DrainEnd(c)
      PROVE  Attempts'
  BY <1>14 DEF Die, Drain, DrainEnd
<1> QED
  BY <1>1, <1>2, <1>3, <1>4, <1>5, <1>6, <1>7, <1>8, <1>9, <1>10, <1>11, <1>12,
     <1>13, <1>14, WriteAsks
     DEF Next, CallerStep, TimerStep, ChildStep, ReaderStep

-----------------------------------------------------------------------------
(* What has been asked, and what is answered *)

\* A call is written once, or twice when it is idempotent; an answered request
\* is taken out of the inbox.
LEMMA OnceStep ==
    ASSUME SessionAssumption, Scalars, ChildTypes, RequestTypes, Control,
           Attempts, Once, [Next]_vars
    PROVE  Once'
<1> USE DEF Scalars, Control, Attempts, Once, Asked, vars, lockVars, timerVars,
    callVars, childVars, readerVars, sessionVars
<1>1. CASE Ended \/ UNCHANGED vars
  BY <1>1 DEF Ended
<1>2. CASE Exchange
  <2>1. \A r \in Asked \ {NoRequest} : r[1] \in 1 .. MaxCalls
    BY DEF RequestTypes, Requests
  <2>2. UNCHANGED <<served, inbox>> /\ call' = call + 1 /\ pc # "gone"
    BY <1>2 DEF Exchange
  <2>3. \A r \in Asked \ {NoRequest} : r[1] <= call' /\ r[1] # call'
    BY <2>1, <2>2
  <2> QED
    BY <2>2, <2>3
<1>3. CASE Enter \/ ReuseChild
  BY <1>3 DEF Enter, ReuseChild
<1>4. CASE Spawn \/ SpawnFails
  BY <1>4 DEF Spawn, SpawnFails
<1>5. CASE Adopt \/ BecomeReady \/ WriteBlocks
  BY <1>5 DEF Adopt, BecomeReady, WriteBlocks
<1>6. CASE Asks
  <2>1. Asked' \subseteq Asked \cup {Request}
    BY <1>6 DEF Asks, RequestTypes
  <2>2. /\ Request[1] = call /\ Request[3] = idempotent /\ Request # NoRequest
        /\ NoRequest[1] = 0
    BY <1>6 DEF Asks, Request, NoRequest
  <2>3. \A r \in Asked \ {NoRequest} : r[1] = call => attempt = 2 /\ r[3]
    BY <1>6 DEF Asks
  <2>4. ASSUME NEW r \in Asked', NEW t \in Asked', r[1] = t[1], ~r[3]
        PROVE  r = t
    <3>1. CASE r \in Asked /\ t \in Asked
      BY <2>4, <3>1
    <3>2. CASE r = Request /\ t # Request
      <4>1. t \in Asked \ {NoRequest} /\ t[1] = call
        BY <1>6, <2>1, <2>2, <2>4, <3>2 DEF Asks
      <4> QED
        BY <2>2, <2>3, <2>4, <3>2, <4>1
    <3>3. CASE t = Request /\ r # Request
      <4>1. r \in Asked \ {NoRequest} /\ r[1] = call
        BY <1>6, <2>1, <2>2, <2>4, <3>3 DEF Asks
      <4> QED
        BY <2>3, <2>4, <4>1
    <3> QED
      BY <2>1, <2>4, <3>1, <3>2, <3>3
  <2>5. ASSUME NEW r \in Asked' \ {NoRequest}
        PROVE  r[1] <= call /\ (r[1] = call => r[3] = idempotent)
    BY <1>6, <2>1, <2>2, <2>5 DEF Asks
  <2> QED
    BY <1>6, <2>4, <2>5 DEF Asks
<1>7. CASE ReceiveAnswer \/ ReceiveEnd
  BY <1>7 DEF ReceiveAnswer, Take, ReceiveEnd
<1>8. CASE NotReady \/ WriteFails \/ Timeout
  BY <1>8 DEF NotReady, KillAndFail, WriteFails, Timeout
<1>9. CASE Leave
  BY <1>9 DEF Leave
<1>10. CASE Fire \/ TimerTooLate
  BY <1>10 DEF Fire, TimerTooLate
<1>11. CASE CloseWhenIdle \/ EndClose
  BY <1>11 DEF CloseWhenIdle, EndClose
<1>12. CASE Shutdown \/ EndShutdown \/ Killed
  BY <1>12 DEF Shutdown, EndShutdown, Vanish, Killed
<1>13. ASSUME NEW c \in Children, Answer(c)
      PROVE  Once'
  <2>1. /\ Asked' \subseteq Asked \cup {NoRequest}
        /\ UNCHANGED <<pc, call, idempotent, attempt>>
    BY <1>13 DEF Answer, RequestTypes
  <2>2. \A r \in Asked \ {NoRequest} : r[1] # 0
    BY DEF RequestTypes, Requests
  <2>3. NoRequest[1] = 0 /\ NoRequest[3]
    BY DEF NoRequest
  <2> QED
    BY <2>1, <2>2, <2>3
<1>14. ASSUME NEW c \in Children, BeginRequest(c)
      PROVE  Once'
  BY <1>14 DEF BeginRequest
<1>15. ASSUME NEW c \in Children, SignalReady(c) \/ ExitAtEof(c) \/ Die(c)
      PROVE  Once'
  BY <1>15 DEF SignalReady, ExitAtEof, Die
<1>16. ASSUME NEW c \in Children, Drain(c) \/ DrainEnd(c)
      PROVE  Once'
  BY <1>16 DEF Drain, DrainEnd
<1> QED
  BY <1>1, <1>2, <1>3, <1>4, <1>5, <1>6, <1>7, <1>8, <1>9, <1>10, <1>11, <1>12,
     <1>13, <1>14, <1>15, <1>16, WriteAsks
     DEF Next, CallerStep, TimerStep, ChildStep, ReaderStep

\* A list of one line is empty without it.
LEMMA OneLine ==
    ASSUME NEW s \in Seq(Items), Len(s) = 1
    PROVE  Tail(s) = <<>>
<1>1. s # <<>>
  BY EmptySeq
<1>2. Tail(s) \in Seq(Items) /\ Len(Tail(s)) = 0
  BY <1>1
<1> QED
  BY <1>2, EmptySeq

\* What stays without an answer when something else comes.
LEMMA NoLineAppend ==
    ASSUME NEW s \in Seq(Items), NEW e \in Items, NoLine(s), e.kind # "line"
    PROVE  NoLine(Append(s, e))
  BY DEF NoLine

\* ... and when the first is taken.
LEMMA NoLineTail ==
    ASSUME NEW s \in Seq(Items), s # <<>>, NoLine(s)
    PROVE  NoLine(Tail(s))
  BY DEF NoLine

\* After the first there is no answer.
LEMMA LineFirstTail ==
    ASSUME NEW s \in Seq(Items), s # <<>>, LineFirst(s)
    PROVE  NoLine(Tail(s))
  BY DEF NoLine, LineFirst

\* An answer may only come to an empty queue.
LEMMA LineFirstAppend ==
    ASSUME NEW s \in Seq(Items), NEW e \in Items, LineFirst(s),
           e.kind = "line" => s = <<>> /\ e.of = Request
    PROVE  LineFirst(Append(s, e))
  BY DEF LineFirst

\* A step that does not touch the lines of the session's child.
LEMMA LinesKept ==
    ASSUME Lines, UNCHANGED <<process, pc, callVars, outcome>>,
           process # NoChild =>
               /\ inbox'[process] = inbox[process]
               /\ pipe'[process] = pipe[process]
               /\ queue'[process] = queue[process]
               /\ engine'[process] \in Running => engine[process] \in Running,
           Control
    PROVE  Lines'
<1>1. Request' = Request
  BY DEF Request, callVars
<1>2. ASSUME process # NoChild
      PROVE  /\ Clean(process) => Clean(process)'
             /\ Unanswered(process) => Unanswered(process)'
             /\ Answered(process) => Answered(process)'
  BY <1>1, <1>2 DEF Clean, Unanswered, Answered, NoLine, LineFirst
<1> QED
  BY <1>1, <1>2 DEF Lines, Control, AnswersOwnRequest

\* One request is written into a clean child; its answer is the only line that
\* comes out of it before the caller takes it or kills the child.
LEMMA LinesStep ==
    ASSUME SessionAssumption, Scalars, ChildTypes, RequestTypes, LineTypes,
           Control, Numbering, Attempts, Lines, [Next]_vars
    PROVE  Lines'
<1> USE DEF vars, lockVars, timerVars, callVars, childVars, readerVars,
    sessionVars
<1>1. CASE Ended \/ UNCHANGED vars
  BY <1>1, LinesKept DEF Ended
<1>2. CASE Exchange \/ Enter \/ ReuseChild \/ BecomeReady \/ WriteBlocks \/
           Leave
  <2>1. /\ pc # "wait" /\ pc' \notin {"wait", "leave"}
        /\ pc = "closing" => process = NoChild
        /\ UNCHANGED <<process, engine, inbox, pipe, queue>>
    BY <1>2 DEF Exchange, Enter, ReuseChild, BecomeReady, WriteBlocks, Leave
  <2>2. Clean(process) => Clean(process)'
    BY <2>1 DEF Clean, NoLine
  <2> QED
    BY <2>1, <2>2 DEF Lines, AnswersOwnRequest
<1>3. CASE Spawn \/ SpawnFails \/ NotReady \/ WriteFails \/ ReceiveEnd \/
           Timeout \/ EndShutdown \/ Killed
  <2>1. /\ process' = NoChild /\ pc' # "wait"
        /\ pc' = "leave" => outcome'.kind # "answer"
    BY <1>3 DEF Spawn, SpawnFails, NotReady, WriteFails, ReceiveEnd, Timeout,
                KillAndFail, EndShutdown, Killed, Vanish, NoOutcome
  <2> QED
    BY <2>1 DEF Lines, AnswersOwnRequest
<1>4. CASE EndClose
  <2>1. process' = NoChild /\ UNCHANGED pc /\ pc \notin Holding
    BY <1>4 DEF EndClose, Control
  <2> QED
    BY <2>1 DEF Holding, Lines, AnswersOwnRequest
<1>5. CASE Shutdown
  BY <1>5 DEF Shutdown, Lines, AnswersOwnRequest
<1>6. CASE Adopt
  <2>1. process' \in Children /\ process' = spawned /\ Silent(spawned)
    BY <1>6 DEF Adopt, Numbering, Control, Scalars, Children, NoChild
  <2>2. UNCHANGED <<engine, inbox, pipe, queue>> /\ pc' = "await"
    BY <1>6 DEF Adopt
  <2>3. Clean(process)'
    BY <2>1, <2>2 DEF Silent, Clean, NoLine
  <2> QED
    BY <2>2, <2>3 DEF Lines, AnswersOwnRequest
<1>7. CASE Asks
  <2>1. process \in Children /\ Clean(process)
    BY <1>7 DEF Asks, Control, Scalars, Children, NoChild, Lines
  <2>2. inbox'[process] = Request /\ Request' = Request /\ pc' = "wait"
    BY <1>7, <2>1 DEF Asks, RequestTypes, Request
  <2>3. Unanswered(process)'
    BY <1>7, <2>1, <2>2 DEF Asks, Clean, Unanswered, NoLine
  <2> QED
    BY <1>7, <2>2, <2>3 DEF Asks, Lines, AnswersOwnRequest
<1>8. CASE ReceiveAnswer
  <2>1. /\ process \in Children /\ responses = process
        /\ queue[process] \in Seq(Items)
    BY <1>8 DEF ReceiveAnswer, Control, Numbering, Scalars, Children, NoChild,
                 LineTypes
  <2>2. PICK r \in Requests : Take([kind |-> "line", of |-> r])
                             /\ outcome' = [kind |-> "answer", of |-> r]
    BY <1>8 DEF ReceiveAnswer
  <2>3. /\ queue[process] # <<>>
        /\ queue[process][1] = [kind |-> "line", of |-> r]
        /\ queue'[process] = Tail(queue[process])
    BY <2>1, <2>2 DEF Take, LineTypes, Children
  <2>4. ~NoLine(queue[process])
    BY <2>1, <2>3 DEF NoLine
  <2>5. Answered(process)
    BY <1>8, <2>4 DEF ReceiveAnswer, Lines, Unanswered
  <2>6. r = Request /\ NoLine(Tail(queue[process]))
    BY <2>1, <2>3, <2>5, LineFirstTail DEF Answered, LineFirst
  <2>7. UNCHANGED <<process, callVars, engine, inbox, pipe>> /\ pc' = "leave"
    BY <1>8 DEF ReceiveAnswer, lockVars, childVars
  <2>8. engine[process] \in Running =>
            pipe[process] = <<>> /\ Tail(queue[process]) = <<>>
    BY <2>1, <2>3, <2>5, OneLine DEF Answered
  <2>9. Clean(process)'
    BY <2>3, <2>5, <2>6, <2>7, <2>8 DEF Clean, Answered, NoLine
  <2> QED
    BY <2>2, <2>6, <2>7, <2>9 DEF Lines, AnswersOwnRequest, Request, callVars
<1>9. CASE Fire \/ TimerTooLate \/ CloseWhenIdle
  BY <1>9, LinesKept DEF Fire, TimerTooLate, CloseWhenIdle
<1>10. ASSUME NEW c \in Children, SignalReady(c) \/ BeginRequest(c) \/
                                  ExitAtEof(c) \/ Die(c)
      PROVE  Lines'
  <2>1. \A d \in Children : engine'[d] \in Running => engine[d] \in Running
    BY <1>10 DEF SignalReady, BeginRequest, ExitAtEof, Die, Running, ChildTypes
  <2>2. process # NoChild => process \in Children
    BY DEF Scalars, Children, NoChild
  <2> QED
    BY <1>10, <2>1, <2>2, LinesKept
       DEF SignalReady, BeginRequest, ExitAtEof, Die
<1>11. ASSUME NEW c \in Children, Answer(c)
      PROVE  Lines'
  <2>1. CASE c # process
    BY <1>11, <2>1, LinesKept DEF Answer
  <2>2. CASE c = process
    <3>1. inbox[c] # NoRequest /\ process # NoChild /\ engine[c] \in Running
      BY <1>11, <2>2 DEF Answer, Numbering, Running, Children, NoChild
    <3>2. /\ UNCHANGED <<process, pc, callVars, outcome, queue>>
          /\ engine'[c] = "ready" /\ inbox'[c] = NoRequest
      BY <1>11 DEF Answer, ChildTypes, RequestTypes
    <3>3. CASE pc = "wait"
      <4>1. Unanswered(c)
        BY <2>2, <3>1, <3>3 DEF Lines, Answered
      <4>2. PICK item \in {[kind |-> "line", of |-> inbox[c]],
                           [kind |-> "oversized", of |-> NoRequest]} :
                pipe'[c] = Append(pipe[c], item)
        BY <1>11 DEF Answer, LineTypes
      <4>3. pipe'[c] = <<item>> /\ queue'[c] = <<>>
        <5>1. pipe[c] = <<>> /\ queue[c] = <<>>
          BY <3>1, <4>1 DEF Unanswered
        <5> QED
          BY <3>2, <4>2, <5>1
      <4>4. item.kind = "line" => item.of = Request
        BY <4>1, <4>2 DEF Unanswered
      <4>5. Answered(c)'
        BY <3>2, <4>3, <4>4 DEF Answered, LineFirst, NoLine, Request, callVars
      <4> QED
        BY <2>2, <3>2, <3>3, <4>5
           DEF Lines, AnswersOwnRequest, Request, callVars
    <3>4. CASE pc # "wait"
      BY <2>2, <3>1, <3>2, <3>4
         DEF Lines, Clean, AnswersOwnRequest, Request, callVars
    <3> QED
      BY <3>3, <3>4
  <2> QED
    BY <2>1, <2>2
<1>12. ASSUME NEW c \in Children, Drain(c)
      PROVE  Lines'
  <2>1. /\ reader[c] = c /\ pipe[c] # <<>> /\ pipe[c] \in Seq(Items)
        /\ queue[c] \in Seq(Items) /\ c \in 0 .. MaxChildren
    BY <1>12 DEF Drain, Numbering, LineTypes, Children
  <2>2. /\ UNCHANGED <<process, pc, callVars, outcome, engine, inbox>>
        /\ pipe' = [pipe EXCEPT ![c] = Tail(pipe[c])]
        /\ queue' = [queue EXCEPT ![c] = Append(queue[c], Head(pipe[c]))]
    BY <1>12, <2>1 DEF Drain, LineTypes
  <2>3. CASE c # process
    BY <2>2, <2>3, LinesKept
  <2>4. CASE c = process
    <3>1. /\ pipe'[c] = Tail(pipe[c])
          /\ queue'[c] = Append(queue[c], Head(pipe[c]))
      BY <2>1, <2>2 DEF LineTypes
    <3>6. Head(pipe[c]) \in Items /\ Head(pipe[c]) = pipe[c][1]
      BY <2>1
    <3>7. Request' = Request /\ process # NoChild
      BY <2>2, <2>4 DEF Request, callVars, Children, NoChild
    <3>2. ASSUME NoLine(pipe[c]), NoLine(queue[c])
          PROVE  NoLine(pipe'[c]) /\ NoLine(queue'[c])
      <4>1. Head(pipe[c]).kind # "line"
        BY <2>1, <3>1, <3>6, <3>2 DEF NoLine
      <4> QED
        BY <2>1, <3>1, <3>6, <3>2, <4>1, NoLineAppend, NoLineTail
    <3>3. Clean(c) => Clean(c)'
      BY <2>1, <2>2, <3>2 DEF Clean, NoLine
    <3>4. Unanswered(c) => Unanswered(c)'
      BY <2>1, <2>2, <3>1, <3>7, <3>2 DEF Unanswered, NoLine
    <3>5. ASSUME Answered(c) PROVE Answered(c)'
      <4>1. Head(pipe[c]).kind = "line" =>
                queue[c] = <<>> /\ Head(pipe[c]).of = Request
        BY <2>1, <3>1, <3>6, <3>7, <3>5 DEF Answered, LineFirst, NoLine
      <4>2. NoLine(pipe'[c]) /\ LineFirst(queue'[c])
        BY <2>1, <3>1, <3>6, <3>7, <3>5, <4>1, LineFirstTail, LineFirstAppend
           DEF Answered
      <4>3. engine[c] \in Running => pipe'[c] = <<>> /\ Len(queue'[c]) = 1
        <5>1. Len(pipe[c]) = 1 => Tail(pipe[c]) = <<>>
          BY <2>1, OneLine
        <5>2. Len(Append(<<>>, Head(pipe[c]))) = 1
          OBVIOUS
        <5> QED
          BY <2>1, <3>1, <3>5, <5>1, <5>2 DEF Answered
      <4> QED
        BY <2>2, <3>1, <3>6, <3>7, <3>5, <4>2, <4>3
           DEF Answered, LineFirst, NoLine
    <3> QED
      BY <2>2, <2>4, <3>1, <3>7, <3>3, <3>4, <3>5 DEF Lines, AnswersOwnRequest
  <2> QED
    BY <2>3, <2>4
<1>13. ASSUME NEW c \in Children, DrainEnd(c)
      PROVE  Lines'
  <2> DEFINE end == [kind |-> "eof", of |-> NoRequest]
  <2>5. end \in Items
    BY DEF Items
  <2>1. /\ reader[c] = c /\ engine[c] = "exited"
        /\ queue[c] \in Seq(Items) /\ c \in 0 .. MaxChildren
    <3>1. reader[c] = c /\ engine[c] = "exited"
      BY <1>13 DEF DrainEnd, Numbering
    <3>2. queue[c] \in Seq(Items) /\ c \in 0 .. MaxChildren
      BY DEF LineTypes, Children
    <3> QED
      BY <3>1, <3>2
  <2>2. /\ UNCHANGED <<process, pc, callVars, outcome, engine, inbox, pipe>>
        /\ queue' = [queue EXCEPT ![c] = Append(queue[c], end)]
    BY <1>13, <2>1 DEF DrainEnd, LineTypes
  <2>3. CASE c # process
    BY <2>2, <2>3, LinesKept
  <2>4. CASE c = process
    <3>1. /\ queue'[c] = Append(queue[c], end) /\ Request' = Request
          /\ process # NoChild /\ pipe[c] = <<>> /\ engine[c] \notin Running
      BY <1>13, <2>1, <2>2, <2>4
         DEF LineTypes, Request, callVars, Children, NoChild, Running, DrainEnd
    <3>2. /\ NoLine(queue[c]) => NoLine(queue'[c])
          /\ LineFirst(queue[c]) => LineFirst(queue'[c])
      BY <2>5, <2>1, <3>1, NoLineAppend, LineFirstAppend
    <3>3. LineFirst(queue'[c]) => LineFirst(queue[c])'
      BY <3>1 DEF LineFirst
    <3> QED
      BY <2>2, <2>4, <3>1, <3>2, <3>3
         DEF Lines, AnswersOwnRequest, Clean, Unanswered, Answered, NoLine,
             LineFirst
  <2> QED
    BY <2>3, <2>4
<1> QED
  BY <1>1, <1>2, <1>3, <1>4, <1>5, <1>6, <1>7, <1>8, <1>9, <1>10, <1>11, <1>12,
     <1>13, WriteAsks
     DEF Next, CallerStep, TimerStep, ChildStep, ReaderStep

-----------------------------------------------------------------------------
(* Theorems *)

\* The initial states satisfy the inductive invariant.
LEMMA InitIInv ==
    ASSUME SessionAssumption, Init
    PROVE  IInv
<1> USE DEF Init, SessionAssumption, Children, NoChild, NoQueue
<1>1. Scalars /\ TimerTypes
  BY DEF Scalars, TimerTypes
<1>2. ChildTypes /\ RequestTypes
  BY DEF ChildTypes, RequestTypes, Outcomes, NoOutcome
<1>3. LineTypes
  BY DEF LineTypes
<1>4. Control /\ Timers /\ Attempts
  BY DEF Control, Holding, Timers, Attempts, IdleChildHasTimer
<1>5. Numbering
  BY DEF Numbering, Silent
<1>6. NoOrphan
  BY DEF NoOrphan, Running
<1>7. Once
  BY DEF Once, Asked, NoRequest
<1>8. Lines
  BY DEF Lines, AnswersOwnRequest, NoOutcome
<1> QED
  BY <1>1, <1>2, <1>3, <1>4, <1>5, <1>6, <1>7, <1>8 DEF IInv

\* Every step keeps it.
LEMMA StepIInv ==
    ASSUME SessionAssumption, IInv, [Next]_vars
    PROVE  IInv'
<1>1. Scalars' /\ TimerTypes' /\ ChildTypes' /\ RequestTypes' /\ LineTypes'
  BY ScalarsStep, TimerTypesStep, ChildTypesStep, RequestTypesStep,
     LineTypesStep DEF IInv
<1>2. Control' /\ Numbering' /\ NoOrphan' /\ Timers' /\ Attempts'
  BY ControlStep, NumberingStep, NoOrphanStep, TimersStep, AttemptsStep
     DEF IInv
<1>3. Once' /\ Lines'
  BY OnceStep, LinesStep DEF IInv
<1> QED
  BY <1>1, <1>2, <1>3 DEF IInv

\* The inductive invariant holds in every state of a session
\* (engine_session.py).
THEOREM Inductive == Spec => []IInv
<1>1. Init => IInv
  BY InitIInv, SessionAssumption
<1>2. IInv /\ [Next]_vars => IInv'
  BY StepIInv, SessionAssumption
<1> QED
  BY <1>1, <1>2, PTL DEF Spec

\* The variables of a session have their types.
THEOREM TypeCorrect == Spec => []TypeOK
<1>1. IInv => TypeOK
  BY TypeParts, SessionAssumption DEF IInv
<1> QED
  BY <1>1, Inductive, PTL

\* No path out of an exchange forgets a running child (_kill, _exchange).
THEOREM NobodyOrphaned == Spec => []NoOrphan
<1>1. IInv => NoOrphan
  BY DEF IInv
<1> QED
  BY <1>1, Inductive, PTL

\* A child is never idle without a timer that will close it (_arm_idle_timer).
THEOREM IdleChildrenAreTimed == Spec => []IdleChildHasTimer
<1>1. IInv => IdleChildHasTimer
  BY DEF IInv, Timers
<1> QED
  BY <1>1, Inductive, PTL

\* A late answer is never taken for the answer to another request (exchange).
THEOREM AnswersMatch == Spec => []AnswersOwnRequest
<1>1. IInv => AnswersOwnRequest
  BY DEF IInv, Lines
<1> QED
  BY <1>1, Inductive, PTL

\* A build or an update is executed at most once (SessionTransport).
THEOREM WritesOnce == Spec => []WritesServedOnce
<1>1. IInv => WritesServedOnce
  BY DEF IInv, Once, Asked, WritesServedOnce
<1> QED
  BY <1>1, Inductive, PTL

\* A query is retried in another child than the one that lost it.
THEOREM RetriesAreFresh == Spec => []RetriesOnFreshChild
<1>1. IInv => RetriesOnFreshChild
  BY DEF IInv, Attempts, Control, RetriesOnFreshChild
<1> QED
  BY <1>1, Inductive, PTL

\* A timer that expired before an exchange closes nothing after it
\* (_close_when_idle).
THEOREM StaleTimersSpare == Spec => StaleTimerSpares
<1>1. ASSUME IInv, [Next]_vars, NEW f \in fired, lock = "free", lock' = "timer",
             f \notin fired'
      PROVE  ~f.stale
  <2>1. CloseWhenIdle
    BY <1>1
       DEF Next, CallerStep, TimerStep, ChildStep, ReaderStep, Ended, Exchange,
           Enter, ReuseChild, Spawn, SpawnFails, Adopt, BecomeReady, NotReady,
           KillAndFail, Write, WriteBlocks, ReadOn, WriteFails, ReceiveAnswer,
           ReceiveEnd, Timeout, Leave, EndShutdown, Vanish, Fire, TimerTooLate,
           EndClose, Shutdown,
           Killed, SignalReady, BeginRequest, Answer, ExitAtEof, Die, Drain,
           DrainEnd, vars, lockVars, sessionVars
  <2>2. Current(f)
    BY <1>1, <2>1 DEF CloseWhenIdle
  <2> QED
    BY <1>1, <2>2 DEF Current, IInv, Timers
<1>2. IInv /\ [Next]_vars =>
          [\A f \in fired :
               (lock = "free" /\ lock' = "timer" /\ f \notin fired')
                   => ~f.stale]_vars
  BY <1>1
<1> QED
  BY <1>2, Inductive, PTL DEF Spec, StaleTimerSpares

-----------------------------------------------------------------------------
(* The hook *)

\* The child that interrupt kills has been started; if it runs, it dies, and if
\* it is over, nothing happens.
LEMMA InterruptIsADeath ==
    ASSUME SessionAssumption, IInv, Interrupt
    PROVE  [Next]_vars
<1> USE DEF Interrupt, sessionVars, readerVars
<1>1. CASE process = NoChild
  BY <1>1 DEF vars, childVars
<1>2. CASE process # NoChild
  <2>1. process \in Children /\ engine[process] \in Running \cup {"exited"}
    <3>1. process \in Children /\ process <= started
      BY <1>2 DEF IInv, Scalars, Numbering, Children, NoChild
    <3>2. engine[process] # "absent"
      BY <3>1 DEF IInv, Numbering
    <3> QED
      BY <3>1, <3>2 DEF IInv, ChildTypes
  <2>2. CASE engine[process] = "exited"
    <3>1. engine' = engine
      BY <1>2, <2>1, <2>2 DEF IInv, ChildTypes
    <3> QED
      BY <3>1 DEF vars, childVars
  <2>3. CASE engine[process] \in Running
    <3>1. Die(process)
      BY <1>2, <2>3 DEF Die
    <3> QED
      BY <2>1, <3>1 DEF Next
  <2> QED
    BY <2>1, <2>2, <2>3
<1> QED
  BY <1>1, <1>2

\* Every step of a hook or of the broker is a step of a session.
LEMMA HookStep ==
    ASSUME SessionAssumption, IInv, [HookNext]_hookVars
    PROVE  [Next]_vars
<1>1. CASE UNCHANGED hookVars
  BY <1>1 DEF hookVars
<1>2. CASE watch = "off" /\ Next
  BY <1>2
<1>3. CASE Worker
  BY <1>3 DEF Worker, HookExchange, HookClose, Next
<1>4. CASE Abandon
  BY <1>4 DEF Abandon
<1>5. CASE Interrupt
  BY <1>5, InterruptIsADeath
<1>6. CASE Return
  BY <1>6 DEF Return, Killed, Next
<1>7. CASE Ended \/ Killed
  BY <1>7 DEF Next
<1>8. ASSUME NEW c \in Children, ChildStep(c) \/ Die(c) \/ ReaderStep(c)
      PROVE  Next
  BY <1>8 DEF Next
<1> QED
  BY <1>1, <1>2, <1>3, <1>4, <1>5, <1>6, <1>7, <1>8 DEF HookNext, Watchdog

\* The inductive invariant of a session holds in every state of a hook.
LEMMA HookInductive == HookSpec => []IInv
<1>1. HookInit => IInv
  BY InitIInv, SessionAssumption DEF HookInit
<1>2. IInv /\ [HookNext]_hookVars => IInv'
  BY HookStep, StepIInv, SessionAssumption
<1> QED
  BY <1>1, <1>2, PTL DEF HookSpec

\* A hook, with the deadline that abandons its worker, implements a session
\* (run_hook, _HookRun): what is proved of Spec holds of HookSpec.
THEOREM HookIsASession == HookSpec => Spec
<1>1. HookInit => Init
  BY DEF HookInit
<1>2. IInv /\ [HookNext]_hookVars => [Next]_vars
  BY HookStep, SessionAssumption
<1> QED
  BY <1>1, <1>2, HookInductive, PTL DEF HookSpec, Spec

\* The variables of a hook have their types.
THEOREM HookTypeCorrect == HookSpec => []HookTypeOK
<1> DEFINE Watch == watch \in {"off", "waiting", "abandoned", "joining",
                               "again", "leaving"}
<1>1. HookInit => Watch
  BY DEF HookInit
<1>2. Watch /\ [HookNext]_hookVars => Watch'
  BY DEF HookNext, hookVars, Worker, Watchdog, Abandon, Interrupt, Return
<1>3. HookSpec => []TypeOK
  BY HookIsASession, TypeCorrect, PTL
<1>4. TypeOK /\ Watch => HookTypeOK
  BY DEF HookTypeOK
<1> QED
  BY <1>1, <1>2, <1>3, <1>4, PTL DEF HookSpec

\* A hook that abandons its worker in the midst of an exchange leaves no engine
\* its session has forgotten (interrupt), takes no late answer, runs no write
\* twice, retries on no child that has failed it, and has a timer for an idle
\* one.
THEOREM HookIsSafe ==
    HookSpec => [](NoOrphan /\ AnswersOwnRequest /\ WritesServedOnce
                   /\ RetriesOnFreshChild /\ IdleChildHasTimer)
  BY HookIsASession, NobodyOrphaned, AnswersMatch, WritesOnce, RetriesAreFresh,
     IdleChildrenAreTimed, PTL

\* Nor does a timer that expired before an exchange close what comes after it.
THEOREM HookTimersSpare == HookSpec => StaleTimerSpares
  BY HookIsASession, StaleTimersSpare

=============================================================================
