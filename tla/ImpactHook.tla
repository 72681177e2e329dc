------------------------------ MODULE ImpactHook ------------------------------
(***************************************************************************)
(* The commit hook (impact_hook.py: run_hook, _HookRun): a worker thread   *)
(* asks its questions through one session of its own, and the main thread  *)
(* waits for it with a deadline, abandons it when that has passed, and     *)
(* returns, which ends the process. The session is that of EngineSession;  *)
(* a behaviour is either that of the broker, or that of a hook. A hook is  *)
(* over long before its session is idle for long enough to be closed.      *)
(***************************************************************************)
EXTENDS EngineSession

VARIABLE watch  \* the main thread of the hook, "off" in the broker

hookVars == <<vars, watch>>

\* The hook is not waiting for its worker any more.
Abandoned == watch \in {"abandoned", "joining", "again", "leaving"}

HookTypeOK ==
    TypeOK /\ watch \in {"off", "waiting", "abandoned", "joining", "again", "leaving"}

HookInit == Init /\ watch \in {"off", "waiting"}

-----------------------------------------------------------------------------
(* The worker: _HookRun.collect *)

\* An engine call, unless the run is abandoned; it is never sent again.
HookExchange == ~Abandoned /\ Exchange /\ idempotent' = FALSE

\* The end of collect: an answer that was final, a failure or a refusal.
HookClose == pc = "idle" /\ Shutdown

Worker ==
    /\ watch # "off"
    /\ HookExchange \/ HookClose \/ CallerStep
    /\ UNCHANGED watch

-----------------------------------------------------------------------------
(* The main thread: run_hook *)

\* abandon, under the run's own lock: no exchange begins from here on. A worker
\* that is closing has let go of its session, and there is nothing to kill.
Abandon ==
    /\ pc # "gone" /\ watch \in {"waiting", "joining"}
    /\ watch' = CASE watch = "waiting" /\ pc # "closing" -> "abandoned"
                  [] watch = "waiting" /\ pc = "closing" -> "joining"
                  [] watch = "joining" /\ pc # "closing" -> "again"
                  [] OTHER                               -> "leaving"
    /\ UNCHANGED vars

\* Mutant of Interrupt: the session is closed, under the lock of the session.
InterruptByClosing ==
    /\ pc # "gone" /\ watch \in {"abandoned", "again"} /\ lock = "free"
    /\ engine' = IF process = NoChild THEN engine
                 ELSE [engine EXCEPT ![process] = "exited"]
    /\ watch' = IF watch = "abandoned" THEN "joining" ELSE "leaving"
    /\ UNCHANGED <<sessionVars, stdin, inbox, pipe, readerVars, served>>

\* interrupt: the child is killed, if the session has one yet. No lock is taken.
Interrupt ==
    /\ pc # "gone" /\ watch \in {"abandoned", "again"}
    /\ engine' = IF process = NoChild THEN engine
                 ELSE [engine EXCEPT ![process] = "exited"]
    /\ watch' = IF watch = "abandoned" THEN "joining" ELSE "leaving"
    /\ UNCHANGED <<sessionVars, stdin, inbox, pipe, readerVars, served>>

\* The process ends, and the worker in the midst of what it was doing.
Return ==
    /\ pc # "gone" /\ watch = "leaving"
    /\ Vanish
    /\ UNCHANGED <<engine, watch>>

Watchdog == Abandon \/ Interrupt \/ Return

-----------------------------------------------------------------------------

HookNext ==
    \/ watch = "off" /\ Next /\ UNCHANGED watch
    \/ Worker \/ Watchdog
    \/ /\ watch # "off" /\ UNCHANGED watch
       /\ \/ Ended \/ Killed
          \/ \E c \in Children : ChildStep(c) \/ Die(c) \/ ReaderStep(c)

\* The broker's threads run and a timer expires. An engine need not do anything:
\* where a property needs it to, it says so. Of a hook only the main thread is
\* known to run: its worker may be held up in a file system, or in a write.
HookFairness ==
    /\ WF_vars(watch = "off" /\ CallerStep)
    /\ WF_vars(watch = "off" /\ Fire)
    /\ WF_vars(watch = "off" /\ TimerStep)
    /\ \A c \in Children : WF_vars(watch = "off" /\ ReaderStep(c))
    /\ WF_hookVars(Watchdog)

HookSpec == HookInit /\ [][HookNext]_hookVars /\ HookFairness

(* Properties *)

\* An exchange of the broker returns whatever the engine does, if only it reads
\* its requests (engine_session.py); a hook returns even if it does not, whatever
\* its worker waits for: "it cannot be made to wait by the request it is
\* cancelling" (impact_hook.py, _HookRun).
CallsEnd ==
    ExchangeReturns /\ (watch = "waiting" ~> pc = "gone")

=============================================================================
