------------------------- MODULE SessionThreadProofs -------------------------
(***************************************************************************)
(* Theorems about SessionThread, for any objects and searches.  What the   *)
(* api mutex protects is proved for FUSE's single-threaded mode, -s, in    *)
(* which the one FUSE thread has run spfs_init; the types for any number   *)
(* of FUSE threads.                                                        *)
(***************************************************************************)
EXTENDS SessionThread, TLAPS

\* The callback on the session thread only calls wrappers: after a timeout
\* it asks all the same and never leaves by the exit of a list function.
CallbackKind == kind["session"] \in {"none", "wrapper"}

\* The inductive form of TypeOK.
TypeInv == TypeOK /\ CallbackKind

-----------------------------------------------------------------------------
(* Type correctness.                                                       *)

LEMMA TypeInit == Init => TypeInv
BY SessionAssumption
DEF Init, TypeInv, TypeOK, CallbackKind, LoopLabels, CallLabels, Threads

\* The loop of the session thread and the callbacks it runs.
LEMMA TypeSession == TypeInv /\ SessionStep => TypeInv'
<1> SUFFICES ASSUME TypeInv, SessionStep PROVE TypeInv'
  OBVIOUS
<1> USE SessionAssumption
    DEF TypeInv, TypeOK, CallbackKind, LoopLabels, CallLabels, Threads, Goto,
        loopVars, callVars, libVars, endVars
<1>1. CASE loop_exit
  BY <1>1 DEF loop_exit
<1>2. CASE loop_wait
  BY <1>2 DEF loop_wait
<1>3. CASE loop_wake
  BY <1>3 DEF loop_wake
<1>4. CASE lock_events
  BY <1>4 DEF lock_events
<1>5. CASE spotify_metadata_updated
  BY <1>5 DEF spotify_metadata_updated, Broadcast
<1>6. CASE process_return
  BY <1>6 DEF process_return
<1>7. CASE process_again
  BY <1>7 DEF process_again, ProcessAgain
<1>8. ASSUME NEW o \in Objects, process_load(o) PROVE TypeInv'
  BY <1>8 DEF process_load
<1>9. ASSUME NEW o \in Objects, NEW s \in Searches, search_complete(s, o)
      PROVE  TypeInv'
  BY <1>9 DEF search_complete, Kinds
<1> QED BY <1>1, <1>2, <1>3, <1>4, <1>5, <1>6, <1>7, <1>8, <1>9 DEF SessionStep

\* The steps that any thread takes in a call.
LEMMA TypeCall ==
    ASSUME TypeInv, NEW t \in Threads, CallStep(t) PROVE TypeInv'
<1> USE SessionAssumption
    DEF TypeInv, TypeOK, CallbackKind, LoopLabels, CallLabels, Threads, Goto,
        loopVars, callVars, libVars, endVars
<1>1. CASE wait_on_loaded(t)
  BY <1>1 DEF wait_on_loaded
<1>2. CASE wait_on_test(t) \/ wait_on_sleep(t)
  BY <1>2 DEF wait_on_test, wait_on_sleep
<1>3. CASE wait_on_expire(t)
  BY <1>3 DEF wait_on_expire
<1>4. CASE spurious_wakeup(t)
  BY <1>4 DEF spurious_wakeup
<1>5. CASE wait_on_wake(t)
  BY <1>5 DEF wait_on_wake
<1>6. CASE call_return(t)
  BY <1>6 DEF call_return, Resumed
<1> QED BY <1>1, <1>2, <1>3, <1>4, <1>5, <1>6 DEF CallStep

\* The steps of FUSE threads outside of waits.
LEMMA TypeWorker ==
    ASSUME TypeInv, NEW w \in Workers,
           \/ \E o \in Objects, k \in Kinds : call_start(w, o, k)
           \/ \E s \in Searches : search_create(w, s)
           \/ call_lock(w)
    PROVE  TypeInv'
<1> USE SessionAssumption
    DEF TypeInv, TypeOK, CallbackKind, LoopLabels, CallLabels, Threads, Goto,
        loopVars, callVars, libVars, endVars
<1>1. ASSUME NEW o \in Objects, NEW k \in Kinds, call_start(w, o, k)
      PROVE  TypeInv'
  BY <1>1 DEF call_start
<1>2. ASSUME NEW s \in Searches, search_create(w, s) PROVE TypeInv'
  BY <1>2 DEF search_create
<1>3. CASE call_lock(w)
  BY <1>3 DEF call_lock
<1> QED BY <1>1, <1>2, <1>3

LEMMA TypeNext == TypeInv /\ [Next]_vars => TypeInv'
<1> SUFFICES ASSUME TypeInv, [Next]_vars PROVE TypeInv'
  OBVIOUS
<1> USE DEF TypeInv, TypeOK, CallbackKind, loopVars, callVars, libVars, endVars
<1>1. CASE event_arrives
  BY <1>1 DEF event_arrives
<1>2. CASE spotify_notify_main_thread
  BY <1>2 DEF spotify_notify_main_thread
<1>3. CASE unmount \/ threads_destroy
  BY <1>3 DEF unmount, threads_destroy
<1>4. CASE session_destroy
  BY <1>4 DEF session_destroy
<1>5. CASE unmounted \/ UNCHANGED vars
  BY <1>5 DEF unmounted, vars
<1> QED BY <1>1, <1>2, <1>3, <1>4, <1>5, TypeSession, TypeCall, TypeWorker
        DEF Next

LEMMA TypeInvariant == Spec => []TypeInv
BY TypeInit, TypeNext, PTL DEF Spec

\* Every state of every instance has the right types; in particular, the
\* session thread is never at a label of a list function or of an idle thread.
THEOREM TypeCorrect == Spec => []TypeOK
BY TypeInvariant, PTL DEF TypeInv

-----------------------------------------------------------------------------
(* The api mutex.                                                          *)

\* FUSE runs with -s.
SingleThreaded == Workers = {FuseThread}

\* The FUSE thread is in a call exactly if it is in a function of some kind.
InCall == pc[FuseThread] # "idle" <=> kind[FuseThread] \in Kinds

\* Between the lock and the return the FUSE thread owns the mutex, except
\* while it waits and in the function that does not take it.
CallerOwns ==
    /\ pc[FuseThread] \in {"check", "sleep", "call", "leave"}
    /\ kind[FuseThread] # "unlocked"
    => api_mutex = FuseThread

\* So does the session thread within process_events, although the wrappers
\* of its callbacks do not lock: only their waits give the mutex up.
ProcessingOwns ==
    pc["session"] \in {"process", "check", "sleep", "call"} => api_mutex = "session"

\* The function without the mutex asks about a loaded object and so never
\* waits, which would give back the mutex of somebody else.
UnlockedNeverWaits ==
    kind[FuseThread] = "unlocked" =>
        wanted[FuseThread] \in loaded /\ pc[FuseThread] \notin {"sleep", "wait", "leave"}

MutexInv == InCall /\ CallerOwns /\ ProcessingOwns /\ UnlockedNeverWaits

LEMMA MutexInit == Init => MutexInv
BY SessionAssumption
DEF Init, MutexInv, InCall, CallerOwns, ProcessingOwns, UnlockedNeverWaits,
    Threads, Kinds

\* A step that leaves the FUSE thread and the mutex alone, and the session
\* thread out of libspotify unless it was in it.
LEMMA MutexKept ==
    ASSUME MutexInv, UNCHANGED <<wanted[FuseThread], kind[FuseThread],
                                 pc[FuseThread], api_mutex>>,
           loaded \subseteq loaded',
           pc'["session"] \in {"process", "check", "sleep", "call"} =>
               pc["session"] \in {"process", "check", "sleep", "call"}
    PROVE  MutexInv'
BY DEF MutexInv, InCall, CallerOwns, ProcessingOwns, UnlockedNeverWaits

LEMMA MutexSession ==
    TypeInv /\ SingleThreaded /\ MutexInv /\ SessionStep => MutexInv'
<1> SUFFICES ASSUME TypeInv, SingleThreaded, MutexInv, SessionStep
             PROVE  MutexInv'
  OBVIOUS
<1> USE SessionAssumption
    DEF SingleThreaded, Threads, Goto, loopVars, callVars, libVars, endVars
<1>1. /\ pc \in [Threads -> LoopLabels \cup CallLabels \cup {"idle"}]
      /\ wanted \in [Threads -> Objects \cup {NoObject}]
      /\ kind \in [Threads -> Kinds \cup {"none"}]
      /\ FuseThread # "session" /\ FuseThread # "free"
  BY DEF TypeInv, TypeOK
<1>2. CASE loop_exit \/ loop_wait \/ loop_wake
  BY <1>1, <1>2, MutexKept DEF loop_exit, loop_wait, loop_wake
<1>3. CASE lock_events
  BY <1>1, <1>3
  DEF lock_events, MutexInv, InCall, CallerOwns, ProcessingOwns,
      UnlockedNeverWaits
<1>4. CASE spotify_metadata_updated
  BY <1>1, <1>4, MutexKept DEF spotify_metadata_updated
<1>5. CASE process_return \/ process_again
  <2>1. api_mutex = "session"
    BY <1>5 DEF process_return, process_again, MutexInv, ProcessingOwns
  <2> QED BY <1>1, <1>5, <2>1
          DEF process_return, process_again, ProcessAgain, MutexInv, InCall,
              CallerOwns, ProcessingOwns, UnlockedNeverWaits
<1>6. ASSUME NEW o \in Objects, process_load(o) PROVE MutexInv'
  BY <1>1, <1>6, MutexKept DEF process_load
<1>7. ASSUME NEW o \in Objects, NEW s \in Searches, search_complete(s, o)
      PROVE  MutexInv'
  BY <1>1, <1>7, MutexKept DEF search_complete
<1> QED BY <1>2, <1>3, <1>4, <1>5, <1>6, <1>7 DEF SessionStep

LEMMA MutexCall ==
    ASSUME TypeInv, SingleThreaded, MutexInv, NEW t \in Threads, CallStep(t)
    PROVE  MutexInv'
<1> USE SessionAssumption
    DEF SingleThreaded, Threads, Goto, loopVars, callVars, libVars, endVars, MutexInv,
        InCall, CallerOwns, ProcessingOwns, UnlockedNeverWaits
<1>1. /\ pc \in [Threads -> LoopLabels \cup CallLabels \cup {"idle"}]
      /\ wanted \in [Threads -> Objects \cup {NoObject}]
      /\ kind \in [Threads -> Kinds \cup {"none"}]
      /\ FuseThread # "session" /\ FuseThread # "free"
  BY DEF TypeInv, TypeOK
<1>2. kind["session"] \in {"none", "wrapper"} /\ pc["session"] # "leave"
  BY DEF TypeInv, TypeOK, CallbackKind, LoopLabels
<1>3. t = FuseThread \/ t = "session"
  OBVIOUS
<1>4. CASE wait_on_loaded(t) \/ wait_on_test(t)
  BY <1>1, <1>3, <1>4 DEF wait_on_loaded, wait_on_test
<1>5. CASE wait_on_sleep(t)
  BY <1>1, <1>3, <1>5 DEF wait_on_sleep
<1>6. CASE wait_on_expire(t) \/ spurious_wakeup(t)
  BY <1>6 DEF wait_on_expire, spurious_wakeup
<1>7. CASE wait_on_wake(t)
  BY <1>1, <1>2, <1>3, <1>7 DEF wait_on_wake
<1>8. CASE call_return(t)
  <2>1. CASE t = FuseThread
    BY <1>1, <1>8, <2>1 DEF call_return, Resumed, Locking, Kinds
  <2>2. CASE t = "session"
    BY <1>1, <1>2, <1>8, <2>2 DEF call_return, Resumed, Locking
  <2> QED BY <1>3, <2>1, <2>2
<1> QED BY <1>4, <1>5, <1>6, <1>7, <1>8 DEF CallStep

LEMMA MutexNext ==
    TypeInv /\ SingleThreaded /\ MutexInv /\ [Next]_vars => MutexInv'
<1> SUFFICES ASSUME TypeInv, SingleThreaded, MutexInv, [Next]_vars
             PROVE  MutexInv'
  OBVIOUS
<1> USE SessionAssumption
    DEF SingleThreaded, Threads, Goto, loopVars, callVars, libVars, endVars
<1>1. /\ pc \in [Threads -> LoopLabels \cup CallLabels \cup {"idle"}]
      /\ wanted \in [Threads -> Objects \cup {NoObject}]
      /\ kind \in [Threads -> Kinds \cup {"none"}]
      /\ FuseThread # "session" /\ FuseThread # "free"
  BY DEF TypeInv, TypeOK
<1>2. ASSUME NEW o \in Objects, NEW k \in Kinds, call_start(FuseThread, o, k)
      PROVE  MutexInv'
  BY <1>1, <1>2
  DEF call_start, MutexInv, InCall, CallerOwns, ProcessingOwns,
      UnlockedNeverWaits
<1>3. ASSUME NEW s \in Searches, search_create(FuseThread, s)
      PROVE  MutexInv'
  BY <1>1, <1>3, MutexKept DEF search_create
<1>4. CASE call_lock(FuseThread)
  BY <1>1, <1>4
  DEF call_lock, Locking, Kinds, MutexInv, InCall, CallerOwns,
      ProcessingOwns, UnlockedNeverWaits
<1>5. CASE \/ event_arrives \/ spotify_notify_main_thread
           \/ unmount \/ threads_destroy \/ session_destroy
           \/ unmounted \/ UNCHANGED vars
  BY <1>1, <1>5, MutexKept
  DEF event_arrives, spotify_notify_main_thread, unmount,
      threads_destroy, session_destroy, unmounted, vars
<1> QED BY <1>2, <1>3, <1>4, <1>5, MutexSession, MutexCall DEF Next

\* In single-threaded mode libspotify is never entered by two threads, for
\* any objects and searches, but for the function that takes no mutex.
THEOREM ApiIsExclusive ==
    ASSUME SingleThreaded PROVE Spec => []ApiExclusive
<1>1. TypeInv /\ MutexInv => ApiExclusive
  <2> SUFFICES ASSUME TypeInv, MutexInv,
                      NEW t \in Threads, NEW u \in Threads,
                      InLibspotify(t), InLibspotify(u)
               PROVE  t = u
    BY DEF ApiExclusive
  <2>1. ASSUME NEW v \in Threads, InLibspotify(v) PROVE api_mutex = v
    BY <2>1, SessionAssumption
    DEF SingleThreaded, Threads, InLibspotify, TypeInv, TypeOK, CallLabels,
        MutexInv, CallerOwns, ProcessingOwns
  <2> QED BY <2>1
<1>2. TypeInv /\ MutexInv /\ [Next]_vars => MutexInv'
  BY MutexNext
<1> QED BY <1>1, <1>2, TypeInvariant, MutexInit, PTL DEF Spec

-----------------------------------------------------------------------------
(* Waiting.                                                                *)

\* Only a thread in wait_on_X sleeps.
AsleepWaits == \A t \in asleep : pc[t] = "wait"

\* What a thread has found not loaded is not loaded when it goes to sleep.
StillMissing == \A t \in Threads : pc[t] = "sleep" => wanted[t] \notin loaded

WaitInv == AsleepWaits /\ StillMissing /\ NoMissedLoad

\* The one FUSE thread holds the mutex that process_events needs, and the
\* session thread is not in process_events while it waits itself.
LEMMA MissingKept ==
    ASSUME TypeInv, SingleThreaded, MutexInv, WaitInv,
           NEW o \in Objects, process_load(o)
    PROVE  WaitInv'
<1>1. ASSUME NEW t \in Threads PROVE pc[t] # "sleep"
  <2>1. pc["session"] = "process" /\ api_mutex = "session"
    BY DEF process_load, MutexInv, ProcessingOwns
  <2>2. CASE t = "session"
    BY <2>1, <2>2
  <2>3. CASE t = FuseThread
    BY <2>1, <2>3, SessionAssumption
    DEF MutexInv, CallerOwns, UnlockedNeverWaits
  <2> QED BY <2>2, <2>3 DEF SingleThreaded, Threads
<1> QED BY <1>1
    DEF process_load, callVars, WaitInv, AsleepWaits, StillMissing, NoMissedLoad

LEMMA WaitNext ==
    TypeInv /\ SingleThreaded /\ MutexInv /\ WaitInv /\ [Next]_vars => WaitInv'
<1> SUFFICES ASSUME TypeInv, SingleThreaded, MutexInv, WaitInv, [Next]_vars
             PROVE  WaitInv'
  OBVIOUS
<1> USE SessionAssumption
    DEF WaitInv, AsleepWaits, StillMissing, NoMissedLoad, Goto, loopVars,
        callVars, libVars, endVars
<1>1. /\ pc \in [Threads -> LoopLabels \cup CallLabels \cup {"idle"}]
      /\ wanted \in [Threads -> Objects \cup {NoObject}]
      /\ asleep \subseteq Threads
      /\ "session" \in Threads /\ Workers \subseteq Threads
  BY DEF TypeInv, TypeOK, Threads
<1>2. CASE \/ loop_exit \/ loop_wait \/ loop_wake \/ lock_events
           \/ process_return \/ process_again
  BY <1>1, <1>2
  DEF loop_exit, loop_wait, loop_wake, lock_events, process_return,
      process_again, ProcessAgain
<1>3. CASE spotify_metadata_updated
  BY <1>3 DEF spotify_metadata_updated, Broadcast
<1>4. ASSUME NEW o \in Objects, process_load(o) PROVE WaitInv'
  BY <1>4, MissingKept
<1>5. ASSUME NEW o \in Objects, NEW s \in Searches, search_complete(s, o)
      PROVE  WaitInv'
  BY <1>1, <1>5 DEF search_complete
<1>6. ASSUME NEW w \in Workers, NEW o \in Objects, NEW k \in Kinds,
             call_start(w, o, k)
      PROVE  WaitInv'
  BY <1>1, <1>6 DEF call_start
<1>7. ASSUME NEW w \in Workers, NEW s \in Searches, search_create(w, s)
      PROVE  WaitInv'
  BY <1>7 DEF search_create
<1>8. ASSUME NEW w \in Workers, call_lock(w) PROVE WaitInv'
  BY <1>1, <1>8 DEF call_lock
<1>9. ASSUME NEW t \in Threads, CallStep(t) PROVE WaitInv'
  <2>1. CASE wait_on_loaded(t) \/ wait_on_test(t) \/ wait_on_wake(t)
    BY <1>1, <2>1 DEF wait_on_loaded, wait_on_test, wait_on_wake
  <2>2. CASE wait_on_sleep(t)
    BY <1>1, <2>2 DEF wait_on_sleep
  <2>3. CASE wait_on_expire(t) \/ spurious_wakeup(t)
    BY <2>3 DEF wait_on_expire, spurious_wakeup
  <2>4. CASE call_return(t)
    BY <1>1, <2>4 DEF call_return, Resumed
  <2> QED BY <1>9, <2>1, <2>2, <2>3, <2>4 DEF CallStep
<1>10. CASE \/ event_arrives \/ spotify_notify_main_thread
            \/ unmount \/ threads_destroy \/ session_destroy
            \/ unmounted \/ UNCHANGED vars
  BY <1>10
  DEF event_arrives, spotify_notify_main_thread, unmount, threads_destroy,
      session_destroy, unmounted, vars
<1> QED BY <1>2, <1>3, <1>4, <1>5, <1>6, <1>7, <1>8, <1>9, <1>10
        DEF Next, SessionStep

\* In single-threaded mode nobody sleeps through the loading of its object:
\* a thread that sleeps on a loaded object is still owed the broadcast of
\* metadata_updated, because the mutex or its being the session thread keeps
\* the load from coming between its test and its wait.
THEOREM NoLoadIsMissed ==
    ASSUME SingleThreaded PROVE Spec => []NoMissedLoad
<1>1. Init => WaitInv
  BY SessionAssumption
  DEF Init, WaitInv, AsleepWaits, StillMissing, NoMissedLoad, Threads
<1>2. WaitInv => NoMissedLoad
  BY DEF WaitInv
<1>3. TypeInv /\ MutexInv /\ [Next]_vars => MutexInv'
  BY MutexNext
<1>4. TypeInv /\ MutexInv /\ WaitInv /\ [Next]_vars => WaitInv'
  BY WaitNext
<1> QED BY <1>1, <1>2, <1>3, <1>4, TypeInvariant, MutexInit, PTL DEF Spec
=============================================================================
