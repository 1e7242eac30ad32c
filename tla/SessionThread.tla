---------------------------- MODULE SessionThread ----------------------------
(***************************************************************************)
(* The session thread of spotifile and the discipline of                   *)
(* g_spotify_api_mutex, which serialises the calls into libspotify.        *)
(*                                                                         *)
(* spotify_thread_start waits for libspotify to ask for processing and     *)
(* then calls sp_session_process_events with the api mutex held.  FUSE     *)
(* threads call libspotify through three kinds of functions:               *)
(*   - "list" functions (spotify_get_playlists and the like, artist        *)
(*     browsing, searches) always take the api mutex;                      *)
(*   - "wrapper" functions (the SPFS_SPOTIFY_API_* macros) take it only on *)
(*     g_fuse_thread, since they are also called on the session thread     *)
(*     itself, by search callbacks that run inside process_events;         *)
(*   - spotify_get_track_info asks the playing track, which is loaded, for *)
(*     its duration without the mutex ("unlocked").                        *)
(* All wait for the object they ask about (wait_on_X) on                  *)
(* g_spotify_data_available, for at most SPFS_CB_TIMEOUT_S seconds.        *)
(*                                                                         *)
(* The test of wait_on_X and its wait are two steps: only the api mutex,   *)
(* which not all that wait hold, keeps metadata_updated from between them. *)
(*                                                                         *)
(* A section of the notify mutex is one action: nothing else than the      *)
(* notify flag is read or written in it, except g_running, which the code  *)
(* sets without any mutex.                                                 *)
(***************************************************************************)
EXTENDS Naturals, FiniteSets

CONSTANTS
    Workers,      \* FUSE threads
    FuseThread,   \* g_fuse_thread: the one that ran spfs_init
    Objects,      \* libspotify objects whose data may still be loading
    NoObject,
    Searches      \* bounds the searches of a behaviour: one callback each

ASSUME SessionAssumption ==
    /\ FuseThread \in Workers
    /\ NoObject \notin Objects
    /\ "session" \notin Workers /\ "free" \notin Workers

Threads == Workers \cup {"session"}

Kinds == {"list", "wrapper", "unlocked"}

VARIABLES
    notify,         \* g_main_thread_do_notify
    running,        \* g_running
    event_timeout,  \* of spotify_thread_start: zero or not
    pc,             \* where each thread is
    wanted,         \* the object each thread asks about
    kind,           \* of the function each thread is in
    api_mutex,      \* owner of g_spotify_api_mutex
    asleep,         \* threads in g_cond_wait_until on data_available
    expired,        \* of those woken, the ones whose end_time has passed
    loaded,         \* objects libspotify has loaded (external)
    news,           \* libspotify owes a metadata_updated call (external)
    pending,        \* libspotify has events to process (external)
    owed,           \* ... and has not told so yet (external)
    search,         \* state of each search (external)
    serving,        \* FUSE serves requests (external)
    destroyed       \* spotify_session_destroy has run

loopVars == <<notify, running, event_timeout>>
callVars == <<wanted, kind>>
libVars  == <<loaded, news, pending, owed, search>>
endVars  == <<serving, destroyed>>
vars == <<loopVars, pc, callVars, api_mutex, asleep, expired, libVars,
          endVars>>

-----------------------------------------------------------------------------
(* Types and initial state: spotify_threads_init has just run.             *)

\* A FUSE thread in a call.
CallLabels == {"lock", "check", "sleep", "wait", "call", "leave"}

\* The session thread in its loop, or in a callback that calls wrappers.  It
\* never locks for such a call: it holds the mutex, which is not recursive.
LoopLabels == {"test", "wait_notify", "lock_events", "process", "ended",
               "check", "sleep", "wait", "call"}

TypeOK ==
    /\ notify \in BOOLEAN /\ running \in BOOLEAN
    /\ event_timeout \in {"zero", "positive"}
    /\ pc \in [Threads -> LoopLabels \cup CallLabels \cup {"idle"}]
    /\ pc["session"] \in LoopLabels
    /\ \A w \in Workers : pc[w] \in CallLabels \cup {"idle"}
    /\ wanted \in [Threads -> Objects \cup {NoObject}]
    /\ kind \in [Threads -> Kinds \cup {"none"}]
    /\ api_mutex \in Threads \cup {"free"}
    /\ asleep \subseteq Threads /\ expired \subseteq Threads
    /\ loaded \subseteq Objects
    /\ news \in BOOLEAN /\ pending \in BOOLEAN /\ owed \in BOOLEAN
    /\ search \in [Searches -> {"none", "issued", "done"}]
    /\ serving \in BOOLEAN /\ destroyed \in BOOLEAN

\* The login of spotify_session_init leaves events to process; libspotify
\* may have told so before the session thread starts.
Init ==
    /\ notify \in BOOLEAN
    /\ running = TRUE
    /\ event_timeout = "zero"
    /\ pc = [t \in Threads |-> IF t = "session" THEN "test" ELSE "idle"]
    /\ wanted = [t \in Threads |-> NoObject]
    /\ kind = [t \in Threads |-> "none"]
    /\ api_mutex = "free"
    /\ asleep = {}
    /\ expired = {}
    /\ loaded = {}
    /\ news = FALSE
    /\ pending = TRUE
    /\ owed = ~ notify
    /\ search = [s \in Searches |-> "none"]
    /\ serving = TRUE
    /\ destroyed = FALSE

Goto(t, l) == pc' = [pc EXCEPT ![t] = l]

-----------------------------------------------------------------------------
(* spotify_thread_start and the callbacks it runs.                         *)

\* g_running is tested at the head of the loop only.
loop_exit ==
    /\ pc["session"] = "test" /\ ~ running
    /\ Goto("session", "ended")
    /\ UNCHANGED <<loopVars, callVars, api_mutex, asleep, expired, libVars,
                   endVars>>

loop_wait ==
    /\ pc["session"] = "test" /\ running
    /\ Goto("session", "wait_notify")
    /\ UNCHANGED <<loopVars, callVars, api_mutex, asleep, expired, libVars,
                   endVars>>

\* The wait ends at a notification or, unless event_timeout is zero, at the
\* timeout; the flag is cleared before the mutex is given back.
loop_wake ==
    /\ pc["session"] = "wait_notify"
    /\ notify \/ event_timeout = "positive"
    /\ notify' = FALSE
    /\ Goto("session", "lock_events")
    /\ UNCHANGED <<running, event_timeout, callVars, api_mutex, asleep,
                   expired, libVars, endVars>>

lock_events ==
    /\ pc["session"] = "lock_events"
    /\ api_mutex = "free"
    /\ api_mutex' = "session"
    /\ Goto("session", "process")
    /\ UNCHANGED <<loopVars, callVars, asleep, expired, libVars, endVars>>

\* process_events has data for an object; metadata_updated will say so.
process_load(o) ==
    /\ pc["session"] = "process" /\ pending
    /\ o \notin loaded
    /\ loaded' = loaded \cup {o}
    /\ news' = TRUE
    /\ UNCHANGED <<loopVars, pc, callVars, api_mutex, asleep, expired,
                   pending, owed, search, endVars>>

\* g_cond_broadcast on g_spotify_data_available.
Broadcast == asleep' = {}

spotify_metadata_updated ==
    /\ pc["session"] = "process" /\ news
    /\ news' = FALSE
    /\ Broadcast
    /\ UNCHANGED <<loopVars, pc, callVars, api_mutex, expired, loaded,
                   pending, owed, search, endVars>>

\* track_search_complete_cb asks about some object through a wrapper.  Its
\* calls are alike: one of them stands for all.
search_complete(s, o) ==
    /\ pc["session"] = "process"
    /\ search[s] = "issued"
    /\ search' = [search EXCEPT ![s] = "done"]
    /\ Goto("session", "check")
    /\ wanted' = [wanted EXCEPT !["session"] = o]
    /\ kind' = [kind EXCEPT !["session"] = "wrapper"]
    /\ UNCHANGED <<loopVars, api_mutex, asleep, expired, loaded, news,
                   pending, owed, endVars>>

\* process_events returns with nothing left to do for a while.
process_return ==
    /\ pc["session"] = "process" /\ ~ news
    /\ pending' = FALSE
    /\ event_timeout' = "positive"
    /\ api_mutex' = "free"
    /\ Goto("session", "test")
    /\ UNCHANGED <<notify, running, callVars, asleep, expired, loaded, news,
                   owed, search, endVars>>

\* Mutant: the loop around process_events is left in any case.
LeaveAtOnce == "test"

\* Where the inner loop goes on when event_timeout is zero.
ProcessAgain == "lock_events"

\* process_events returns and wants to be called again at once.
process_again ==
    /\ pc["session"] = "process" /\ ~ news /\ pending
    /\ event_timeout' = "zero"
    /\ api_mutex' = "free"
    /\ Goto("session", ProcessAgain)
    /\ UNCHANGED <<notify, running, callVars, asleep, expired, libVars,
                   endVars>>

-----------------------------------------------------------------------------
(* libspotify's internal threads.                                          *)

event_arrives ==
    /\ ~ pending /\ ~ destroyed
    /\ pending' = TRUE /\ owed' = TRUE
    /\ UNCHANGED <<loopVars, pc, callVars, api_mutex, asleep, expired, loaded,
                   news, search, endVars>>

spotify_notify_main_thread ==
    /\ owed /\ ~ destroyed
    /\ owed' = FALSE
    /\ notify' = TRUE
    /\ UNCHANGED <<running, event_timeout, pc, callVars, api_mutex, asleep,
                   expired, loaded, news, pending, search, endVars>>

-----------------------------------------------------------------------------
(* Calls into libspotify.                                                  *)

\* A FUSE request needs to know something about object o.
call_start(w, o, k) ==
    /\ pc[w] = "idle" /\ serving
    /\ k = "unlocked" => o \in loaded
    /\ Goto(w, "lock")
    /\ wanted' = [wanted EXCEPT ![w] = o]
    /\ kind' = [kind EXCEPT ![w] = k]
    /\ UNCHANGED <<loopVars, api_mutex, asleep, expired, libVars, endVars>>

\* Mutant: wrappers never lock.
ListsOnly(t) == kind[t] = "list"

\* Whether the function thread t is in takes and gives back the api mutex.
Locking(t) == kind[t] = "list" \/ (kind[t] = "wrapper" /\ t = FuseThread)

call_lock(w) ==
    /\ pc[w] = "lock"
    /\ Goto(w, "check")
    /\ IF Locking(w)
       THEN api_mutex = "free" /\ api_mutex' = w
       ELSE UNCHANGED api_mutex
    /\ UNCHANGED <<loopVars, callVars, asleep, expired, libVars, endVars>>

\* wait_on_X: is the object loaded?
wait_on_loaded(t) ==
    /\ pc[t] = "check"
    /\ wanted[t] \in loaded
    /\ Goto(t, "call")
    /\ UNCHANGED <<loopVars, callVars, api_mutex, asleep, expired, libVars,
                   endVars>>

\* ... it is not
wait_on_test(t) ==
    /\ pc[t] = "check"
    /\ wanted[t] \notin loaded
    /\ Goto(t, "sleep")
    /\ UNCHANGED <<loopVars, callVars, api_mutex, asleep, expired, libVars,
                   endVars>>

\* ... and it may be by now, unless the thread holds the api mutex.
\* g_cond_wait_until unlocks that, whoever holds it.
wait_on_sleep(t) ==
    /\ pc[t] = "sleep"
    /\ Goto(t, "wait")
    /\ api_mutex' = "free"
    /\ asleep' = asleep \cup {t}
    /\ UNCHANGED <<loopVars, callVars, expired, libVars, endVars>>

\* The end_time of the wait passes.
wait_on_expire(t) ==
    /\ t \in asleep
    /\ asleep' = asleep \ {t}
    /\ expired' = expired \cup {t}
    /\ UNCHANGED <<loopVars, pc, callVars, api_mutex, libVars, endVars>>

spurious_wakeup(t) ==
    /\ t \in asleep
    /\ asleep' = asleep \ {t}
    /\ UNCHANGED <<loopVars, pc, callVars, api_mutex, expired, libVars,
                   endVars>>

\* Awake again, with the api mutex: look again or, after the timeout, give
\* up.  A list function then returns NULL, a wrapper asks all the same.
wait_on_wake(t) ==
    /\ pc[t] = "wait" /\ t \notin asleep
    /\ api_mutex = "free" /\ api_mutex' = t
    /\ Goto(t, IF t \notin expired THEN "check"
               ELSE IF kind[t] = "list" THEN "leave" ELSE "call")
    /\ expired' = expired \ {t}
    /\ UNCHANGED <<loopVars, callVars, asleep, libVars, endVars>>

\* Mutant: a callback does not return to its caller.
Dropped(t) == "idle"

\* A request is answered; a callback returns into process_events.
Resumed(t) == IF t = "session" THEN "process" ELSE "idle"

\* The answer is copied and the mutex given back by those that took it.
call_return(t) ==
    /\ pc[t] \in {"call", "leave"}
    /\ Goto(t, Resumed(t))
    /\ api_mutex' = IF Locking(t) THEN "free" ELSE api_mutex
    /\ wanted' = [wanted EXCEPT ![t] = NoObject]
    /\ kind' = [kind EXCEPT ![t] = "none"]
    /\ UNCHANGED <<loopVars, asleep, expired, libVars, endVars>>

\* sp_search_create, and any call that needs no loaded object: one section
\* of the api mutex.
search_create(w, s) ==
    /\ pc[w] = "idle" /\ serving
    /\ api_mutex = "free"
    /\ search[s] = "none"
    /\ search' = [search EXCEPT ![s] = "issued"]
    /\ UNCHANGED <<loopVars, pc, callVars, api_mutex, asleep, expired, loaded,
                   news, pending, owed, endVars>>

-----------------------------------------------------------------------------
(* The end.                                                                *)

\* FUSE waits for its threads, serves no request from then on and calls
\* spfs_destroy.
unmount ==
    /\ serving
    /\ \A w \in Workers : pc[w] = "idle"
    /\ serving' = FALSE
    /\ UNCHANGED <<loopVars, pc, callVars, api_mutex, asleep, expired,
                   libVars, destroyed>>

\* g_running is cleared; nobody is signalled.
threads_destroy ==
    /\ ~ serving /\ running
    /\ running' = FALSE
    /\ UNCHANGED <<notify, event_timeout, pc, callVars, api_mutex, asleep,
                   expired, libVars, endVars>>

\* g_thread_join has returned.
Joined == pc["session"] = "ended"

session_destroy ==
    /\ ~ running /\ Joined /\ ~ destroyed
    /\ destroyed' = TRUE
    /\ UNCHANGED <<loopVars, pc, callVars, api_mutex, asleep, expired,
                   libVars, serving>>

\* The process ends.
unmounted == destroyed /\ UNCHANGED vars

-----------------------------------------------------------------------------
(* The specification.                                                      *)

SessionStep ==
    \/ loop_exit \/ loop_wait \/ loop_wake \/ lock_events
    \/ spotify_metadata_updated \/ process_return \/ process_again
    \/ \E o \in Objects : process_load(o) \/ \E s \in Searches : search_complete(s, o)

CallStep(t) ==
    \/ wait_on_loaded(t) \/ wait_on_test(t) \/ wait_on_sleep(t)
    \/ wait_on_expire(t) \/ spurious_wakeup(t) \/ wait_on_wake(t)
    \/ call_return(t)

Next ==
    \/ SessionStep
    \/ event_arrives \/ spotify_notify_main_thread
    \/ \E w \in Workers :
          \/ \E o \in Objects, k \in Kinds : call_start(w, o, k)
          \/ \E s \in Searches : search_create(w, s)
          \/ call_lock(w)
    \/ \E t \in Threads : CallStep(t)
    \/ unmount \/ threads_destroy \/ session_destroy
    \/ unmounted

Spec == Init /\ [][Next]_vars

\* Threads that can run do run, a mutex that is free again and again is got,
\* the end_time of a wait, fixed when it begins, passes however often the
\* wait is interrupted, and libspotify announces its events and does not ask
\* for immediate processing for ever.
Fairness ==
    /\ WF_vars(loop_exit) /\ WF_vars(loop_wait) /\ WF_vars(loop_wake)
    /\ SF_vars(lock_events)
    /\ WF_vars(spotify_metadata_updated) /\ SF_vars(process_return)
    /\ WF_vars(spotify_notify_main_thread)
    /\ \A w \in Workers : SF_vars(call_lock(w))
    /\ \A t \in Threads :
          /\ WF_vars(wait_on_loaded(t)) /\ WF_vars(wait_on_test(t))
          /\ WF_vars(wait_on_sleep(t))
          /\ SF_vars(wait_on_expire(t)) /\ SF_vars(wait_on_wake(t))
          /\ WF_vars(call_return(t))
    /\ WF_vars(session_destroy)

FairSpec == Spec /\ Fairness

-----------------------------------------------------------------------------
(* Properties.                                                             *)

\* Thread t runs code of libspotify that the api mutex is there to protect.
InLibspotify(t) ==
    pc[t] \in {"check", "call", "process"} /\ kind[t] # "unlocked"

\* One FUSE thread: libspotify, which is not thread-safe, is never entered
\* by two threads, although wrappers called on the session thread do not
\* lock and waits give the mutex back.  Calls of spotify_get_track_info,
\* which takes no mutex, are not counted: they do enter it at any time.
ApiExclusive ==
    \A t, u \in Threads : InLibspotify(t) /\ InLibspotify(u) => t = u

\* One FUSE thread: nobody sleeps through the loading of its object.  The
\* broadcast of metadata_updated does not come between the test of wait_on_X
\* and the wait, because the thread holds the api mutex from the one to the
\* other, or is the one that would broadcast.
NoMissedLoad ==
    \A t \in asleep : wanted[t] \in loaded => news

\* Every call into libspotify returns, if need be by the timeout.
CallsReturn == \A w \in Workers : pc[w] # "idle" ~> pc[w] = "idle"

\* Every event of libspotify is processed, also one announced while the
\* session thread was not waiting, unless the file system is unmounted.
EventsProcessed == pending ~> ~ pending \/ ~ running

\* Unmounting ends the session thread, which nobody wakes up for it.
ShutdownCompletes == ~ running ~> destroyed

=============================================================================
