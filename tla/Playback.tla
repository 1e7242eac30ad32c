------------------------------ MODULE Playback ------------------------------
(***************************************************************************)
(* The playback path of spotifile: how the bytes of a track.wav file get   *)
(* from libspotify's delivery thread to a read(2) of a FUSE client.        *)
(*                                                                         *)
(* Three kinds of threads meet on g_playback (spfs_audio_playback):        *)
(*   - the FUSE worker threads, in wav_open, wav_read and wav_release      *)
(*     (spfs_fuse_audiofile.c), which call the playback functions of       *)
(*     spfs_spotify.c;                                                     *)
(*   - libspotify's own thread, which calls music_delivery and             *)
(*     get_audio_buffer_stats;                                             *)
(*   - the session thread, which runs the end_of_track and play_token_lost *)
(*     callbacks from inside sp_session_process_events, so with            *)
(*     g_spotify_api_mutex held.                                           *)
(*                                                                         *)
(* A section under g_playback->mutex is one action.  Everything the code   *)
(* reads or writes outside that mutex (playing at spfs_spotify.c:506,      *)
(* g_playback_done, music_playing, the static expoff) is a step of its own.*)
(* The unit of offsets, sizes and samples is one audio frame (a sample of  *)
(* every channel); sizes are whole numbers of frames.                      *)
(***************************************************************************)
EXTENDS Integers, Sequences, FiniteSets

CONSTANTS
    Workers,      \* FUSE worker threads; one of them when run with -s
    Handles,      \* open file descriptions of track.wav files
    Tracks,       \* sp_track pointers
    TrackOf,      \* the track behind each handle: e->auxdata of its entity
    NoTrack,      \* NULL
    TrackLen,     \* frames of a track
    BufferLimit,  \* sample_rate * 2 of spotify_music_delivery
    MaxChunk,     \* the most frames libspotify offers in one delivery
    HeaderLen,    \* sizeof(struct wav_header)
    SecondLen,    \* bytes_p_s of wav_read
    Offsets,      \* offsets clients read at
    Sizes,        \* sizes clients read with
    Events,       \* the events libspotify may raise in this instance
    HeaderFirst,  \* clients read a handle at offset 0 before anywhere else
    MaxStutter    \* bound of the model on the stutter counter

AllEvents == {"end_of_track", "play_token_lost", "load_error"}

ASSUME PlaybackAssumption ==
    /\ IsFiniteSet(Workers)
    /\ NoTrack \notin Tracks
    /\ Handles # {}
    /\ TrackOf \in [Handles -> Tracks]
    /\ TrackLen \in Nat /\ BufferLimit \in Nat /\ MaxChunk \in Nat
    /\ HeaderLen \in Nat \ {0} /\ SecondLen \in Nat \ {0}
    /\ MaxStutter \in Nat
    /\ Offsets \subseteq Nat /\ Sizes \subseteq Nat \ {0}
    /\ Events \subseteq AllEvents
    /\ HeaderFirst \in BOOLEAN

ASSUME MutexOwnerAssumption == "free" \notin Workers /\ "session" \notin Workers

VARIABLES
    playing,        \* g_playback->playing
    queue,          \* g_playback->queue, frame by frame
    nsamples,       \* g_playback->nsamples
    stutter,        \* g_playback->stutter
    asleep,         \* workers blocked in g_cond_wait on g_playback->cond
    playback_done,  \* g_playback_done
    api_mutex,      \* owner of g_spotify_api_mutex
    music_playing,  \* (SPFS_DATA)->music_playing
    expoff,         \* the static expoff of wav_read
    pc,             \* where each worker is
    job,            \* the read or open each worker serves
    eot,            \* where the session thread is in spotify_end_of_track
    player,         \* libspotify's player (external)
    opened,         \* handles the kernel holds open (external)
    primed,         \* handles whose header has been read (client state)
    heard           \* history: frames handed out since the player was last
                    \* loaded or sought

gVars    == <<playing, queue, nsamples, stutter>>
fileVars == <<music_playing, expoff, opened, primed>>
vars == <<gVars, asleep, playback_done, api_mutex, fileVars, pc, job, eot,
          player, heard>>

-----------------------------------------------------------------------------
(* Types.                                                                  *)

Labels == {"idle", "open_set", "play_test", "play_flush", "play_done",
           "play_load", "play_set", "head_info", "head_wait", "seek_test",
           "seek_info", "seek_wait", "seek_done", "seek_player",
           "seek_flush", "seek_expoff", "audio_playing", "audio_done",
           "audio_eof", "audio_take", "finish"}

\* One frame of a delivered segment; last marks the end of an spfs_audio.
Frame == [track : Tracks, pos : Nat, last : BOOLEAN]

Job == [handle : Handles, offset : Nat, size : Nat, read : Nat]

\* The job of an idle worker; its fields are never read.
NoJob == [handle |-> CHOOSE h \in Handles : TRUE, offset |-> 0, size |-> 0,
          read |-> 0]

PlayerStates == {"stopped", "playing", "ended", "paused"}

TypeOK ==
    /\ playing \in Tracks \cup {NoTrack}
    /\ queue \in Seq(Frame)
    /\ nsamples \in Int
    /\ stutter \in 0..MaxStutter
    /\ asleep \subseteq Workers
    /\ playback_done \in BOOLEAN
    /\ api_mutex \in Workers \cup {"free", "session"}
    /\ music_playing \in BOOLEAN
    /\ expoff \in Nat
    /\ pc \in [Workers -> Labels]
    /\ job \in [Workers -> Job]
    /\ eot \in {"idle", "playing", "done"}
    /\ player \in [track : Tracks \cup {NoTrack}, pos : Nat,
                   state : PlayerStates]
    /\ opened \subseteq Handles
    /\ primed \subseteq Handles
    /\ heard \in Seq(Frame)

Init ==
    /\ playing = NoTrack
    /\ queue = <<>>
    /\ nsamples = 0
    /\ stutter = 0
    /\ asleep = {}
    /\ playback_done = FALSE
    /\ api_mutex = "free"
    /\ music_playing = FALSE
    /\ expoff = 0
    /\ pc = [w \in Workers |-> "idle"]
    /\ job = [w \in Workers |-> NoJob]
    /\ eot = "idle"
    /\ player = [track |-> NoTrack, pos |-> 0, state |-> "stopped"]
    /\ opened = {}
    /\ primed = {}
    /\ heard = <<>>

-----------------------------------------------------------------------------
(* Helpers.                                                                *)

Lesser(a, b) == IF a <= b THEN a ELSE b

\* Worker w is running (not blocked on the condition variable) at label l.
At(w, l) == pc[w] = l /\ w \notin asleep

Goto(w, l) == pc' = [pc EXCEPT ![w] = l]

Step(w, from, to) == At(w, from) /\ Goto(w, to)

\* The handler returns to the kernel.
Return(w) == Goto(w, "idle") /\ job' = [job EXCEPT ![w] = NoJob]

\* g_cond_signal wakes one waiter, if there is one.
Signal ==
    IF asleep = {} THEN UNCHANGED asleep
    ELSE \E w \in asleep : asleep' = asleep \ {w}

\* g_cond_wait on g_playback->cond.
Sleep(w) == asleep' = asleep \cup {w}

TrackFor(w) == TrackOf[job[w].handle]

\* spfs_audio_playback_flush: every segment popped is subtracted.
spfs_audio_playback_flush ==
    /\ queue' = <<>>
    /\ nsamples' = nsamples - Len(queue)
    /\ stutter' = 0
    /\ Signal

\* What spotify_get_audio takes from a queue q for a buffer of size frames:
\* as many whole segments as fit, or else the front of the first one.
Yield(q, size, k) ==
    \/ q = <<>> /\ k = 0
    \/ /\ k \in 1..Lesser(Len(q), size)
       /\ q[k].last
       /\ \A j \in k + 1 .. Lesser(Len(q), size) : ~ q[j].last
    \/ /\ k = size /\ k \in 1..Len(q)
       /\ \A j \in 1..k : ~ q[j].last

\* The part of the header that a read of size at offset returns.
HeaderBytesSwapped(offset, size) == HeaderLen - size            \* mutant

HeaderBytes(offset, size) == Lesser(HeaderLen - offset, size)

\* wav_read seeks to the second that holds the offset.
SeekPos(offset) == Lesser((offset \div SecondLen) * SecondLen, TrackLen)

\* The frames of a delivery of n frames: one segment.
Segment(n) ==
    [i \in 1..n |-> [track |-> player.track, pos |-> player.pos + i - 1,
                     last |-> i = n]]

\* After the seek, wav_read wants audio once the header is complete.
WantsAudio(w) ==
    /\ job[w].read < job[w].size
    /\ job[w].offset + job[w].read >= HeaderLen

AfterSeek(w) == IF WantsAudio(w) THEN "audio_playing" ELSE "finish"

-----------------------------------------------------------------------------
(* wav_open, wav_release and the start of wav_read.                        *)

\* The reason for -EBUSY.
NeverBusy == FALSE                                              \* mutant

Busy == music_playing

\* music_playing is tested and set in two steps; a busy device makes
\* wav_open return -EBUSY, which changes nothing.
wav_open_test(w, h) ==
    /\ Step(w, "idle", "open_set")
    /\ h \notin opened
    /\ \A v \in Workers : pc[v] = "open_set" => job[v].handle # h
    /\ ~ Busy
    /\ job' = [job EXCEPT ![w].handle = h]
    /\ UNCHANGED <<gVars, asleep, playback_done, api_mutex, fileVars, eot,
                   player, heard>>

wav_open_set(w) ==
    /\ At(w, "open_set")
    /\ Return(w)
    /\ music_playing' = TRUE
    /\ opened' = opened \cup {job[w].handle}
    /\ UNCHANGED <<gVars, asleep, playback_done, api_mutex, expoff, primed,
                   eot, player, heard>>

\* The kernel sends a release when no request uses the handle any more.
wav_release(h) ==
    /\ h \in opened
    /\ \A w \in Workers : pc[w] = "idle" \/ job[w].handle # h
    /\ \E w \in Workers : pc[w] = "idle"
    /\ music_playing' = FALSE
    /\ opened' = opened \ {h}
    /\ primed' = primed \ {h}
    /\ UNCHANGED <<gVars, asleep, playback_done, api_mutex, expoff, pc, job,
                   eot, player, heard>>

wav_read(w, h, offset, size) ==
    /\ At(w, "idle")
    /\ h \in opened
    /\ HeaderFirst => (offset = 0 \/ h \in primed)
    /\ job' = [job EXCEPT ![w] = [handle |-> h, offset |-> offset,
                                 size |-> size, read |-> 0]]
    /\ Goto(w, IF offset = 0 THEN "play_test"
               ELSE IF offset < HeaderLen THEN "head_info"
               ELSE "seek_test")
    /\ UNCHANGED <<gVars, asleep, playback_done, api_mutex, fileVars, eot,
                   player, heard>>

-----------------------------------------------------------------------------
(* spotify_play_track.                                                     *)

\* The unlocked test of g_playback->playing.
AnyTrackPlays(w) == playing # NoTrack                           \* mutant

OwnTrackPlays(w) == playing = TrackFor(w)

play_track_test(w) ==
    /\ At(w, "play_test")
    /\ Goto(w, IF OwnTrackPlays(w) THEN "head_info" ELSE "play_flush")
    /\ UNCHANGED <<gVars, asleep, playback_done, api_mutex, fileVars, job,
                   eot, player, heard>>

play_track_flush(w) ==
    /\ Step(w, "play_flush", "play_done")
    /\ spfs_audio_playback_flush
    /\ UNCHANGED <<playing, playback_done, api_mutex, fileVars, job, eot,
                   player, heard>>

play_track_done(w) ==
    /\ Step(w, "play_done", "play_load")
    /\ playback_done' = FALSE
    /\ UNCHANGED <<gVars, asleep, api_mutex, fileVars, job, eot, player,
                   heard>>

\* Mutant: the api mutex is given back before playing is set.
play_track_load_unlocked(w) ==
    /\ Step(w, "play_load", "play_set")
    /\ api_mutex = "free"
    /\ player' = [track |-> TrackFor(w), pos |-> 0, state |-> "playing"]
    /\ heard' = <<>>
    /\ UNCHANGED <<gVars, asleep, playback_done, api_mutex, fileVars, job,
                   eot>>

\* sp_session_player_load and sp_session_player_play, under the api mutex.
play_track_load(w) ==
    /\ Step(w, "play_load", "play_set")
    /\ api_mutex = "free"
    /\ api_mutex' = w
    /\ player' = [track |-> TrackFor(w), pos |-> 0, state |-> "playing"]
    /\ heard' = <<>>
    /\ UNCHANGED <<gVars, asleep, playback_done, fileVars, job, eot>>

play_track_set(w) ==
    /\ Step(w, "play_set", "head_info")
    /\ playing' = TrackFor(w)
    /\ api_mutex' = "free"
    /\ UNCHANGED <<queue, nsamples, stutter, asleep, playback_done, fileVars,
                   job, eot, player, heard>>

\* sp_session_player_load fails: wav_read returns -EINVAL.
play_track_error(w) ==
    /\ At(w, "play_load")
    /\ "load_error" \in Events
    /\ api_mutex = "free"
    /\ Return(w)
    /\ UNCHANGED <<gVars, asleep, playback_done, api_mutex, fileVars, eot,
                   player, heard>>

-----------------------------------------------------------------------------
(* spotify_get_track_info, called for the header and for a seek.  A track  *)
(* that plays is loaded, so wait_on_track fails on NULL and nothing else.  *)

\* The section under g_playback->mutex, entered at label enter; a wait
\* resumes at label wait, where playing is not looked at again until there
\* is a segment.  Without a track the call returns -1 and wav_read 0.
get_track_info_error(w, enter, wait) ==
    /\ \/ At(w, enter)
       \/ At(w, wait) /\ queue # <<>>
    /\ playing = NoTrack
    /\ Return(w)
    /\ UNCHANGED asleep

get_track_info_sleep(w, enter, wait) ==
    /\ \/ At(w, enter) /\ playing # NoTrack
       \/ At(w, wait)
    /\ queue = <<>>
    /\ Goto(w, wait)
    /\ Sleep(w)
    /\ UNCHANGED job

get_track_info_ok(w, enter, wait) ==
    /\ At(w, enter) \/ At(w, wait)
    /\ playing # NoTrack
    /\ queue # <<>>

get_track_info_header(w) ==
    /\ \/ get_track_info_error(w, "head_info", "head_wait")
       \/ get_track_info_sleep(w, "head_info", "head_wait")
       \/ /\ get_track_info_ok(w, "head_info", "head_wait")
          /\ Goto(w, "seek_test")
          /\ job' = [job EXCEPT ![w].read =
                        HeaderBytes(job[w].offset, job[w].size)]
          /\ UNCHANGED asleep
    /\ UNCHANGED <<gVars, playback_done, api_mutex, fileVars, eot, player,
                   heard>>

get_track_info_seek(w) ==
    /\ \/ get_track_info_error(w, "seek_info", "seek_wait")
       \/ get_track_info_sleep(w, "seek_info", "seek_wait")
       \/ /\ get_track_info_ok(w, "seek_info", "seek_wait")
          /\ Goto(w, "seek_done")
          /\ UNCHANGED <<job, asleep>>
    /\ UNCHANGED <<gVars, playback_done, api_mutex, fileVars, eot, player,
                   heard>>

-----------------------------------------------------------------------------
(* The seek of wav_read and spotify_seek_track.                            *)

seek_test(w) ==
    /\ At(w, "seek_test")
    /\ Goto(w, IF expoff # job[w].offset THEN "seek_info" ELSE AfterSeek(w))
    /\ UNCHANGED <<gVars, asleep, playback_done, api_mutex, fileVars, job,
                   eot, player, heard>>

\* Mutant: g_playback_done survives a seek.
seek_track_keeps_done(w) ==
    /\ Step(w, "seek_done", "seek_player")
    /\ UNCHANGED <<gVars, asleep, playback_done, api_mutex, fileVars, job,
                   eot, player, heard>>

seek_track_done(w) ==
    /\ Step(w, "seek_done", "seek_player")
    /\ playback_done' = FALSE
    /\ UNCHANGED <<gVars, asleep, api_mutex, fileVars, job, eot, player,
                   heard>>

\* sp_session_player_seek under the api mutex.
seek_track_player(w) ==
    /\ Step(w, "seek_player", "seek_flush")
    /\ api_mutex = "free"
    /\ player' = [player EXCEPT !.pos = SeekPos(job[w].offset)]
    /\ heard' = <<>>
    /\ UNCHANGED <<gVars, asleep, playback_done, api_mutex, fileVars, job,
                   eot>>

\* Mutant: what was queued before the seek stays queued.
seek_track_no_flush(w) ==
    /\ Step(w, "seek_flush", "seek_expoff")
    /\ UNCHANGED <<gVars, asleep, playback_done, api_mutex, fileVars, job,
                   eot, player, heard>>

seek_track_flush(w) ==
    /\ Step(w, "seek_flush", "seek_expoff")
    /\ spfs_audio_playback_flush
    /\ UNCHANGED <<playing, playback_done, api_mutex, fileVars, job, eot,
                   player, heard>>

seek_expoff(w) ==
    /\ At(w, "seek_expoff")
    /\ Goto(w, AfterSeek(w))
    /\ expoff' = job[w].offset
    /\ UNCHANGED <<gVars, asleep, playback_done, api_mutex, music_playing,
                   opened, primed, job, eot, player, heard>>

-----------------------------------------------------------------------------
(* spotify_get_audio and the end of wav_read.                              *)

get_audio_is_playing(w) ==
    /\ At(w, "audio_playing")
    /\ Goto(w, IF playing = NoTrack THEN "audio_eof" ELSE "audio_done")
    /\ UNCHANGED <<gVars, asleep, playback_done, api_mutex, fileVars, job,
                   eot, player, heard>>

get_audio_is_done(w) ==
    /\ At(w, "audio_done")
    /\ Goto(w, IF playback_done THEN "audio_eof" ELSE "audio_take")
    /\ UNCHANGED <<gVars, asleep, playback_done, api_mutex, fileVars, job,
                   eot, player, heard>>

get_audio_eof(w) ==
    /\ Step(w, "audio_eof", "finish")
    /\ playback_done' = FALSE
    /\ UNCHANGED <<gVars, asleep, api_mutex, fileVars, job, eot, player,
                   heard>>

get_audio_wait(w) ==
    /\ At(w, "audio_take")
    /\ playing # NoTrack /\ queue = <<>>
    /\ stutter' = Lesser(stutter + 1, MaxStutter)
    /\ Sleep(w)
    /\ UNCHANGED <<playing, queue, nsamples, playback_done, api_mutex,
                   fileVars, pc, job, eot, player, heard>>

\* Mutants: the rest of a partial segment is moved one frame too far; the
\* frames taken are not subtracted.
TakeFramesTooFar(k) ==
    /\ queue' = SubSeq(queue, k + 2, Len(queue))
    /\ heard' = heard \o SubSeq(queue, 1, k)
    /\ nsamples' = nsamples - k

TakeFramesUncounted(k) ==
    /\ queue' = SubSeq(queue, k + 1, Len(queue))
    /\ heard' = heard \o SubSeq(queue, 1, k)
    /\ UNCHANGED nsamples

\* k frames leave the front of the queue for the reader's buffer.
TakeFrames(k) ==
    /\ queue' = SubSeq(queue, k + 1, Len(queue))
    /\ heard' = heard \o SubSeq(queue, 1, k)
    /\ nsamples' = nsamples - k

get_audio_take(w) ==
    /\ Step(w, "audio_take", "finish")
    /\ ~ (playing # NoTrack /\ queue = <<>>)
    /\ \E k \in 0..Len(queue) :
          /\ Yield(queue, job[w].size - job[w].read, k)
          /\ TakeFrames(k)
          /\ job' = [job EXCEPT ![w].read = @ + k]
    /\ UNCHANGED <<playing, stutter, asleep, playback_done, api_mutex,
                   fileVars, eot, player>>

wav_read_finish(w) ==
    /\ At(w, "finish")
    /\ expoff' = expoff + job[w].read
    /\ primed' = IF job[w].offset = 0 THEN primed \cup {job[w].handle}
                 ELSE primed
    /\ Return(w)
    /\ UNCHANGED <<gVars, asleep, playback_done, api_mutex, music_playing,
                   opened, eot, player, heard>>

-----------------------------------------------------------------------------
(* Callbacks of the session thread, inside sp_session_process_events.      *)

end_of_track_flush ==
    /\ "end_of_track" \in Events
    /\ eot = "idle" /\ api_mutex = "free"
    /\ player.state = "playing" /\ player.pos = TrackLen
    /\ eot' = "playing"
    /\ api_mutex' = "session"
    /\ player' = [player EXCEPT !.state = "ended"]
    /\ spfs_audio_playback_flush
    /\ UNCHANGED <<playing, playback_done, fileVars, pc, job, heard>>

end_of_track_playing ==
    /\ eot = "playing"
    /\ eot' = "done"
    /\ playing' = NoTrack
    /\ UNCHANGED <<queue, nsamples, stutter, asleep, playback_done,
                   api_mutex, fileVars, pc, job, player, heard>>

end_of_track_done ==
    /\ eot = "done"
    /\ eot' = "idle"
    /\ playback_done' = TRUE
    /\ api_mutex' = "free"
    /\ UNCHANGED <<gVars, asleep, fileVars, pc, job, player, heard>>

\* Mutant: nobody is told.
StopPlayingSilently == playing' = NoTrack /\ UNCHANGED asleep

StopPlaying == playing' = NoTrack /\ Signal

play_token_lost ==
    /\ "play_token_lost" \in Events
    /\ api_mutex = "free"
    /\ player.state = "playing"
    /\ player' = [player EXCEPT !.state = "paused"]
    /\ StopPlaying
    /\ UNCHANGED <<queue, nsamples, stutter, playback_done, api_mutex,
                   fileVars, pc, job, eot, heard>>

-----------------------------------------------------------------------------
(* libspotify's delivery thread, which takes only g_playback->mutex.       *)

\* Mutants: no limit; the reader is not told.
AlwaysRoom == TRUE

PushSilently(n) ==
    /\ queue' = queue \o Segment(n)
    /\ nsamples' = nsamples + n
    /\ UNCHANGED asleep

Room == nsamples <= BufferLimit

Push(n) ==
    /\ queue' = queue \o Segment(n)
    /\ nsamples' = nsamples + n
    /\ Signal

\* A delivery to a buffer over the limit returns 0 and changes nothing:
\* libspotify offers the same frames again.
music_delivery(n) ==
    /\ player.state = "playing"
    /\ player.pos + n <= TrackLen
    /\ Room
    /\ Push(n)
    /\ player' = [player EXCEPT !.pos = @ + n]
    /\ UNCHANGED <<playing, stutter, playback_done, api_mutex, fileVars, pc,
                   job, eot, heard>>

audio_buffer_stats ==
    /\ stutter' = 0
    /\ UNCHANGED <<playing, queue, nsamples, asleep, playback_done,
                   api_mutex, fileVars, pc, job, eot, player, heard>>

\* g_cond_wait may return without a signal.
spurious_wakeup(w) ==
    /\ w \in asleep
    /\ asleep' = asleep \ {w}
    /\ UNCHANGED <<gVars, playback_done, api_mutex, fileVars, pc, job, eot,
                   player, heard>>

-----------------------------------------------------------------------------
(* The specification.                                                      *)

play_track(w) ==
    \/ play_track_test(w) \/ play_track_flush(w) \/ play_track_done(w)
    \/ play_track_load(w) \/ play_track_set(w) \/ play_track_error(w)

seek_track(w) ==
    \/ seek_track_done(w) \/ seek_track_player(w) \/ seek_track_flush(w)

get_audio(w) ==
    \/ get_audio_is_playing(w) \/ get_audio_is_done(w) \/ get_audio_eof(w)
    \/ get_audio_wait(w) \/ get_audio_take(w)

\* What worker w does once it serves a request.
Serve(w) ==
    \/ wav_open_set(w)
    \/ play_track(w)
    \/ get_track_info_header(w) \/ seek_test(w)
    \/ get_track_info_seek(w) \/ seek_track(w) \/ seek_expoff(w)
    \/ get_audio(w)
    \/ wav_read_finish(w)

Client ==
    \/ \E w \in Workers, h \in Handles :
          \/ wav_open_test(w, h)
          \/ \E o \in Offsets, s \in Sizes : wav_read(w, h, o, s)
    \/ \E h \in Handles : wav_release(h)

Session ==
    \/ end_of_track_flush \/ end_of_track_playing \/ end_of_track_done
    \/ play_token_lost

Delivery == \E n \in 1..MaxChunk : music_delivery(n)

Next ==
    \/ Client
    \/ \E w \in Workers : Serve(w) \/ spurious_wakeup(w)
    \/ Session
    \/ Delivery
    \/ audio_buffer_stats

Spec == Init /\ [][Next]_vars

\* Threads that can run do run; libspotify keeps offering what it has and
\* ends a track it has delivered.  Nothing makes a client read, libspotify
\* lose its token or g_cond_wait wake up by itself.
Fairness ==
    /\ \A w \in Workers : WF_vars(Serve(w))
    /\ WF_vars(Delivery)
    /\ WF_vars(end_of_track_flush) /\ WF_vars(end_of_track_playing)
    /\ WF_vars(end_of_track_done)

FairSpec == Spec /\ Fairness

-----------------------------------------------------------------------------
(* Properties.                                                             *)

\* nsamples, from which music_delivery decides whether to accept frames and
\* which get_audio_buffer_stats reports, counts exactly the frames queued,
\* through deliveries, partial takes and the flushes of three threads.
BufferAccounting == nsamples = Len(queue)

\* The buffer never holds more than its limit and one delivery.
BufferBounded == Len(queue) <= BufferLimit + MaxChunk

\* Whenever nobody is between the two halves of a load or of an
\* end_of_track, the track spotifile takes for playing is the one
\* libspotify delivers.
PlayingIsDelivered ==
    playing # NoTrack /\ api_mutex = "free" =>
        player.track = playing /\ player.state = "playing"

\* g_playback keeps its promise: see AudioStream.
Stream == INSTANCE AudioStream WITH pending <- queue, Limit <- BufferLimit

StreamSpec == Stream!Spec

\* One worker: no wakeup is lost to a delivery, so nobody waits on the
\* condition variable while there is audio (the loops of get_track_info
\* and get_audio).
NoSleepOnData == asleep # {} => queue = <<>>

\* One worker: -EBUSY keeps a second track.wav from being opened, and a
\* release makes the device free again.
OneOpenHandle ==
    /\ Cardinality(opened) <= 1
    /\ music_playing <=> opened # {}

\* A handle that is open can be released: wav_release finds music_playing set
\* (its g_warn_if_reached).  The code does not keep this with two workers: both
\* may find the device free before either sets music_playing, and the first
\* release clears it for both.
ReleaseFindsBusy == opened # {} => music_playing

Took(w) == pc[w] = "audio_take" /\ pc'[w] = "finish"

\* A read of a track.wav hands out frames of that file's track only, however
\* many tracks were played before it.
OwnTrack ==
    [][\A w \in Workers : Took(w) =>
         \A i \in Len(heard) + 1 .. Len(heard') :
            heard'[i].track = TrackFor(w)]_vars

\* One worker: between two repositions of the player clients hear one
\* uninterrupted run of one track.
GapFree ==
    \A i \in 1 .. Len(heard) - 1 :
        /\ heard[i + 1].track = heard[i].track
        /\ heard[i + 1].pos = heard[i].pos + 1

\* spotify_get_audio "makes an effort to always return at least some data
\* when a track is playing": it reports the end of the audio only when
\* nothing plays.
EofMeansStopped ==
    [][\A w \in Workers :
         \/ pc[w] = "audio_eof" /\ pc'[w] = "finish"
         \/ Took(w) /\ heard' = heard
         => playing = NoTrack]_vars

\* A read that waits for audio gets some, or the track has been delivered
\* to its end.
GetAudioReturns ==
    \A w \in Workers :
        pc[w] = "audio_take" ~>
            pc[w] # "audio_take" \/ player.pos = TrackLen

\* The same without the excuse: a read that waits for audio returns.
GetAudioAlwaysReturns ==
    \A w \in Workers : pc[w] = "audio_take" ~> pc[w] # "audio_take"

\* spotify_get_track_info returns: the track's information or -1.
TrackInfoReturns ==
    \A w \in Workers :
        pc[w] \in {"head_wait", "seek_wait"} ~>
            pc[w] \notin {"head_wait", "seek_wait"}

\* Every request is answered, unless libspotify has nothing more to deliver
\* for it: the track is at its end or the play token is lost.
ReadReturns ==
    \A w \in Workers :
        pc[w] # "idle" ~>
            pc[w] = "idle" \/ player.pos = TrackLen \/ player.state = "paused"

=============================================================================
