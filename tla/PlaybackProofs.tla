--------------------------- MODULE PlaybackProofs ---------------------------
(***************************************************************************)
(* Theorems about Playback, for any number of workers, handles and tracks, *)
(* any buffer limit, chunk, header and track length, and any events; those *)
(* of the second part are for one worker, as with the option -s.           *)
(***************************************************************************)
EXTENDS Playback, SequenceTheorems, FiniteSetTheorems, TLAPS

\* Outside the stopped state libspotify has a track.
PlayerLoaded == player.state # "stopped" => player.track \in Tracks

\* The labels of a read that starts inside the header.
HeaderLabels == {"play_test", "play_flush", "play_done", "play_load",
                 "play_set", "head_info", "head_wait"}

\* Only such a read is at one of them.
InHeader ==
    \A w \in Workers : pc[w] \in HeaderLabels => job[w].offset < HeaderLen

\* The inductive form of TypeOK.
TypeInv == TypeOK /\ PlayerLoaded /\ InHeader

-----------------------------------------------------------------------------
(* Lemmas about the helpers.                                               *)

\* The lesser of two naturals is one of them.
LEMMA LesserNat == ASSUME NEW a \in Nat, NEW b \in Nat
                   PROVE  Lesser(a, b) \in Nat
BY DEF Lesser

\* A seek goes to a natural position.
LEMMA SeekPosNat == ASSUME NEW o \in Nat PROVE SeekPos(o) \in Nat
<1>1. o \div SecondLen \in Nat
  BY PlaybackAssumption
<1>2. (o \div SecondLen) * SecondLen \in Nat
  <2> DEFINE q == o \div SecondLen
  <2>1. q \in Nat BY <1>1
  <2>2. SecondLen \in Nat BY PlaybackAssumption
  <2> HIDE DEF q
  <2>3. q * SecondLen \in Nat BY <2>1, <2>2
  <2> QED BY <2>3 DEF q
<1> QED BY <1>2, LesserNat, PlaybackAssumption DEF SeekPos

\* A delivery is a sequence of n frames.
LEMMA SegmentSeq ==
    ASSUME TypeOK, PlayerLoaded, player.state = "playing",
           NEW n \in Nat
    PROVE  Segment(n) \in Seq(Frame) /\ Len(Segment(n)) = n
<1>1. \A i \in 1..n : [track |-> player.track, pos |-> player.pos + i - 1,
                      last |-> i = n] \in Frame
  BY DEF TypeOK, PlayerLoaded, Frame
<1> QED BY <1>1 DEF Segment

\* An idle worker's job is a job.
LEMMA NoJobType == NoJob \in Job
BY PlaybackAssumption DEF NoJob, Job

\* Waking somebody leaves a set of workers.
LEMMA SignalType == ASSUME TypeOK, Signal PROVE asleep' \subseteq Workers
BY DEF Signal, TypeOK

\* Every worker has a track, and the label it goes on to is a label.
LEMMA TrackForType == ASSUME TypeOK, NEW w \in Workers
                      PROVE  TrackFor(w) \in Tracks
BY PlaybackAssumption DEF TrackFor, TypeOK, Job

\* A flush empties the buffer and keeps the types.
LEMMA FlushType ==
    ASSUME TypeOK, spfs_audio_playback_flush
    PROVE  /\ queue' \in Seq(Frame) /\ nsamples' \in Int
           /\ stutter' \in 0..MaxStutter /\ asleep' \subseteq Workers
<1>1. <<>> \in Seq(Frame) /\ Len(queue) \in Nat
  BY DEF TypeOK
<1> QED BY <1>1, SignalType, PlaybackAssumption
        DEF TypeOK, spfs_audio_playback_flush

-----------------------------------------------------------------------------
(* Type correctness.                                                       *)

LEMMA TypeInit == Init => TypeInv
<1> SUFFICES ASSUME Init PROVE TypeInv
  OBVIOUS
<1>1. <<>> \in Seq(Frame)
  OBVIOUS
<1>2. TypeOK
  <2>1. pc \in [Workers -> Labels] /\ job \in [Workers -> Job]
    BY NoJobType DEF Init, Labels
  <2>2. player \in [track : Tracks \cup {NoTrack}, pos : Nat,
                    state : PlayerStates]
    BY DEF Init, PlayerStates
  <2>3. stutter \in 0..MaxStutter
    BY PlaybackAssumption DEF Init
  <2>4. queue \in Seq(Frame) /\ heard \in Seq(Frame)
    BY <1>1 DEF Init
  <2>5. playback_done \in BOOLEAN /\ music_playing \in BOOLEAN
    BY DEF Init
  <2>6. playing \in Tracks \cup {NoTrack} /\ nsamples \in Int
    BY DEF Init
  <2>7. asleep \subseteq Workers
    BY DEF Init
  <2>8. api_mutex \in Workers \cup {"free", "session"}
    BY DEF Init
  <2>9. opened \subseteq Handles /\ primed \subseteq Handles
    BY DEF Init
  <2>10. expoff \in Nat /\ eot \in {"idle", "playing", "done"}
    BY DEF Init
  <2> QED BY <2>1, <2>2, <2>3, <2>4, <2>5, <2>6, <2>7, <2>8, <2>9, <2>10
          DEF TypeOK
<1>3. PlayerLoaded /\ InHeader
  BY DEF Init, PlayerLoaded, InHeader, HeaderLabels
<1> QED BY <1>2, <1>3 DEF TypeInv

\* Requests arriving from and returning to the kernel.
LEMMA TypeClient == TypeInv /\ Client => TypeInv'
<1> SUFFICES ASSUME TypeInv, Client PROVE TypeInv'
  OBVIOUS
<1> USE DEF TypeInv, TypeOK, PlayerLoaded, InHeader, At, Goto, Labels, Job,
            HeaderLabels, gVars, fileVars
<1>1. ASSUME NEW w \in Workers, NEW h \in Handles, wav_open_test(w, h)
      PROVE  TypeInv'
  BY <1>1, ZenonT(60) DEF wav_open_test, Step
<1>2. ASSUME NEW w \in Workers, NEW h \in Handles, NEW o \in Offsets,
             NEW s \in Sizes, wav_read(w, h, o, s)
      PROVE  TypeInv'
  BY <1>2, PlaybackAssumption DEF wav_read
<1>3. ASSUME NEW h \in Handles, wav_release(h)
      PROVE  TypeInv'
  BY <1>3 DEF wav_release
<1> QED BY <1>1, <1>2, <1>3 DEF Client

\* spotify_play_track and the tests that lead to it.
LEMMA TypePlay ==
    ASSUME TypeInv, NEW w \in Workers, play_track(w) PROVE TypeInv'
<1> USE DEF TypeInv, TypeOK, PlayerLoaded, InHeader, At, Goto, Step, Labels,
            HeaderLabels, gVars, fileVars
<1>1. CASE play_track_test(w)
  BY <1>1 DEF play_track_test
<1>2. CASE play_track_flush(w)
  BY <1>2, FlushType DEF play_track_flush
<1>3. CASE play_track_done(w)
  BY <1>3 DEF play_track_done
<1>4. CASE play_track_load(w)
  BY <1>4, TrackForType DEF play_track_load, PlayerStates
<1>5. CASE play_track_set(w)
  BY <1>5, TrackForType DEF play_track_set
<1>6. CASE play_track_error(w)
  BY <1>6, NoJobType DEF play_track_error, Return
<1> QED BY <1>1, <1>2, <1>3, <1>4, <1>5, <1>6 DEF play_track

\* spotify_get_track_info, for the header and for a seek.
LEMMA TypeInfo ==
    ASSUME TypeInv, NEW w \in Workers,
           get_track_info_header(w) \/ get_track_info_seek(w)
    PROVE  TypeInv'
<1> USE DEF TypeInv, TypeOK, PlayerLoaded, InHeader, At, Goto, Labels,
            HeaderLabels, gVars, fileVars
<1>1. ASSUME NEW enter \in Labels, NEW wait \in Labels,
             wait \in HeaderLabels => enter \in HeaderLabels,
             \/ get_track_info_error(w, enter, wait)
             \/ get_track_info_sleep(w, enter, wait),
             UNCHANGED <<gVars, playback_done, api_mutex, fileVars, eot,
                         player, heard>>
      PROVE  TypeInv'
  <2>1. CASE get_track_info_error(w, enter, wait)
    BY <1>1, <2>1, NoJobType DEF get_track_info_error, Return
  <2>2. CASE get_track_info_sleep(w, enter, wait)
    <3>1. pc' \in [Workers -> Labels] /\ asleep' \subseteq Workers
      BY <1>1, <2>2 DEF get_track_info_sleep, Sleep
    <3>2. \A v \in Workers :
            pc'[v] \in HeaderLabels => pc[v] \in HeaderLabels
      BY <1>1, <2>2 DEF get_track_info_sleep
    <3>3. UNCHANGED job
      BY <2>2 DEF get_track_info_sleep
    <3> QED BY <1>1, <3>1, <3>2, <3>3
  <2> QED BY <1>1, <2>1, <2>2
<1>2. CASE get_track_info_header(w)
  <2>1. CASE \/ get_track_info_error(w, "head_info", "head_wait")
             \/ get_track_info_sleep(w, "head_info", "head_wait")
    BY <1>1, <1>2, <2>1 DEF get_track_info_header
  <2>2. CASE /\ get_track_info_ok(w, "head_info", "head_wait")
             /\ Goto(w, "seek_test")
             /\ job' = [job EXCEPT ![w].read =
                           HeaderBytes(job[w].offset, job[w].size)]
             /\ UNCHANGED asleep
    <3>1. HeaderBytes(job[w].offset, job[w].size) \in Nat
      <4>1. job[w].offset < HeaderLen
        BY <2>2 DEF get_track_info_ok
      <4>2. HeaderLen - job[w].offset \in Nat /\ job[w].size \in Nat
        BY <4>1, PlaybackAssumption DEF Job
      <4> QED BY <4>2, LesserNat DEF HeaderBytes
    <3>2. job' \in [Workers -> Job]
      BY <2>2, <3>1 DEF Job
    <3>3. \A v \in Workers :
            pc'[v] \in HeaderLabels => pc[v] \in HeaderLabels
                                        /\ job'[v] = job[v]
      BY <2>2
    <3> QED BY <1>2, <2>2, <3>2, <3>3 DEF get_track_info_header
  <2> QED BY <1>2, <2>1, <2>2 DEF get_track_info_header
<1>3. CASE get_track_info_seek(w)
  <2>1. CASE \/ get_track_info_error(w, "seek_info", "seek_wait")
             \/ get_track_info_sleep(w, "seek_info", "seek_wait")
    BY <1>1, <1>3, <2>1 DEF get_track_info_seek
  <2>2. CASE /\ get_track_info_ok(w, "seek_info", "seek_wait")
             /\ Goto(w, "seek_done")
             /\ UNCHANGED <<job, asleep>>
    BY <1>3, <2>2 DEF get_track_info_seek, get_track_info_ok
  <2> QED BY <1>3, <2>1, <2>2 DEF get_track_info_seek
<1> QED BY <1>2, <1>3

\* The seek of wav_read.
LEMMA TypeSeek ==
    ASSUME TypeInv, NEW w \in Workers,
           seek_test(w) \/ seek_track(w) \/ seek_expoff(w)
    PROVE  TypeInv'
<1> USE DEF TypeInv, TypeOK, PlayerLoaded, InHeader, At, Goto, Step, Labels,
            HeaderLabels, gVars, fileVars
<1>1. AfterSeek(w) \in {"audio_playing", "finish"}
  BY DEF AfterSeek
<1>2. job[w].offset \in Nat
  BY DEF Job
<1>3. CASE seek_test(w)
  BY <1>1, <1>3 DEF seek_test
<1>4. CASE seek_track_done(w)
  BY <1>4 DEF seek_track_done
<1>5. CASE seek_track_player(w)
  BY <1>2, <1>5, SeekPosNat, SMTT(30) DEF seek_track_player
<1>6. CASE seek_track_flush(w)
  BY <1>6, FlushType DEF seek_track_flush
<1>7. CASE seek_expoff(w)
  BY <1>1, <1>2, <1>7 DEF seek_expoff
<1> QED BY <1>3, <1>4, <1>5, <1>6, <1>7 DEF seek_track

\* Taking k frames from the front of the queue.
LEMMA TakeType ==
    ASSUME TypeOK, NEW k \in 0..Len(queue), TakeFrames(k)
    PROVE  /\ queue' \in Seq(Frame) /\ heard' \in Seq(Frame)
           /\ nsamples' \in Int
           /\ Len(queue') = Len(queue) - k
<1>1. queue \in Seq(Frame) /\ heard \in Seq(Frame) /\ nsamples \in Int
  BY DEF TypeOK
<1>2. Len(queue) \in Nat
  BY <1>1
<1>3. SubSeq(queue, k + 1, Len(queue)) \in Seq(Frame)
  BY <1>1, <1>2
<1>4. Len(SubSeq(queue, k + 1, Len(queue))) = Len(queue) - k
  BY <1>1, <1>2
<1>5. SubSeq(queue, 1, k) \in Seq(Frame)
  BY <1>1, <1>2
<1>6. heard \o SubSeq(queue, 1, k) \in Seq(Frame)
  BY <1>1, <1>5
<1> QED BY <1>1, <1>3, <1>4, <1>6 DEF TakeFrames

\* spotify_get_audio and the end of wav_read.
LEMMA TypeAudio ==
    ASSUME TypeInv, NEW w \in Workers, get_audio(w) \/ wav_read_finish(w)
    PROVE  TypeInv'
<1> USE DEF TypeInv, TypeOK, PlayerLoaded, InHeader, At, Goto, Step, Labels,
            HeaderLabels, gVars, fileVars
<1>1. CASE get_audio_is_playing(w)
  BY <1>1 DEF get_audio_is_playing
<1>2. CASE get_audio_is_done(w)
  BY <1>2 DEF get_audio_is_done
<1>3. CASE get_audio_eof(w)
  BY <1>3 DEF get_audio_eof
<1>4. CASE get_audio_wait(w)
  BY <1>4, PlaybackAssumption DEF get_audio_wait, Sleep, Lesser
<1>5. CASE get_audio_take(w)
  <2>1. PICK k \in 0..Len(queue) :
          /\ TakeFrames(k)
          /\ job' = [job EXCEPT ![w].read = @ + k]
    BY <1>5 DEF get_audio_take
  <2>2. k \in Nat
    OBVIOUS
  <2>3. job' \in [Workers -> Job]
    <3>1. job[w] \in Job /\ job[w].read + k \in Nat
      BY <2>2 DEF Job
    <3>2. [job[w] EXCEPT !.read = @ + k] \in Job
      BY <3>1 DEF Job
    <3> QED BY <2>1, <3>2
  <2>4. /\ queue' \in Seq(Frame) /\ heard' \in Seq(Frame)
        /\ nsamples' \in Int
    BY <2>1, TakeType
  <2>5. \A v \in Workers :
          pc'[v] \in HeaderLabels => pc[v] \in HeaderLabels /\ job'[v] = job[v]
    BY <1>5, <2>1 DEF get_audio_take
  <2> QED BY <1>5, <2>3, <2>4, <2>5 DEF get_audio_take
<1>6. CASE wav_read_finish(w)
  <2>1. job[w].read \in Nat /\ job[w].handle \in Handles
    BY DEF Job
  <2>2. expoff' \in Nat /\ primed' \subseteq Handles
    BY <1>6, <2>1 DEF wav_read_finish
  <2>3. job' \in [Workers -> Job] /\ pc' \in [Workers -> Labels]
    BY <1>6, NoJobType DEF wav_read_finish, Return
  <2>4. \A v \in Workers :
          pc'[v] \in HeaderLabels => pc[v] \in HeaderLabels /\ job'[v] = job[v]
    BY <1>6 DEF wav_read_finish, Return
  <2> QED BY <1>6, <2>2, <2>3, <2>4 DEF wav_read_finish
<1> QED BY <1>1, <1>2, <1>3, <1>4, <1>5, <1>6 DEF get_audio

\* The callbacks of the session thread.
LEMMA TypeSession == TypeInv /\ Session => TypeInv'
<1> SUFFICES ASSUME TypeInv, Session PROVE TypeInv'
  OBVIOUS
<1> USE DEF TypeInv, TypeOK, PlayerLoaded, InHeader, gVars, fileVars,
            PlayerStates
<1>1. CASE end_of_track_flush
  BY <1>1, FlushType DEF end_of_track_flush
<1>2. CASE end_of_track_playing
  BY <1>2 DEF end_of_track_playing
<1>3. CASE end_of_track_done
  BY <1>3 DEF end_of_track_done
<1>4. CASE play_token_lost
  BY <1>4, SignalType DEF play_token_lost, StopPlaying
<1> QED BY <1>1, <1>2, <1>3, <1>4 DEF Session

\* A delivery of n frames makes the queue n frames longer.
LEMMA PushType ==
    ASSUME TypeOK, PlayerLoaded, player.state = "playing", NEW n \in Nat
    PROVE  /\ queue \o Segment(n) \in Seq(Frame)
           /\ Len(queue \o Segment(n)) = Len(queue) + n
<1>1. queue \in Seq(Frame)
  BY DEF TypeOK
<1>2. Segment(n) \in Seq(Frame) /\ Len(Segment(n)) = n
  BY SegmentSeq
<1> QED BY <1>1, <1>2

\* libspotify's delivery thread.
LEMMA TypeDelivery == TypeInv /\ Delivery => TypeInv'
<1> SUFFICES ASSUME TypeInv, NEW n \in 1..MaxChunk, music_delivery(n)
             PROVE  TypeInv'
  BY DEF Delivery
<1> USE DEF TypeInv, TypeOK, PlayerLoaded, InHeader, gVars, fileVars
<1>1. n \in Nat
  BY PlaybackAssumption
<1>2. queue' \in Seq(Frame)
  BY <1>1, PushType DEF music_delivery, Push
<1>3. nsamples' \in Int
  BY <1>1 DEF music_delivery, Push
<1>4. player' \in [track : Tracks \cup {NoTrack}, pos : Nat,
                   state : PlayerStates]
  <2>1. player.pos + n \in Nat
    BY <1>1
  <2>2. player' = [player EXCEPT !.pos = player.pos + n]
    BY DEF music_delivery
  <2> QED BY <2>1, <2>2
<1>5. asleep' \subseteq Workers
  BY SignalType DEF music_delivery, Push
<1> QED BY <1>2, <1>3, <1>4, <1>5 DEF music_delivery

\* Every step keeps the types.
LEMMA TypeNext == TypeInv /\ [Next]_vars => TypeInv'
<1> SUFFICES ASSUME TypeInv, [Next]_vars PROVE TypeInv'
  OBVIOUS
<1>1. CASE Client
  BY <1>1, TypeClient
<1>2. ASSUME NEW w \in Workers, Serve(w) PROVE TypeInv'
  <2>1. CASE wav_open_set(w)
    BY <2>1, NoJobType
    DEF TypeInv, TypeOK, PlayerLoaded, InHeader, At, Goto, Labels, Job,
        HeaderLabels, gVars, fileVars, wav_open_set, Return
  <2> QED BY <1>2, <2>1, TypePlay, TypeInfo, TypeSeek, TypeAudio DEF Serve
<1>3. ASSUME NEW w \in Workers, spurious_wakeup(w) PROVE TypeInv'
  BY <1>3 DEF TypeInv, TypeOK, PlayerLoaded, InHeader, gVars, fileVars,
              spurious_wakeup
<1>4. CASE Session
  BY <1>4, TypeSession
<1>5. CASE Delivery
  BY <1>5, TypeDelivery
<1>6. CASE audio_buffer_stats
  BY <1>6, PlaybackAssumption
  DEF TypeInv, TypeOK, PlayerLoaded, InHeader, fileVars, audio_buffer_stats
<1>7. CASE UNCHANGED vars
  BY <1>7 DEF TypeInv, TypeOK, PlayerLoaded, InHeader, vars, gVars, fileVars
<1> QED BY <1>1, <1>2, <1>3, <1>4, <1>5, <1>6, <1>7 DEF Next

\* The strengthened typing holds throughout.
LEMMA TypeInvariant == Spec => []TypeInv
BY TypeInit, TypeNext, PTL DEF Spec

\* Every state of every instance has the right types; in particular the
\* part of the header a read returns is never negative.
THEOREM TypeCorrect == Spec => []TypeOK
BY TypeInvariant, PTL DEF TypeInv

-----------------------------------------------------------------------------
(* The buffer.                                                             *)

\* What any step may do to the buffer and the history.
BufferKeeps == UNCHANGED <<queue, nsamples, heard>>

BufferFlushed ==
    queue' = <<>> /\ nsamples' = nsamples - Len(queue) /\ heard' = heard

BufferRestarts == UNCHANGED <<queue, nsamples>> /\ heard' = <<>>

BufferTaken == \E k \in 0..Len(queue) : TakeFrames(k)

BufferExtended ==
    \E n \in 1..MaxChunk :
        /\ Room
        /\ player.state = "playing"
        /\ queue' = queue \o Segment(n)
        /\ nsamples' = nsamples + n
        /\ heard' = heard

LEMMA BufferStep ==
    [Next]_vars => \/ BufferKeeps \/ BufferFlushed \/ BufferRestarts
                   \/ BufferTaken \/ BufferExtended
<1> SUFFICES ASSUME [Next]_vars
             PROVE  \/ BufferKeeps \/ BufferFlushed \/ BufferRestarts
                    \/ BufferTaken \/ BufferExtended
  OBVIOUS
<1> USE DEF gVars
<1>1. ASSUME Client PROVE BufferKeeps
  BY <1>1 DEF Client, wav_open_test, wav_read, wav_release, BufferKeeps
<1>2. ASSUME NEW w \in Workers, play_track(w)
      PROVE  BufferKeeps \/ BufferFlushed \/ BufferRestarts
  BY <1>2 DEF play_track, play_track_test, play_track_flush, play_track_done,
              play_track_load, play_track_set, play_track_error, BufferKeeps,
              BufferFlushed, BufferRestarts, spfs_audio_playback_flush
<1>3. ASSUME NEW w \in Workers, seek_track(w)
      PROVE  BufferKeeps \/ BufferFlushed \/ BufferRestarts
  BY <1>3 DEF seek_track, seek_track_done, seek_track_player,
              seek_track_flush, BufferKeeps, BufferFlushed, BufferRestarts,
              spfs_audio_playback_flush
<1>4. ASSUME NEW w \in Workers, get_audio(w)
      PROVE  BufferKeeps \/ BufferTaken
  <2>1. CASE get_audio_take(w)
    BY <2>1 DEF get_audio_take, BufferTaken
  <2> QED BY <1>4, <2>1 DEF get_audio, get_audio_is_playing,
             get_audio_is_done, get_audio_eof, get_audio_wait, BufferKeeps
<1>5. ASSUME NEW w \in Workers,
             \/ wav_open_set(w) \/ get_track_info_header(w) \/ seek_test(w)
             \/ get_track_info_seek(w) \/ seek_expoff(w)
             \/ wav_read_finish(w) \/ spurious_wakeup(w)
      PROVE  BufferKeeps
  BY <1>5 DEF wav_open_set, get_track_info_header, seek_test,
              get_track_info_seek, seek_expoff, wav_read_finish,
              spurious_wakeup, BufferKeeps
<1>6. ASSUME Session PROVE BufferKeeps \/ BufferFlushed
  BY <1>6 DEF Session, end_of_track_flush, end_of_track_playing,
              end_of_track_done, play_token_lost, BufferKeeps, BufferFlushed,
              spfs_audio_playback_flush
<1>7. ASSUME Delivery PROVE BufferExtended
  BY <1>7 DEF Delivery, music_delivery, Push, BufferExtended
<1>8. ASSUME audio_buffer_stats \/ UNCHANGED vars PROVE BufferKeeps
  BY <1>8 DEF audio_buffer_stats, vars, BufferKeeps
<1> QED BY <1>1, <1>2, <1>3, <1>4, <1>5, <1>6, <1>7, <1>8 DEF Next, Serve

\* The accounting and the bound hold together: music_delivery tests the
\* count, the bound is on the queue.
BufferInv == BufferAccounting /\ BufferBounded

LEMMA BufferInit == Init => BufferInv
BY PlaybackAssumption
DEF Init, BufferInv, BufferAccounting, BufferBounded

LEMMA BufferNext == TypeInv /\ BufferInv /\ [Next]_vars => BufferInv'
<1> SUFFICES ASSUME TypeInv, BufferInv, [Next]_vars PROVE BufferInv'
  OBVIOUS
<1> USE DEF BufferInv, BufferAccounting, BufferBounded
<1>1. Len(queue) \in Nat /\ BufferLimit \in Nat /\ MaxChunk \in Nat
  BY PlaybackAssumption DEF TypeInv, TypeOK
<1>2. CASE BufferKeeps \/ BufferRestarts
  BY <1>2 DEF BufferKeeps, BufferRestarts
<1>3. CASE BufferFlushed
  BY <1>1, <1>3 DEF BufferFlushed
<1>4. CASE BufferTaken
  <2>1. PICK k \in 0..Len(queue) : TakeFrames(k)
    BY <1>4 DEF BufferTaken
  <2>2. Len(queue') = Len(queue) - k
    BY <2>1, TakeType DEF TypeInv
  <2>3. nsamples' = nsamples - k
    BY <2>1 DEF TakeFrames
  <2> QED BY <1>1, <2>2, <2>3
<1>5. CASE BufferExtended
  <2>1. PICK n \in 1..MaxChunk :
          /\ Room /\ player.state = "playing"
          /\ queue' = queue \o Segment(n) /\ nsamples' = nsamples + n
    BY <1>5 DEF BufferExtended
  <2>2. n \in Nat /\ n <= MaxChunk
    BY <1>1
  <2>3. Len(queue') = Len(queue) + n
    BY <2>1, <2>2, PushType DEF TypeInv
  <2>4. Len(queue) <= BufferLimit
    BY <2>1 DEF Room
  <2> QED BY <1>1, <2>1, <2>2, <2>3, <2>4
<1> QED BY <1>2, <1>3, <1>4, <1>5, BufferStep

LEMMA BufferInvariant == Spec => []BufferInv
BY TypeInvariant, BufferInit, BufferNext, PTL DEF Spec

\* However deliveries, partial takes and flushes interleave, nsamples is the
\* number of frames queued.
THEOREM AccountingCorrect == Spec => []BufferAccounting
BY BufferInvariant, PTL DEF BufferInv

\* The buffer holds at most its limit and one delivery.
THEOREM BufferBound == Spec => []BufferBounded
BY BufferInvariant, PTL DEF BufferInv

-----------------------------------------------------------------------------
(* Refinement of AudioStream.                                              *)

LEMMA StreamInit == Init => Stream!Init
BY DEF Init, Stream!Init

LEMMA StreamStep ==
    TypeInv /\ BufferInv /\ [Next]_vars => [Stream!Next]_(Stream!vars)
<1> SUFFICES ASSUME TypeInv, BufferInv, [Next]_vars
             PROVE  [Stream!Next]_(Stream!vars)
  OBVIOUS
<1>1. queue \in Seq(Frame) /\ heard \in Seq(Frame) /\ Len(queue) \in Nat
  BY DEF TypeInv, TypeOK
<1>2. CASE BufferKeeps
  BY <1>2 DEF BufferKeeps, Stream!vars
<1>3. CASE BufferFlushed
  BY <1>3 DEF BufferFlushed, Stream!Next, Stream!Discard
<1>4. CASE BufferRestarts
  BY <1>4 DEF BufferRestarts, Stream!Next, Stream!Reposition
<1>5. CASE BufferTaken
  <2>1. PICK k \in 0..Len(queue) : TakeFrames(k)
    BY <1>5 DEF BufferTaken
  <2>2. CASE k = 0
    <3>1. SubSeq(queue, 1, 0) = <<>> /\ SubSeq(queue, 1, Len(queue)) = queue
      BY <1>1
    <3>2. heard \o <<>> = heard
      BY <1>1
    <3>3. queue' = SubSeq(queue, 1, Len(queue))
      BY <2>1, <2>2 DEF TakeFrames
    <3>4. heard' = heard \o SubSeq(queue, 1, 0)
      BY <2>1, <2>2 DEF TakeFrames
    <3> QED BY <3>1, <3>2, <3>3, <3>4 DEF Stream!vars
  <2>3. CASE k # 0
    <3>1. k \in 1..Len(queue)
      BY <1>1, <2>3
    <3>2. /\ heard' = heard \o SubSeq(queue, 1, k)
          /\ queue' = SubSeq(queue, k + 1, Len(queue))
      BY <2>1 DEF TakeFrames
    <3>3. Stream!Take
      BY <3>1, <3>2 DEF Stream!Take
    <3> QED BY <3>3 DEF Stream!Next
  <2> QED BY <2>2, <2>3
<1>6. CASE BufferExtended
  <2>1. PICK n \in 1..MaxChunk :
          /\ Room /\ player.state = "playing"
          /\ queue' = queue \o Segment(n) /\ heard' = heard
    BY <1>6 DEF BufferExtended
  <2>2. n \in Nat
    BY PlaybackAssumption
  <2>3. Segment(n) \in Seq(Frame) /\ Len(Segment(n)) = n
    BY <2>1, <2>2, SegmentSeq DEF TypeInv
  <2>4. Len(queue') - Len(queue) \in 1..MaxChunk
    BY <1>1, <2>1, <2>3
  <2>5. queue = SubSeq(queue', 1, Len(queue))
    BY <1>1, <2>1, <2>3
  <2>6. Len(queue) <= BufferLimit
    BY <2>1 DEF Room, BufferInv, BufferAccounting
  <2> QED BY <2>1, <2>4, <2>5, <2>6 DEF Stream!Next, Stream!Deliver
<1> QED BY <1>2, <1>3, <1>4, <1>5, <1>6, BufferStep

\* The buffer of spotifile is a bounded first-in first-out stream.
THEOREM PlaybackImplementsStream == Spec => StreamSpec
BY TypeInvariant, BufferInvariant, StreamInit, StreamStep, PTL
DEF Spec, StreamSpec, Stream!Spec

-----------------------------------------------------------------------------
(* The track that plays.                                                   *)

\* Whoever is between the two halves of a load or of an end_of_track owns
\* the api mutex.
ApiOwner ==
    /\ \A w \in Workers : pc[w] = "play_set" <=> api_mutex = w
    /\ eot # "idle" <=> api_mutex = "session"

\* Between the halves of a load libspotify plays the loader's track.
LoadInProgress ==
    \A w \in Workers : pc[w] = "play_set" =>
        player.track = TrackFor(w) /\ player.state = "playing"

\* Once spotify_end_of_track has cleared playing nobody sets it before the
\* callback is over.
EndInProgress == eot = "done" => playing = NoTrack

PlayingInv == ApiOwner /\ LoadInProgress /\ EndInProgress
              /\ PlayingIsDelivered

LEMMA PlayingInit == Init => PlayingInv
BY MutexOwnerAssumption
DEF Init, PlayingInv, ApiOwner, LoadInProgress, EndInProgress,
    PlayingIsDelivered

\* A step that neither takes nor gives back the api mutex, leaves the player
\* and playing alone and moves at most worker w, to and from other labels
\* than play_set.
LEMMA PlayingKept ==
    ASSUME TypeInv, PlayingInv, NEW w \in Workers,
           NEW l \in Labels \ {"play_set"}, pc[w] # "play_set",
           pc' = [pc EXCEPT ![w] = l],
           \A v \in Workers \ {w} : job'[v] = job[v],
           player'.track = player.track, player'.state = player.state,
           UNCHANGED <<playing, api_mutex, eot>>
    PROVE  PlayingInv'
<1>1. pc' \in [Workers -> Labels] /\ \A v \in Workers :
        (pc'[v] = "play_set" <=> pc[v] = "play_set")
        /\ (pc[v] = "play_set" => job'[v] = job[v])
  BY DEF TypeInv, TypeOK
<1> QED BY <1>1 DEF PlayingInv, ApiOwner, LoadInProgress, EndInProgress,
                    PlayingIsDelivered, TrackFor

\* The same for a step that moves no worker.
LEMMA PlayingStill ==
    ASSUME PlayingInv, player'.track = player.track,
           player'.state = player.state,
           UNCHANGED <<playing, api_mutex, eot, pc, job>>
    PROVE  PlayingInv'
BY DEF PlayingInv, ApiOwner, LoadInProgress, EndInProgress,
       PlayingIsDelivered, TrackFor

\* Steps of a worker that are not the two halves of a load.
LEMMA PlayingOther ==
    ASSUME TypeInv, PlayingInv, NEW w \in Workers, Serve(w),
           ~ play_track_load(w), ~ play_track_set(w)
    PROVE  PlayingInv'
<1> DEFINE Move ==
      /\ pc[w] # "play_set"
      /\ \E l \in Labels \ {"play_set"} : pc' = [pc EXCEPT ![w] = l]
      /\ \A v \in Workers \ {w} : job'[v] = job[v]
      /\ player'.track = player.track /\ player'.state = player.state
      /\ UNCHANGED <<playing, api_mutex, eot>>
<1>1. Move => PlayingInv'
  BY PlayingKept
<1> USE DEF At, Goto, Step, Return, gVars
<1>2. job \in [Workers -> Job] /\ pc \in [Workers -> Labels]
  BY DEF TypeInv, TypeOK
<1>3. CASE wav_open_set(w) \/ wav_read_finish(w)
  BY <1>1, <1>2, <1>3 DEF wav_open_set, wav_read_finish, Labels
<1>4. CASE \/ play_track_test(w) \/ play_track_done(w) \/ play_track_error(w)
           \/ play_track_flush(w)
  BY <1>1, <1>2, <1>4
  DEF play_track_test, play_track_done, play_track_error, play_track_flush,
      spfs_audio_playback_flush, Labels
<1>5. CASE get_track_info_header(w)
  BY <1>1, <1>2, <1>5
  DEF get_track_info_header, get_track_info_error, get_track_info_sleep,
      get_track_info_ok, Labels
<1>6. CASE get_track_info_seek(w)
  BY <1>1, <1>2, <1>6
  DEF get_track_info_seek, get_track_info_error, get_track_info_sleep,
      get_track_info_ok, Labels
<1>7. CASE seek_test(w) \/ seek_expoff(w)
  BY <1>1, <1>2, <1>7 DEF seek_test, seek_expoff, AfterSeek, Labels
<1>8. CASE seek_track(w)
  <2>1. player'.track = player.track /\ player'.state = player.state
    BY <1>8 DEF seek_track, seek_track_done, seek_track_player,
                seek_track_flush, TypeInv, TypeOK
  <2> QED BY <1>1, <1>2, <1>8, <2>1
          DEF seek_track, seek_track_done, seek_track_player,
              seek_track_flush, spfs_audio_playback_flush, Labels
<1>9. CASE get_audio_wait(w)
  BY <1>9, PlayingStill DEF get_audio_wait
<1>10. CASE get_audio_is_playing(w) \/ get_audio_is_done(w) \/ get_audio_eof(w)
  BY <1>1, <1>2, <1>10
  DEF get_audio_is_playing, get_audio_is_done, get_audio_eof, Labels
<1>11. CASE get_audio_take(w)
  BY <1>1, <1>2, <1>11 DEF get_audio_take, TakeFrames, Labels
<1> QED BY <1>3, <1>4, <1>5, <1>6, <1>7, <1>8, <1>9, <1>10, <1>11
        DEF Serve, play_track, get_audio

LEMMA PlayingNext == TypeInv /\ PlayingInv /\ [Next]_vars => PlayingInv'
<1> SUFFICES ASSUME TypeInv, PlayingInv, [Next]_vars PROVE PlayingInv'
  OBVIOUS
<1>1. /\ job \in [Workers -> Job] /\ pc \in [Workers -> Labels]
      /\ player \in [track : Tracks \cup {NoTrack}, pos : Nat,
                     state : PlayerStates]
  BY DEF TypeInv, TypeOK
<1>2. ASSUME NEW w \in Workers, NEW h \in Handles, wav_open_test(w, h)
      PROVE  PlayingInv'
  BY <1>1, <1>2, PlayingKept
  DEF wav_open_test, Step, At, Goto, Labels, gVars
<1>3. ASSUME NEW w \in Workers, NEW h \in Handles, NEW o \in Offsets,
             NEW s \in Sizes, wav_read(w, h, o, s)
      PROVE  PlayingInv'
  <2> DEFINE l == IF o = 0 THEN "play_test"
                  ELSE IF o < HeaderLen THEN "head_info" ELSE "seek_test"
  <2>1. pc' = [pc EXCEPT ![w] = l]
    BY <1>3 DEF wav_read, Goto
  <2>2. l \in Labels \ {"play_set"}
    BY DEF Labels
  <2> HIDE DEF l
  <2> QED BY <1>1, <1>3, <2>1, <2>2, PlayingKept DEF wav_read, At, gVars
<1>4. ASSUME NEW h \in Handles, wav_release(h) PROVE PlayingInv'
  BY <1>4, PlayingStill DEF wav_release, gVars
<1>5. ASSUME NEW w \in Workers, play_track_load(w) PROVE PlayingInv'
  <2>1. /\ pc' = [pc EXCEPT ![w] = "play_set"] /\ UNCHANGED <<job, playing, eot>>
        /\ api_mutex = "free" /\ api_mutex' = w
        /\ player'.track = TrackFor(w) /\ player'.state = "playing"
    BY <1>5 DEF play_track_load, Step, At, Goto, gVars
  <2>2. \A v \in Workers : pc[v] # "play_set"
    BY <2>1, MutexOwnerAssumption DEF PlayingInv, ApiOwner
  <2>3. \A v \in Workers : pc'[v] = "play_set" <=> v = w
    BY <1>1, <2>1, <2>2
  <2>4. eot = "idle"
    BY <2>1, MutexOwnerAssumption DEF PlayingInv, ApiOwner
  <2> QED BY <2>1, <2>3, <2>4, MutexOwnerAssumption
          DEF PlayingInv, ApiOwner, LoadInProgress, EndInProgress,
              PlayingIsDelivered, TrackFor
<1>6. ASSUME NEW w \in Workers, play_track_set(w) PROVE PlayingInv'
  <2>1. /\ pc[w] = "play_set" /\ pc' = [pc EXCEPT ![w] = "head_info"]
        /\ UNCHANGED <<job, player, eot>>
        /\ api_mutex' = "free" /\ playing' = TrackFor(w)
    BY <1>6 DEF play_track_set, Step, At, Goto
  <2>2. \A v \in Workers : pc[v] = "play_set" <=> v = w
    BY <2>1 DEF PlayingInv, ApiOwner
  <2>3. \A v \in Workers : pc'[v] # "play_set"
    BY <1>1, <2>1, <2>2
  <2>4. eot = "idle"
    BY <2>1, MutexOwnerAssumption DEF PlayingInv, ApiOwner
  <2> QED BY <2>1, <2>3, <2>4, MutexOwnerAssumption
          DEF PlayingInv, ApiOwner, LoadInProgress, EndInProgress,
              PlayingIsDelivered, TrackFor
<1>7. CASE end_of_track_flush
  BY <1>1, <1>7, MutexOwnerAssumption
  DEF end_of_track_flush, PlayingInv, ApiOwner, LoadInProgress,
      EndInProgress, PlayingIsDelivered, TrackFor
<1>8. CASE end_of_track_playing
  BY <1>1, <1>8, MutexOwnerAssumption
  DEF end_of_track_playing, PlayingInv, ApiOwner, LoadInProgress,
      EndInProgress, PlayingIsDelivered, TrackFor
<1>9. CASE end_of_track_done
  BY <1>1, <1>9, MutexOwnerAssumption
  DEF end_of_track_done, PlayingInv, ApiOwner, LoadInProgress,
      EndInProgress, PlayingIsDelivered, TrackFor, gVars
<1>10. CASE play_token_lost
  BY <1>1, <1>10, MutexOwnerAssumption
  DEF play_token_lost, StopPlaying, PlayingInv, ApiOwner, LoadInProgress,
      EndInProgress, PlayingIsDelivered, TrackFor
<1>11. CASE Delivery
  BY <1>1, <1>11, PlayingStill DEF Delivery, music_delivery, Push
<1>12. ASSUME NEW w \in Workers, spurious_wakeup(w) PROVE PlayingInv'
  BY <1>12, PlayingStill DEF spurious_wakeup, gVars
<1>13. CASE audio_buffer_stats \/ UNCHANGED vars
  BY <1>13, PlayingStill DEF audio_buffer_stats, vars, gVars
<1> QED BY <1>2, <1>3, <1>4, <1>5, <1>6, <1>7, <1>8, <1>9, <1>10, <1>11,
           <1>12, <1>13, PlayingOther DEF Next, Client, Session

\* Outside a load and an end_of_track the track that g_playback names is the
\* track libspotify plays: the api mutex keeps two loads, and a load and a
\* callback, from interleaving.
THEOREM PlayingCorrect == Spec => []PlayingIsDelivered
<1>1. PlayingInv => PlayingIsDelivered
  BY DEF PlayingInv
<1> QED BY <1>1, TypeInvariant, PlayingInit, PlayingNext, PTL DEF Spec

-----------------------------------------------------------------------------
(* One worker.                                                             *)

\* FUSE runs with -s: what one read does no other read interrupts.
OneWorker == \A v, w \in Workers : v = w

-----------------------------------------------------------------------------
(* Sleeping and handles.                                                   *)

LEMMA SleepNext ==
    ASSUME OneWorker, TypeInv, NoSleepOnData, [Next]_vars
    PROVE  NoSleepOnData'
<1> USE DEF NoSleepOnData
<1>0. queue \in Seq(Frame) /\ asleep \subseteq Workers
  BY DEF TypeInv, TypeOK
<1>1. ASSUME Signal PROVE asleep' = {}
  BY <1>0, <1>1 DEF Signal, OneWorker
<1>2. ASSUME NEW w \in Workers, w \notin asleep PROVE asleep = {}
  BY <1>0, <1>2 DEF OneWorker
<1> USE DEF gVars, At, Step
<1>3. CASE Client
  BY <1>3 DEF Client, wav_open_test, wav_read, wav_release
<1>4. ASSUME NEW w \in Workers, play_track(w) PROVE NoSleepOnData'
  BY <1>1, <1>4 DEF play_track, play_track_test, play_track_flush,
     play_track_done, play_track_load, play_track_set, play_track_error,
     spfs_audio_playback_flush
<1>5. ASSUME NEW w \in Workers, seek_track(w) PROVE NoSleepOnData'
  BY <1>1, <1>5 DEF seek_track, seek_track_done, seek_track_player,
     seek_track_flush, spfs_audio_playback_flush
<1>6. ASSUME NEW w \in Workers, get_audio(w) PROVE NoSleepOnData'
  <2>1. CASE get_audio_take(w)
    BY <1>2, <2>1 DEF get_audio_take
  <2>2. CASE get_audio_wait(w)
    BY <2>2 DEF get_audio_wait
  <2> QED BY <1>6, <2>1, <2>2 DEF get_audio, get_audio_is_playing,
             get_audio_is_done, get_audio_eof
<1>7. ASSUME NEW w \in Workers,
             get_track_info_header(w) \/ get_track_info_seek(w)
      PROVE  NoSleepOnData'
  BY <1>7 DEF get_track_info_header, get_track_info_seek,
     get_track_info_error, get_track_info_sleep, get_track_info_ok
<1>8. ASSUME NEW w \in Workers,
             \/ wav_open_set(w) \/ seek_test(w) \/ seek_expoff(w)
             \/ wav_read_finish(w) \/ spurious_wakeup(w)
      PROVE  NoSleepOnData'
  BY <1>8 DEF wav_open_set, seek_test, seek_expoff, wav_read_finish,
     spurious_wakeup
<1>9. CASE Session
  BY <1>1, <1>9 DEF Session, end_of_track_flush, end_of_track_playing,
     end_of_track_done, play_token_lost, StopPlaying,
     spfs_audio_playback_flush
<1>10. CASE Delivery
  BY <1>1, <1>10 DEF Delivery, music_delivery, Push
<1>11. CASE audio_buffer_stats \/ UNCHANGED vars
  BY <1>11 DEF audio_buffer_stats, vars
<1> QED BY <1>3, <1>4, <1>5, <1>6, <1>7, <1>8, <1>9, <1>10, <1>11
        DEF Next, Serve

\* With one worker no wakeup is lost to a delivery: nobody sleeps on data.
THEOREM NobodySleepsOnData ==
    ASSUME OneWorker PROVE Spec => []NoSleepOnData
<1>1. Init => NoSleepOnData
  BY DEF Init, NoSleepOnData
<1>2. TypeInv /\ NoSleepOnData /\ [Next]_vars => NoSleepOnData'
  BY SleepNext
<1> QED BY <1>1, <1>2, TypeInvariant, PTL DEF Spec

\* One handle is open at most, and only an open one is read or primed.
HandleInv ==
    /\ \A g, h \in opened : g = h
    /\ music_playing <=> opened # {}
    /\ primed \subseteq opened
    /\ \A w \in Workers :
          /\ pc[w] = "open_set" => opened = {}
          /\ pc[w] \notin {"idle", "open_set"} => job[w].handle \in opened

\* A step that moves w within a read, or nobody, keeps the handles.
LEMMA HandleKept ==
    ASSUME OneWorker, TypeInv, HandleInv, NEW w \in Workers,
           UNCHANGED <<music_playing, opened, primed>>,
           \/ UNCHANGED <<pc, job>>
           \/ /\ pc[w] \notin {"idle", "open_set"}
              /\ \E l \in Labels \ {"open_set"} : pc' = [pc EXCEPT ![w] = l]
              /\ pc'[w] = "idle" \/ job'[w].handle = job[w].handle
    PROVE  HandleInv'
<1>1. pc \in [Workers -> Labels] /\ job \in [Workers -> Job]
  BY DEF TypeInv, TypeOK
<1> QED BY <1>1 DEF HandleInv, OneWorker

LEMMA HandleNext ==
    ASSUME OneWorker, TypeInv, HandleInv, [Next]_vars
    PROVE  HandleInv'
<1> USE DEF gVars, fileVars, At, Goto, Step, Return
<1>0. /\ pc \in [Workers -> Labels] /\ job \in [Workers -> Job]
      /\ pc' \in [Workers -> Labels] /\ job' \in [Workers -> Job]
  BY TypeNext DEF TypeInv, TypeOK
<1>1. ASSUME NEW w \in Workers, NEW h \in Handles, wav_open_test(w, h)
      PROVE  HandleInv'
  BY <1>0, <1>1 DEF wav_open_test, Busy, HandleInv, OneWorker
<1>2. ASSUME NEW w \in Workers, NEW h \in Handles, NEW o \in Offsets,
             NEW s \in Sizes, wav_read(w, h, o, s)
      PROVE  HandleInv'
  BY <1>0, <1>2 DEF wav_read, HandleInv, OneWorker
<1>3. ASSUME NEW h \in Handles, wav_release(h) PROVE HandleInv'
  BY <1>0, <1>3 DEF wav_release, HandleInv, OneWorker
<1>4. ASSUME NEW w \in Workers, wav_open_set(w) PROVE HandleInv'
  BY <1>0, <1>4 DEF wav_open_set, HandleInv, OneWorker
<1>5. ASSUME NEW w \in Workers, wav_read_finish(w) PROVE HandleInv'
  BY <1>0, <1>5 DEF wav_read_finish, HandleInv, OneWorker
<1>6. ASSUME NEW w \in Workers, play_track(w) PROVE HandleInv'
  BY <1>0, <1>6, HandleKept
  DEF play_track, play_track_test, play_track_flush, play_track_done,
      play_track_load, play_track_set, play_track_error, Labels
<1>7. ASSUME NEW w \in Workers,
             get_track_info_header(w) \/ get_track_info_seek(w)
      PROVE  HandleInv'
  <2>1. /\ pc[w] \notin {"idle", "open_set"}
        /\ \E l \in Labels \ {"open_set"} : pc' = [pc EXCEPT ![w] = l]
        /\ UNCHANGED <<music_playing, opened, primed>>
    BY <1>7
    DEF get_track_info_header, get_track_info_seek, get_track_info_error,
        get_track_info_sleep, get_track_info_ok, Labels
  <2>2. pc'[w] = "idle" \/ job'[w].handle = job[w].handle
    BY <1>0, <1>7
    DEF get_track_info_header, get_track_info_seek, get_track_info_error,
        get_track_info_sleep, get_track_info_ok, Job
  <2> QED BY <2>1, <2>2, HandleKept
<1>8. ASSUME NEW w \in Workers,
             seek_track(w) \/ seek_test(w) \/ seek_expoff(w)
      PROVE  HandleInv'
  BY <1>0, <1>8, HandleKept
  DEF seek_track, seek_track_done, seek_track_player, seek_track_flush,
      seek_test, seek_expoff, AfterSeek, Labels
<1>9. ASSUME NEW w \in Workers, get_audio(w) PROVE HandleInv'
  <2>1. CASE get_audio_take(w)
    <3>1. PICK k \in 0..Len(queue) :
            job' = [job EXCEPT ![w].read = @ + k]
      BY <2>1 DEF get_audio_take
    <3>2. job'[w].handle = job[w].handle
      BY <1>0, <3>1 DEF Job
    <3> QED BY <1>0, <2>1, <3>2, HandleKept DEF get_audio_take, Labels
  <2> QED BY <1>0, <1>9, <2>1, HandleKept
          DEF get_audio, get_audio_is_playing, get_audio_is_done,
              get_audio_eof, get_audio_wait, Labels
<1>10. CASE \/ Session \/ Delivery \/ audio_buffer_stats \/ UNCHANGED vars
            \/ \E w \in Workers : spurious_wakeup(w)
  <2>1. UNCHANGED <<music_playing, opened, primed, pc, job>>
    BY <1>10 DEF Session, end_of_track_flush, end_of_track_playing,
       end_of_track_done, play_token_lost, Delivery, music_delivery,
       audio_buffer_stats, spurious_wakeup, vars
  <2> QED BY <2>1 DEF HandleInv
<1> QED BY <1>1, <1>2, <1>3, <1>4, <1>5, <1>6, <1>7, <1>8, <1>9, <1>10
        DEF Next, Client, Serve

LEMMA HandleInvariant == ASSUME OneWorker PROVE Spec => []HandleInv
<1>1. Init => HandleInv
  BY DEF Init, HandleInv
<1>2. TypeInv /\ HandleInv /\ [Next]_vars => HandleInv'
  BY HandleNext
<1> QED BY <1>1, <1>2, TypeInvariant, PTL DEF Spec

\* With one worker -EBUSY keeps a second file from being opened, and the
\* last release makes the device free.
THEOREM OneFileIsOpen == ASSUME OneWorker PROVE Spec => []OneOpenHandle
<1>1. HandleInv => OneOpenHandle
  <2> SUFFICES ASSUME HandleInv PROVE OneOpenHandle
    OBVIOUS
  <2>1. CASE opened = {}
    BY <2>1, FS_EmptySet DEF HandleInv, OneOpenHandle
  <2>2. CASE opened # {}
    <3>1. PICK h \in opened : TRUE
      BY <2>2
    <3>2. opened = {h}
      BY <3>1 DEF HandleInv
    <3>3. Cardinality(opened) = 1
      BY <3>2, FS_Singleton
    <3> QED BY <2>2, <3>3 DEF HandleInv, OneOpenHandle
  <2> QED BY <2>1, <2>2
<1> QED BY <1>1, HandleInvariant, PTL

-----------------------------------------------------------------------------
(* What a read knows of the player, for clients that begin at offset 0.    *)

\* Labels of a worker whose track is not loaded yet, of a read at offset 0
\* until it is, of a read with its header, and of one whose track is loaded.
BeforeLoad == {"idle", "open_set", "play_test", "play_flush", "play_done",
               "play_load"}

Loading == {"play_test", "play_flush", "play_done", "play_load", "play_set"}

AfterHeader == {"seek_test", "seek_info", "seek_wait", "seek_done",
                "seek_player", "seek_flush", "seek_expoff", "audio_playing",
                "audio_done", "audio_eof", "audio_take", "finish"}

AfterLoad == {"play_set", "head_info", "head_wait"} \cup AfterHeader

\* Only reads at offset 0 load a track, others are of a primed handle; a
\* read at offset 0 gets at least a byte of the header.
StartInv ==
    \A w \in Workers :
        /\ pc[w] \in Loading => job[w].offset = 0
        /\ pc[w] \notin {"idle", "open_set"} => job[w].size > 0
        /\ pc[w] \notin {"idle", "open_set"} /\ job[w].offset # 0 =>
              job[w].handle \in primed
        /\ pc[w] \in AfterHeader /\ job[w].offset = 0 => job[w].read > 0

\* playing is the loaded track, and so is the track of a primed handle and
\* of a read that has passed the load.
TrackInv ==
    /\ (\A w \in Workers : pc[w] # "play_set") =>
          /\ playing # NoTrack => player.track = playing
          /\ player.state = "playing" => playing = player.track
    /\ eot # "idle" => player.state # "playing"
    /\ \A h \in primed : player.track = TrackOf[h]
    /\ \A w \in Workers :
          /\ pc[w] \in {"play_flush", "play_done", "play_load"} =>
                playing # TrackFor(w)
          /\ pc[w] \in AfterLoad => player.track = TrackFor(w)

\* While libspotify delivers, expoff is zero only within the first read.
ExpoffInv ==
    player.state = "playing" =>
        \A w \in Workers :
            /\ pc[w] \in BeforeLoad => expoff > 0
            /\ pc[w] \in AfterLoad /\ expoff = 0 => job[w].offset = 0

ReadInv == StartInv /\ TrackInv /\ ExpoffInv

\* A read that begins in the header returns some of it.
LEMMA HeaderBytesPositive ==
    ASSUME NEW o \in Nat, o < HeaderLen, NEW s \in Nat \ {0}
    PROVE  HeaderBytes(o, s) > 0
BY PlaybackAssumption DEF HeaderBytes, Lesser

LEMMA ReadInit == Init => ReadInv
BY DEF Init, ReadInv, StartInv, TrackInv, ExpoffInv, Loading, AfterLoad,
       AfterHeader

\* Requests arriving from and returning to the kernel.
LEMMA ReadClient ==
    ASSUME OneWorker, HeaderFirst, TypeInv, PlayingInv, HandleInv, ReadInv,
           Client
    PROVE  ReadInv'
<1> USE DEF gVars, fileVars, At, Goto, Step, Return, OneWorker, Loading,
            BeforeLoad, AfterHeader, AfterLoad, StartInv, TrackInv,
            ExpoffInv, ReadInv
<1>0. /\ pc \in [Workers -> Labels] /\ job \in [Workers -> Job]
      /\ expoff \in Nat
  BY DEF TypeInv, TypeOK
<1>1. ASSUME NEW w \in Workers, NEW h \in Handles, wav_open_test(w, h)
      PROVE  ReadInv'
  BY <1>0, <1>1 DEF wav_open_test
<1>2. ASSUME NEW w \in Workers, NEW h \in Handles, NEW o \in Offsets,
             NEW s \in Sizes, wav_read(w, h, o, s)
      PROVE  ReadInv'
  <2>1. /\ pc[w] = "idle" /\ h \in opened
        /\ o # 0 => h \in primed
        /\ s > 0
        /\ job' = [job EXCEPT ![w] = [handle |-> h, offset |-> o,
                                      size |-> s, read |-> 0]]
        /\ UNCHANGED <<playing, player, eot, primed, expoff>>
    BY <1>2, PlaybackAssumption DEF wav_read
  <2>2. /\ job'[w].handle = h /\ job'[w].offset = o /\ job'[w].size = s
    BY <1>0, <2>1
  <2>3. \/ o = 0 /\ pc' = [pc EXCEPT ![w] = "play_test"]
        \/ o # 0 /\ pc' = [pc EXCEPT ![w] = "head_info"]
        \/ o # 0 /\ pc' = [pc EXCEPT ![w] = "seek_test"]
    BY <1>2 DEF wav_read
  <2>4. TrackFor(w)' = TrackOf[h]
    BY <2>2 DEF TrackFor
  <2>5. StartInv'
    BY <1>0, <2>1, <2>2, <2>3
  <2>6. TrackInv'
    BY <1>0, <2>1, <2>3, <2>4
  <2>7. ExpoffInv'
    BY <1>0, <2>1, <2>2, <2>3
  <2> QED BY <2>5, <2>6, <2>7
<1>3. ASSUME NEW h \in Handles, wav_release(h) PROVE ReadInv'
  <2>1. \A w \in Workers : pc[w] = "idle"
    BY <1>3 DEF wav_release
  <2>2. /\ UNCHANGED <<pc, job, playing, player, eot, expoff>>
        /\ primed' \subseteq primed
    BY <1>3 DEF wav_release
  <2> QED BY <2>1, <2>2
<1> QED BY <1>1, <1>2, <1>3 DEF Client

\* spotify_play_track.
LEMMA ReadPlay ==
    ASSUME OneWorker, HeaderFirst, TypeInv, PlayingInv, HandleInv, ReadInv,
           NEW w \in Workers, play_track(w)
    PROVE  ReadInv'
<1> USE DEF gVars, fileVars, At, Goto, Step, Return, OneWorker, Loading,
            BeforeLoad, AfterHeader, AfterLoad, StartInv, TrackInv,
            ExpoffInv, ReadInv, TrackFor
<1>0. /\ pc \in [Workers -> Labels] /\ job \in [Workers -> Job]
      /\ expoff \in Nat /\ TrackFor(w) # NoTrack
  BY TrackForType, PlaybackAssumption DEF TypeInv, TypeOK
<1>1. CASE play_track_test(w)
  BY <1>0, <1>1 DEF play_track_test, OwnTrackPlays
<1>2. CASE play_track_flush(w)
  BY <1>0, <1>2 DEF play_track_flush
<1>3. CASE play_track_done(w)
  BY <1>0, <1>3 DEF play_track_done
<1>4. CASE play_track_load(w)
  <2>1. player'.track = TrackFor(w) /\ job' = job /\ primed' = primed
        /\ pc[w] = "play_load" /\ pc' = [pc EXCEPT ![w] = "play_set"]
        /\ UNCHANGED <<playing, eot, expoff>> /\ api_mutex = "free"
    BY <1>4 DEF play_track_load
  <2>2. eot = "idle"
    BY <2>1, MutexOwnerAssumption DEF PlayingInv, ApiOwner
  <2>3. \A h \in primed : h = job[w].handle
    BY <2>1 DEF HandleInv
  <2> QED BY <1>0, <2>1, <2>2, <2>3
<1>5. CASE play_track_set(w)
  BY <1>0, <1>5 DEF play_track_set
<1>6. CASE play_track_error(w)
  BY <1>0, <1>6 DEF play_track_error
<1> QED BY <1>1, <1>2, <1>3, <1>4, <1>5, <1>6 DEF play_track

\* spotify_get_track_info, for the header and for a seek.
LEMMA ReadInfo ==
    ASSUME OneWorker, HeaderFirst, TypeInv, HandleInv, ReadInv,
           NEW w \in Workers,
           get_track_info_header(w) \/ get_track_info_seek(w)
    PROVE  ReadInv'
<1> USE DEF gVars, fileVars, At, Goto, Step, Return, OneWorker, Loading,
            BeforeLoad, AfterHeader, AfterLoad, StartInv, TrackInv,
            ExpoffInv, ReadInv, TrackFor
<1>0. /\ pc \in [Workers -> Labels] /\ job \in [Workers -> Job]
      /\ expoff \in Nat /\ TrackFor(w) # NoTrack
  BY TrackForType, PlaybackAssumption DEF TypeInv, TypeOK
<1>1. /\ pc[w] \in {"head_info", "head_wait", "seek_info", "seek_wait"}
      /\ UNCHANGED <<playing, player, eot, expoff, primed>>
  BY <1>0 DEF get_track_info_header, get_track_info_seek,
     get_track_info_error, get_track_info_sleep, get_track_info_ok
<1>2. CASE /\ pc' = [pc EXCEPT ![w] = "idle"]
           /\ playing = NoTrack
  <2>1. player.state # "playing"
    BY <1>0, <1>1, <1>2, PlaybackAssumption DEF TypeInv, PlayerLoaded
  <2> QED BY <1>0, <1>1, <1>2, <2>1
<1>3. CASE /\ \/ /\ pc[w] \in {"head_info", "head_wait"}
                 /\ pc' = [pc EXCEPT ![w] = "head_wait"]
              \/ /\ pc[w] \in {"seek_info", "seek_wait"}
                 /\ \/ pc' = [pc EXCEPT ![w] = "seek_wait"]
                    \/ pc' = [pc EXCEPT ![w] = "seek_done"]
           /\ job' = job
  BY <1>0, <1>1, <1>3
<1>4. CASE /\ pc[w] \in {"head_info", "head_wait"}
           /\ pc' = [pc EXCEPT ![w] = "seek_test"]
           /\ job' = [job EXCEPT ![w].read =
                         HeaderBytes(job[w].offset, job[w].size)]
  <2>1. /\ job[w].offset \in Nat /\ job[w].offset < HeaderLen
        /\ job[w].size \in Nat \ {0}
    BY <1>0, <1>4 DEF TypeInv, InHeader, HeaderLabels, Job
  <2>2. HeaderBytes(job[w].offset, job[w].size) > 0
    BY <2>1, HeaderBytesPositive
  <2>3. /\ job'[w].read > 0 /\ job'[w].offset = job[w].offset
        /\ job'[w].handle = job[w].handle /\ job'[w].size = job[w].size
    BY <1>0, <1>4, <2>2 DEF Job
  <2> QED BY <1>0, <1>1, <1>4, <2>3
<1>5. CASE get_track_info_header(w)
  BY <1>2, <1>3, <1>4, <1>5
  DEF get_track_info_header, get_track_info_error, get_track_info_sleep,
      get_track_info_ok
<1>6. CASE get_track_info_seek(w)
  BY <1>2, <1>3, <1>6
  DEF get_track_info_seek, get_track_info_error, get_track_info_sleep,
      get_track_info_ok
<1> QED BY <1>5, <1>6

\* The seek of wav_read.
LEMMA ReadSeek ==
    ASSUME OneWorker, HeaderFirst, TypeInv, ReadInv, NEW w \in Workers,
           seek_test(w) \/ seek_track(w) \/ seek_expoff(w)
    PROVE  ReadInv'
<1> USE DEF OneWorker, Loading, BeforeLoad, AfterHeader, AfterLoad, StartInv,
            TrackInv, ExpoffInv, ReadInv, TrackFor
<1>0. /\ pc \in [Workers -> Labels] /\ job \in [Workers -> Job]
      /\ expoff \in Nat /\ job[w].offset \in Nat
      /\ player \in [track : Tracks \cup {NoTrack}, pos : Nat,
                     state : PlayerStates]
  BY DEF TypeInv, TypeOK, Job
<1>1. /\ pc[w] \in AfterHeader
      /\ \E l \in AfterHeader : pc' = [pc EXCEPT ![w] = l]
      /\ UNCHANGED <<job, playing, eot, primed>>
      /\ player'.track = player.track /\ player'.state = player.state
  BY <1>0 DEF seek_test, seek_expoff, seek_track, seek_track_done,
     seek_track_player, seek_track_flush, AfterSeek, gVars, fileVars, At,
     Goto, Step
<1>2. expoff' = expoff \/ expoff' = job[w].offset
  BY DEF seek_test, seek_expoff, seek_track, seek_track_done,
     seek_track_player, seek_track_flush, fileVars
<1> QED BY <1>0, <1>1, <1>2

\* spotify_get_audio and the end of wav_read.
LEMMA ReadAudio ==
    ASSUME OneWorker, HeaderFirst, TypeInv, HandleInv, ReadInv,
           NEW w \in Workers, get_audio(w) \/ wav_read_finish(w)
    PROVE  ReadInv'
<1> USE DEF gVars, fileVars, At, Goto, Step, OneWorker, Loading, BeforeLoad,
            AfterHeader, AfterLoad, StartInv, TrackInv, ExpoffInv, ReadInv,
            TrackFor
<1>0. /\ pc \in [Workers -> Labels] /\ job \in [Workers -> Job]
      /\ expoff \in Nat /\ job[w].offset \in Nat /\ job[w].read \in Nat
  BY DEF TypeInv, TypeOK, Job
<1>1. CASE get_audio_take(w)
  <2>1. PICK k \in 0..Len(queue) : job' = [job EXCEPT ![w].read = @ + k]
    BY <1>1 DEF get_audio_take
  <2>2. Len(queue) \in Nat
    BY DEF TypeInv, TypeOK
  <2>3. /\ job'[w].offset = job[w].offset /\ job'[w].size = job[w].size
        /\ job'[w].handle = job[w].handle /\ job'[w].read = job[w].read + k
    BY <1>0, <2>1 DEF Job
  <2> QED BY <1>0, <1>1, <2>2, <2>3 DEF get_audio_take
<1>2. CASE wav_read_finish(w)
  <2>1. /\ pc[w] = "finish" /\ pc' = [pc EXCEPT ![w] = "idle"]
        /\ UNCHANGED <<playing, player, eot>>
        /\ expoff' = expoff + job[w].read
        /\ \/ primed' = primed
           \/ primed' = primed \cup {job[w].handle}
    BY <1>2 DEF wav_read_finish, Return
  <2>2. player.state = "playing" => expoff' > 0
    BY <1>0, <2>1
  <2> QED BY <1>0, <2>1, <2>2
<1>3. CASE get_audio_wait(w)
  BY <1>3 DEF get_audio_wait
<1>4. CASE get_audio_is_playing(w) \/ get_audio_is_done(w) \/ get_audio_eof(w)
  BY <1>0, <1>4 DEF get_audio_is_playing, get_audio_is_done, get_audio_eof
<1> QED BY <1>1, <1>2, <1>3, <1>4 DEF get_audio

LEMMA ReadNext ==
    ASSUME OneWorker, HeaderFirst, TypeInv, PlayingInv, HandleInv, ReadInv,
           [Next]_vars
    PROVE  ReadInv'
<1> USE DEF OneWorker, Loading, BeforeLoad, AfterHeader, AfterLoad, StartInv,
            TrackInv, ExpoffInv, ReadInv, TrackFor
<1>0. player \in [track : Tracks \cup {NoTrack}, pos : Nat,
                  state : PlayerStates]
  BY DEF TypeInv, TypeOK
<1>1. CASE Session
  <2>1. UNCHANGED <<pc, job, expoff, primed>> /\ player'.track = player.track
    BY <1>0, <1>1 DEF Session, end_of_track_flush, end_of_track_playing,
       end_of_track_done, play_token_lost, fileVars
  <2>2. CASE end_of_track_flush
    BY <1>0, <2>1, <2>2 DEF end_of_track_flush, PlayingInv,
       PlayingIsDelivered
  <2>3. CASE end_of_track_playing
    BY <1>0, <2>1, <2>3, TrackForType, PlaybackAssumption
    DEF end_of_track_playing, TypeInv
  <2>4. CASE end_of_track_done
    BY <2>1, <2>4 DEF end_of_track_done, gVars
  <2>5. CASE play_token_lost
    BY <1>0, <2>1, <2>5, TrackForType, PlaybackAssumption
    DEF play_token_lost, StopPlaying, TypeInv
  <2> QED BY <1>1, <2>2, <2>3, <2>4, <2>5 DEF Session
<1>2. CASE \/ Delivery \/ audio_buffer_stats \/ UNCHANGED vars
           \/ \E w \in Workers : spurious_wakeup(w)
  <2>1. /\ UNCHANGED <<pc, job, expoff, primed, playing, eot>>
        /\ player'.track = player.track /\ player'.state = player.state
    BY <1>0, <1>2 DEF Delivery, music_delivery, audio_buffer_stats,
       spurious_wakeup, vars, gVars, fileVars
  <2> QED BY <2>1
<1>3. ASSUME NEW w \in Workers, wav_open_set(w) PROVE ReadInv'
  <2>1. pc \in [Workers -> Labels]
    BY DEF TypeInv, TypeOK
  <2> QED BY <1>3, <2>1 DEF wav_open_set, At, Goto, Return, gVars
<1> QED BY <1>1, <1>2, <1>3, ReadClient, ReadPlay, ReadInfo, ReadSeek,
           ReadAudio DEF Next, Serve

LEMMA ReadInvariant ==
    ASSUME OneWorker, HeaderFirst
    PROVE  Spec => [](TypeInv /\ PlayingInv /\ HandleInv /\ ReadInv)
<1>1. TypeInv /\ PlayingInv /\ HandleInv /\ ReadInv /\ [Next]_vars => ReadInv'
  BY ReadNext
<1> QED BY <1>1, TypeInvariant, PlayingInit, PlayingNext, HandleInvariant,
           ReadInit, PTL DEF Spec

-----------------------------------------------------------------------------
(* What clients hear.                                                      *)

\* The queue holds the last frames that were delivered.
Clean ==
    \A i \in 1..Len(queue) :
        /\ queue[i].track = player.track
        /\ queue[i].pos = player.pos - Len(queue) + i - 1

\* What was heard are the frames delivered before those.
Joined ==
    \A i \in 1..Len(heard) :
        /\ heard[i].track = player.track
        /\ heard[i].pos = player.pos - Len(queue) - Len(heard) + i - 1

\* Reading on leaves no gap: either there is none, or there is nothing to
\* read and nothing follows.
Good == Clean /\ (Joined \/ (queue = <<>> /\ player.state # "playing"))

\* Otherwise no handle is primed, so the next read is at offset 0, which is
\* not where the last one ended: it seeks.
WillSeek == primed = {} /\ expoff > 0

\* Labels of a read that has sought or need not, and labels from the end of
\* a read to the start of the next one's seek.
SeekOver == {"seek_expoff", "audio_playing", "audio_done", "audio_eof",
             "audio_take", "finish"}

BeforeSeek == BeforeLoad \cup {"play_set", "head_info", "head_wait",
                               "seek_test", "seek_info", "seek_wait"}

RunInv ==
    /\ GapFree
    /\ \A w \in Workers :
          /\ pc[w] \in BeforeSeek => Good \/ WillSeek
          /\ pc[w] \in {"play_done", "play_load"} => queue = <<>> \/ WillSeek
          /\ pc[w] = "seek_flush" => heard = <<>>
          /\ pc[w] \in SeekOver => Good

\* Frames heard in one run have no gap.
LEMMA JoinedGapFree == ASSUME TypeOK', Joined' PROVE GapFree'
<1>1. Len(heard') \in Nat /\ Len(queue') \in Nat /\ player'.pos \in Nat
  BY DEF TypeOK
<1> SUFFICES ASSUME NEW i \in 1 .. Len(heard') - 1
             PROVE  /\ heard'[i + 1].track = heard'[i].track
                    /\ heard'[i + 1].pos = heard'[i].pos + 1
  BY DEF GapFree
<1>2. i \in 1..Len(heard') /\ i + 1 \in 1..Len(heard')
  BY <1>1
<1>3. /\ heard'[i].track = player'.track
      /\ heard'[i].pos = player'.pos - Len(queue') - Len(heard') + i - 1
      /\ heard'[i + 1].track = player'.track
      /\ heard'[i + 1].pos =
           player'.pos - Len(queue') - Len(heard') + (i + 1) - 1
  BY <1>2 DEF Joined
<1> QED BY <1>1, <1>2, <1>3

\* A delivery follows the frames delivered before.
LEMMA PushRun ==
    ASSUME TypeInv, NEW n \in 1..MaxChunk, player.state = "playing",
           queue' = queue \o Segment(n), heard' = heard,
           player' = [player EXCEPT !.pos = @ + n], Clean
    PROVE  Clean' /\ (Joined => Joined')
<1>1. /\ n \in Nat /\ Len(queue) \in Nat /\ player.pos \in Nat
      /\ queue \in Seq(Frame) /\ Len(heard) \in Nat
  BY PlaybackAssumption DEF TypeInv, TypeOK
<1>2. player'.track = player.track /\ player'.pos = player.pos + n
  BY DEF TypeInv, TypeOK
<1>3. Segment(n) \in Seq(Frame) /\ Len(Segment(n)) = n
  BY <1>1, SegmentSeq DEF TypeInv
<1>4. Len(queue') = Len(queue) + n
  BY <1>1, <1>3
<1>5. ASSUME NEW i \in 1..Len(queue')
      PROVE  /\ queue'[i].track = player'.track
             /\ queue'[i].pos = player'.pos - Len(queue') + i - 1
  <2>1. CASE i <= Len(queue)
    <3>1. queue'[i] = queue[i] /\ i \in 1..Len(queue)
      BY <1>1, <1>3, <1>5, <2>1
    <3>2. /\ queue[i].track = player.track
          /\ queue[i].pos = player.pos - Len(queue) + i - 1
      BY <3>1 DEF Clean
    <3>3. player.pos - Len(queue) + i - 1 = player'.pos - Len(queue') + i - 1
      BY <1>1, <1>2, <1>4
    <3> QED BY <1>2, <3>1, <3>2, <3>3
  <2>2. CASE i > Len(queue)
    <3> DEFINE j == i - Len(queue)
    <3>1. j \in 1..n
      BY <1>1, <1>4, <2>2
    <3>2. queue'[i] = Segment(n)[j]
      BY <1>1, <1>3, <1>4, <2>2
    <3>3. Segment(n)[j].track = player.track
          /\ Segment(n)[j].pos = player.pos + j - 1
      BY <3>1 DEF Segment
    <3>4. player.pos + j - 1 = player'.pos - Len(queue') + i - 1
      BY <1>1, <1>2, <1>4
    <3> HIDE DEF j
    <3> QED BY <1>2, <3>2, <3>3, <3>4
  <2> QED BY <1>1, <1>4, <2>1, <2>2
<1>6. Clean'
  BY <1>5 DEF Clean
<1>7. ASSUME Joined PROVE Joined'
  BY <1>1, <1>2, <1>4, <1>7 DEF Joined
<1> QED BY <1>6, <1>7

\* A read takes the frames that follow those heard.
LEMMA TakeRun ==
    ASSUME TypeInv, NEW k \in 0..Len(queue), TakeFrames(k),
           player' = player, Clean, Joined
    PROVE  Clean' /\ Joined'
<1>1. /\ k \in Nat /\ Len(queue) \in Nat /\ player.pos \in Nat
      /\ queue \in Seq(Frame) /\ heard \in Seq(Frame) /\ Len(heard) \in Nat
  BY DEF TypeInv, TypeOK
<1>2. /\ queue' = SubSeq(queue, k + 1, Len(queue))
      /\ heard' = heard \o SubSeq(queue, 1, k)
  BY DEF TakeFrames
<1>3. Len(queue') = Len(queue) - k
  BY TakeType DEF TypeInv
<1>4. SubSeq(queue, 1, k) \in Seq(Frame) /\ Len(SubSeq(queue, 1, k)) = k
  BY <1>1
<1>5. Len(heard') = Len(heard) + k
  BY <1>1, <1>2, <1>4
<1>6. ASSUME NEW i \in 1..Len(queue')
      PROVE  /\ queue'[i].track = player'.track
             /\ queue'[i].pos = player'.pos - Len(queue') + i - 1
  <2>1. i \in Nat /\ i + k \in 1..Len(queue)
    BY <1>1, <1>3
  <2>2. queue'[i] = queue[i + k]
    BY <1>1, <1>2, <1>3, <2>1
  <2>3. /\ queue[i + k].track = player.track
        /\ queue[i + k].pos = player.pos - Len(queue) + (i + k) - 1
    BY <2>1 DEF Clean
  <2>4. player.pos - Len(queue) + (i + k) - 1 =
          player.pos - Len(queue') + i - 1
    BY <1>1, <1>3, <2>1
  <2> QED BY <2>2, <2>3, <2>4
<1>7. ASSUME NEW i \in 1..Len(heard')
      PROVE  /\ heard'[i].track = player'.track
             /\ heard'[i].pos =
                  player'.pos - Len(queue') - Len(heard') + i - 1
  <2>1. CASE i <= Len(heard)
    <3>1. heard'[i] = heard[i] /\ i \in 1..Len(heard)
      BY <1>1, <1>2, <1>4, <1>5, <2>1
    <3>2. /\ heard[i].track = player.track
          /\ heard[i].pos = player.pos - Len(queue) - Len(heard) + i - 1
      BY <3>1 DEF Joined
    <3> QED BY <1>1, <1>3, <1>5, <3>1, <3>2
  <2>2. CASE i > Len(heard)
    <3> DEFINE j == i - Len(heard)
    <3>1. j \in 1..k /\ j \in 1..Len(queue)
      BY <1>1, <1>5, <2>2
    <3>2. heard'[i] = SubSeq(queue, 1, k)[j]
      BY <1>1, <1>2, <1>4, <1>5, <2>2
    <3>3. SubSeq(queue, 1, k)[j] = queue[j]
      BY <1>1, <3>1
    <3>4. /\ queue[j].track = player.track
          /\ queue[j].pos = player.pos - Len(queue) + j - 1
      BY <3>1 DEF Clean
    <3>5. player.pos - Len(queue) + j - 1 =
            player.pos - Len(queue') - Len(heard') + i - 1
      BY <1>1, <1>3, <1>5
    <3> HIDE DEF j
    <3> QED BY <3>2, <3>3, <3>4, <3>5
  <2> QED BY <1>1, <1>5, <2>1, <2>2
<1> QED BY <1>6, <1>7 DEF Clean, Joined

\* An empty buffer has no gap if nothing was heard or nothing follows.
LEMMA EmptyGoodNext ==
    ASSUME queue' = <<>>, heard' = <<>> \/ player'.state # "playing"
    PROVE  Good'
BY DEF Good, Clean, Joined

\* What does not touch the buffer and the player leaves no gap.
LEMMA GoodKept ==
    ASSUME UNCHANGED <<queue, heard, player>>
    PROVE  (Good' <=> Good) /\ (GapFree' <=> GapFree)
BY DEF Good, Clean, Joined, GapFree

\* What may be assumed of every state by now.
BaseInv == TypeInv /\ BufferInv /\ PlayingInv /\ HandleInv /\ ReadInv

LEMMA RunInit == Init => RunInv
<1> SUFFICES ASSUME Init PROVE RunInv
  OBVIOUS
<1>1. Good
  BY DEF Init, Good, Clean, Joined
<1>2. GapFree
  BY DEF Init, GapFree
<1> QED BY <1>1, <1>2 DEF Init, RunInv, SeekOver

\* Requests arriving from and returning to the kernel.
LEMMA RunClient ==
    ASSUME OneWorker, HeaderFirst, BaseInv, RunInv, Client PROVE RunInv'
<1> USE DEF At, Goto, Step, OneWorker, BeforeLoad, BeforeSeek, SeekOver,
            RunInv, WillSeek
<1>0. pc \in [Workers -> Labels]
  BY DEF BaseInv, TypeInv, TypeOK
<1>1. UNCHANGED <<queue, heard, player, expoff>>
  BY DEF Client, wav_open_test, wav_read, wav_release, gVars, fileVars
<1>2. (Good' <=> Good) /\ GapFree'
  BY <1>1, GoodKept
<1>3. ASSUME NEW w \in Workers, NEW h \in Handles, wav_open_test(w, h)
      PROVE  RunInv'
  BY <1>0, <1>1, <1>2, <1>3 DEF wav_open_test, fileVars
<1>4. ASSUME NEW w \in Workers, NEW h \in Handles, NEW o \in Offsets,
             NEW s \in Sizes, wav_read(w, h, o, s)
      PROVE  RunInv'
  BY <1>0, <1>1, <1>2, <1>4 DEF wav_read, fileVars
<1>5. ASSUME NEW h \in Handles, wav_release(h) PROVE RunInv'
  <2>1. pc' = pc /\ (primed = {} => primed' = {})
    BY <1>5 DEF wav_release
  <2> QED BY <1>1, <1>2, <2>1
<1> QED BY <1>3, <1>4, <1>5 DEF Client

\* spotify_play_track.
LEMMA RunPlay ==
    ASSUME OneWorker, HeaderFirst, BaseInv, RunInv, NEW w \in Workers,
           play_track(w)
    PROVE  RunInv'
<1> USE DEF At, Goto, Step, OneWorker, BeforeLoad, BeforeSeek, SeekOver,
            RunInv, WillSeek, gVars, fileVars
<1>0. pc \in [Workers -> Labels] /\ expoff \in Nat
  BY DEF BaseInv, TypeInv, TypeOK
<1>1. CASE play_track_flush(w)
  <2>1. /\ pc[w] = "play_flush" /\ pc' = [pc EXCEPT ![w] = "play_done"]
        /\ queue' = <<>> /\ UNCHANGED <<heard, player, primed, expoff>>
    BY <1>1 DEF play_track_flush, spfs_audio_playback_flush
  <2>2. GapFree'
    BY <2>1 DEF GapFree
  <2>3. CASE player.state = "playing"
    <3>1. expoff > 0
      BY <1>0, <2>1, <2>3 DEF BaseInv, ReadInv, ExpoffInv
    <3>2. primed = {}
      <4>1. playing = player.track /\ playing # TrackFor(w)
        BY <2>1, <2>3 DEF BaseInv, ReadInv, TrackInv
      <4>2. \A h \in primed : player.track = TrackOf[h]
                              /\ h = job[w].handle
        BY <2>1 DEF BaseInv, ReadInv, TrackInv, HandleInv
      <4> QED BY <4>1, <4>2 DEF TrackFor
    <3> QED BY <1>0, <2>1, <2>2, <3>1, <3>2
  <2>4. CASE player.state # "playing"
    <3>1. Good'
      BY <2>1, <2>4, EmptyGoodNext
    <3> QED BY <1>0, <2>1, <2>2, <3>1
  <2> QED BY <2>3, <2>4
<1>2. CASE play_track_load(w)
  <2>1. /\ pc[w] = "play_load" /\ pc' = [pc EXCEPT ![w] = "play_set"]
        /\ heard' = <<>> /\ UNCHANGED <<queue, primed, expoff>>
    BY <1>2 DEF play_track_load
  <2>2. GapFree'
    BY <2>1 DEF GapFree
  <2>3. Good' \/ WillSeek'
    BY <2>1, EmptyGoodNext
  <2> QED BY <1>0, <2>1, <2>2, <2>3
<1>3. CASE \/ play_track_test(w) \/ play_track_done(w) \/ play_track_set(w)
           \/ play_track_error(w)
  <2>1. UNCHANGED <<queue, heard, player, primed, expoff>>
    BY <1>3 DEF play_track_test, play_track_done, play_track_set,
       play_track_error
  <2>2. (Good' <=> Good) /\ GapFree'
    BY <2>1, GoodKept
  <2>3. CASE play_track_done(w)
    BY <1>0, <2>1, <2>2, <2>3 DEF play_track_done
  <2> QED BY <1>0, <1>3, <2>1, <2>2, <2>3
          DEF play_track_test, play_track_set, play_track_error, Return
<1> QED BY <1>1, <1>2, <1>3 DEF play_track

\* spotify_get_track_info and the seek of wav_read.
LEMMA RunInfo ==
    ASSUME OneWorker, HeaderFirst, BaseInv, RunInv, NEW w \in Workers,
           get_track_info_header(w) \/ get_track_info_seek(w)
    PROVE  RunInv'
<1>0. pc \in [Workers -> Labels]
  BY DEF BaseInv, TypeInv, TypeOK
<1>1. /\ pc[w] \in {"head_info", "head_wait", "seek_info", "seek_wait"}
      /\ \/ pc' = [pc EXCEPT ![w] = "idle"]
         \/ pc' = [pc EXCEPT ![w] = "head_wait"]
         \/ pc' = [pc EXCEPT ![w] = "seek_test"]
         \/ pc' = [pc EXCEPT ![w] = "seek_wait"]
         \/ pc' = [pc EXCEPT ![w] = "seek_done"]
      /\ UNCHANGED <<queue, heard, player, expoff, primed>>
  BY DEF get_track_info_header, get_track_info_seek, get_track_info_error,
     get_track_info_sleep, get_track_info_ok, At, Goto, Return, gVars,
     fileVars
<1>2. (Good' <=> Good) /\ GapFree'
  BY <1>1, GoodKept DEF RunInv
<1> QED BY <1>0, <1>1, <1>2
        DEF OneWorker, BeforeLoad, BeforeSeek, SeekOver, RunInv, WillSeek

LEMMA RunSeek ==
    ASSUME OneWorker, HeaderFirst, BaseInv, RunInv, NEW w \in Workers,
           seek_test(w) \/ seek_track(w) \/ seek_expoff(w)
    PROVE  RunInv'
<1> USE DEF At, Goto, Step, OneWorker, BeforeLoad, BeforeSeek, SeekOver,
            RunInv, WillSeek, gVars, fileVars
<1>0. pc \in [Workers -> Labels] /\ expoff \in Nat
  BY DEF BaseInv, TypeInv, TypeOK
<1>1. CASE seek_test(w)
  <2>1. UNCHANGED <<queue, heard, player, expoff, primed>>
    BY <1>1 DEF seek_test
  <2>2. (Good' <=> Good) /\ GapFree'
    BY <2>1, GoodKept
  <2>3. CASE expoff # job[w].offset
    BY <1>0, <1>1, <2>1, <2>2, <2>3 DEF seek_test
  <2>4. CASE expoff = job[w].offset
    <3>1. Good
      <4>1. WillSeek => job[w].offset = 0
        BY <1>1 DEF seek_test, BaseInv, ReadInv, StartInv
      <4> QED BY <1>0, <1>1, <2>4, <4>1 DEF seek_test
    <3> QED BY <1>0, <1>1, <2>1, <2>2, <2>4, <3>1 DEF seek_test, AfterSeek
  <2> QED BY <2>3, <2>4
<1>2. CASE seek_track_done(w)
  <2>1. /\ UNCHANGED <<queue, heard, player, expoff, primed>>
        /\ pc' = [pc EXCEPT ![w] = "seek_player"]
    BY <1>2 DEF seek_track_done
  <2> QED BY <1>0, <2>1, GoodKept
<1>3. CASE seek_track_player(w)
  <2>1. heard' = <<>> /\ pc' = [pc EXCEPT ![w] = "seek_flush"]
    BY <1>3 DEF seek_track_player
  <2>2. GapFree'
    BY <2>1 DEF GapFree
  <2> QED BY <1>0, <2>1, <2>2
<1>4. CASE seek_track_flush(w)
  <2>1. /\ pc[w] = "seek_flush" /\ pc' = [pc EXCEPT ![w] = "seek_expoff"]
        /\ queue' = <<>> /\ heard' = heard
    BY <1>4 DEF seek_track_flush, spfs_audio_playback_flush
  <2>2. heard' = <<>>
    BY <2>1
  <2>3. Good' /\ GapFree'
    BY <2>1, <2>2, EmptyGoodNext DEF GapFree
  <2> QED BY <1>0, <2>1, <2>3
<1>5. CASE seek_expoff(w)
  <2>1. /\ UNCHANGED <<queue, heard, player>> /\ pc[w] = "seek_expoff"
        /\ pc' = [pc EXCEPT ![w] = AfterSeek(w)]
    BY <1>5 DEF seek_expoff
  <2> QED BY <1>0, <2>1, GoodKept DEF AfterSeek
<1> QED BY <1>1, <1>2, <1>3, <1>4, <1>5 DEF seek_track

\* spotify_get_audio and the end of wav_read.
LEMMA RunAudio ==
    ASSUME OneWorker, HeaderFirst, BaseInv, RunInv, NEW w \in Workers,
           get_audio(w) \/ wav_read_finish(w)
    PROVE  RunInv'
<1> USE DEF At, Goto, Step, OneWorker, BeforeLoad, BeforeSeek, SeekOver,
            RunInv, WillSeek, gVars, fileVars
<1>0. pc \in [Workers -> Labels]
  BY DEF BaseInv, TypeInv, TypeOK
<1>1. CASE get_audio_take(w)
  <2>1. PICK k \in 0..Len(queue) : TakeFrames(k)
    BY <1>1 DEF get_audio_take
  <2>2. /\ pc[w] = "audio_take" /\ pc' = [pc EXCEPT ![w] = "finish"]
        /\ player' = player
    BY <1>1 DEF get_audio_take
  <2>3. Good
    BY <2>2
  <2>4. Good' /\ GapFree'
    <3>1. CASE Joined
      <4>1. Clean' /\ Joined'
        BY <2>1, <2>2, <2>3, <3>1, TakeRun DEF BaseInv, Good
      <4>2. TypeOK'
        BY <1>1, TypeAudio DEF BaseInv, TypeInv, get_audio
      <4>3. GapFree'
        BY <4>1, <4>2, JoinedGapFree
      <4> QED BY <4>1, <4>3 DEF Good
    <3>2. CASE queue = <<>> /\ player.state # "playing"
      <4>1. k = 0
        BY <2>1, <3>2
      <4>2. heard \in Seq(Frame) /\ heard' = heard \o SubSeq(queue, 1, 0)
            /\ queue' = SubSeq(queue, 1, Len(queue))
        BY <2>1, <4>1 DEF TakeFrames, BaseInv, TypeInv, TypeOK
      <4>3. SubSeq(queue, 1, 0) = <<>> /\ SubSeq(queue, 1, Len(queue)) = queue
        BY DEF BaseInv, TypeInv, TypeOK
      <4>4. heard \o <<>> = heard
        BY <4>2
      <4>5. UNCHANGED <<queue, heard>>
        BY <4>2, <4>3, <4>4
      <4> QED BY <2>2, <2>3, <4>5, GoodKept
    <3> QED BY <2>3, <3>1, <3>2 DEF Good
  <2> QED BY <1>0, <2>2, <2>4
<1>2. CASE \/ get_audio_is_playing(w) \/ get_audio_is_done(w)
           \/ get_audio_eof(w) \/ get_audio_wait(w) \/ wav_read_finish(w)
  <2>1. UNCHANGED <<queue, heard, player>> /\ pc[w] \in SeekOver
    BY <1>2 DEF get_audio_is_playing, get_audio_is_done, get_audio_eof,
       get_audio_wait, wav_read_finish
  <2>2. Good /\ Good' /\ GapFree'
    BY <2>1, GoodKept
  <2>3. \/ pc' = pc
        \/ \E l \in SeekOver \cup {"idle"} : pc' = [pc EXCEPT ![w] = l]
    BY <1>2 DEF get_audio_is_playing, get_audio_is_done, get_audio_eof,
       get_audio_wait, wav_read_finish, Return
  <2> QED BY <1>0, <2>1, <2>2, <2>3
<1> QED BY <1>1, <1>2 DEF get_audio

LEMMA RunNext ==
    ASSUME OneWorker, HeaderFirst, BaseInv, RunInv, [Next]_vars PROVE RunInv'
<1> USE DEF RunInv, WillSeek
<1>1. CASE end_of_track_flush
  <2>1. /\ queue' = <<>> /\ player'.state # "playing" /\ heard' = heard
        /\ UNCHANGED <<pc, primed, expoff>>
    BY <1>1 DEF end_of_track_flush, spfs_audio_playback_flush, fileVars,
       BaseInv, TypeInv, TypeOK
  <2>2. Good' /\ GapFree'
    BY <2>1, EmptyGoodNext DEF GapFree
  <2> QED BY <2>1, <2>2
<1>2. CASE play_token_lost
  <2>1. /\ UNCHANGED <<queue, heard, pc, primed, expoff>>
        /\ player' = [player EXCEPT !.state = "paused"]
    BY <1>2 DEF play_token_lost, StopPlaying, fileVars
  <2>2. /\ player'.track = player.track /\ player'.pos = player.pos
        /\ player'.state # "playing"
    BY <2>1 DEF BaseInv, TypeInv, TypeOK
  <2>3. (Good => Good') /\ GapFree'
    BY <2>1, <2>2 DEF Good, Clean, Joined, GapFree
  <2> QED BY <2>1, <2>3
<1>3. CASE Delivery
  <2>1. PICK n \in 1..MaxChunk : music_delivery(n)
    BY <1>3 DEF Delivery
  <2>2. /\ player.state = "playing" /\ queue' = queue \o Segment(n)
        /\ heard' = heard /\ player' = [player EXCEPT !.pos = @ + n]
        /\ UNCHANGED <<pc, primed, expoff>>
    BY <2>1 DEF music_delivery, Push, fileVars
  <2>3. Good => Good'
    BY <2>2, PushRun DEF BaseInv, Good
  <2>4. GapFree'
    BY <2>2 DEF GapFree
  <2>5. ASSUME NEW w \in Workers, pc[w] \in {"play_done", "play_load"}
        PROVE  WillSeek
    <3>1. expoff > 0
      BY <2>2, <2>5 DEF BaseInv, ReadInv, ExpoffInv, BeforeLoad
    <3>2. playing = player.track /\ playing # TrackFor(w)
      BY <2>2, <2>5 DEF BaseInv, ReadInv, TrackInv, OneWorker
    <3>3. \A h \in primed : player.track = TrackOf[h] /\ h = job[w].handle
      BY <2>5 DEF BaseInv, ReadInv, TrackInv, HandleInv
    <3> QED BY <3>1, <3>2, <3>3 DEF TrackFor
  <2> QED BY <2>2, <2>3, <2>4, <2>5
<1>4. CASE \/ end_of_track_playing \/ end_of_track_done
           \/ audio_buffer_stats \/ UNCHANGED vars
           \/ \E w \in Workers : spurious_wakeup(w)
  <2>1. UNCHANGED <<queue, heard, player, pc, primed, expoff>>
    BY <1>4 DEF end_of_track_playing, end_of_track_done, audio_buffer_stats,
       vars, spurious_wakeup, gVars, fileVars
  <2> QED BY <2>1, GoodKept
<1>5. ASSUME NEW w \in Workers, wav_open_set(w) PROVE RunInv'
  <2>1. /\ UNCHANGED <<queue, heard, player, primed, expoff>>
        /\ pc[w] = "open_set" /\ pc' = [pc EXCEPT ![w] = "idle"]
    BY <1>5 DEF wav_open_set, At, Goto, Return, gVars
  <2>2. pc \in [Workers -> Labels]
    BY DEF BaseInv, TypeInv, TypeOK
  <2> QED BY <2>1, <2>2, GoodKept
          DEF OneWorker, BeforeLoad, BeforeSeek, SeekOver
<1> QED BY <1>1, <1>2, <1>3, <1>4, <1>5, RunClient, RunPlay, RunInfo,
           RunSeek, RunAudio DEF Next, Serve, Session

LEMMA RunInvariant ==
    ASSUME OneWorker, HeaderFirst PROVE Spec => [](BaseInv /\ RunInv)
<1>1. BaseInv /\ RunInv /\ [Next]_vars => RunInv'
  BY RunNext
<1>2. TypeInv /\ BufferInv /\ PlayingInv /\ HandleInv /\ ReadInv <=> BaseInv
  BY DEF BaseInv
<1> QED BY <1>1, <1>2, BufferInvariant, ReadInvariant, RunInit, PTL DEF Spec

\* With one worker whose client begins at offset 0, what is heard between
\* two repositions of the player is one uninterrupted run of one track,
\* whatever libspotify delivers, flushes or takes away meanwhile.
THEOREM AudioIsGapFree ==
    ASSUME OneWorker, HeaderFirst PROVE Spec => []GapFree
BY RunInvariant, PTL DEF RunInv

\* And it is the audio of the file that is read.
THEOREM AudioIsOfTheTrack ==
    ASSUME OneWorker, HeaderFirst PROVE Spec => OwnTrack
<1>1. BaseInv /\ RunInv /\ [Next]_vars =>
        [\A w \in Workers : Took(w) =>
           \A i \in Len(heard) + 1 .. Len(heard') :
              heard'[i].track = TrackFor(w)]_vars
  <2> SUFFICES ASSUME BaseInv, RunInv, [Next]_vars, NEW w \in Workers,
                      Took(w), NEW i \in Len(heard) + 1 .. Len(heard')
               PROVE  heard'[i].track = TrackFor(w)
    OBVIOUS
  <2>1. pc[w] = "audio_take" /\ Good /\ player.track = TrackFor(w)
    BY DEF Took, RunInv, SeekOver, BaseInv, ReadInv, TrackInv, AfterLoad,
       AfterHeader
  <2>2. Len(heard) \in Nat /\ heard \in Seq(Frame) /\ queue \in Seq(Frame)
        /\ Len(queue) \in Nat
    BY DEF BaseInv, TypeInv, TypeOK
  <2>3. BufferTaken
    BY <2>2, BufferStep DEF BufferKeeps, BufferFlushed, BufferRestarts,
       BufferExtended
  <2>4. PICK k \in 0..Len(queue) : TakeFrames(k)
    BY <2>3 DEF BufferTaken
  <2>5. heard' = heard \o SubSeq(queue, 1, k)
        /\ Len(SubSeq(queue, 1, k)) = k /\ SubSeq(queue, 1, k) \in Seq(Frame)
    BY <2>2, <2>4 DEF TakeFrames
  <2>6. i - Len(heard) \in 1..k /\ i - Len(heard) \in 1..Len(queue)
    BY <2>2, <2>5
  <2>7. heard'[i] = queue[i - Len(heard)]
    BY <2>2, <2>5, <2>6
  <2> QED BY <2>1, <2>6, <2>7 DEF Good, Clean
<1> QED BY <1>1, RunInvariant, PTL DEF Spec, OwnTrack

-----------------------------------------------------------------------------
(* The end of the audio.                                                   *)

\* A track does not fit into the buffer.
LongTracks == TrackLen > BufferLimit + MaxChunk

\* While the end of a track is handled, expoff is zero only within the first
\* read and after its header: up to there nothing has left the buffer, which
\* does not hold a whole track.
ExpoffAtEnd ==
    \A w \in Workers :
        /\ eot # "idle" /\ pc[w] \in BeforeLoad => expoff > 0
        /\ eot # "idle" /\ pc[w] \in AfterLoad /\ expoff = 0 =>
              job[w].offset = 0 /\ pc[w] \in AfterHeader
        /\ pc[w] \in {"play_set", "head_info", "head_wait"} /\ expoff = 0
           /\ player.state = "playing" => player.pos = Len(queue)
        /\ pc[w] \in {"seek_info", "seek_wait"} => expoff # job[w].offset

\* The labels at which g_playback_done may be left over from another track:
\* the seek that follows resets it.
ResetAhead == {"play_set", "head_info", "head_wait", "seek_test",
               "seek_info", "seek_wait", "seek_done"}

\* g_playback_done means that nothing plays, or that it will be reset.
DoneInv ==
    \A w \in Workers :
        /\ pc[w] = "audio_eof" => playing = NoTrack
        /\ playback_done =>
              /\ \/ playing = NoTrack
                 \/ pc[w] \in ResetAhead /\ job[w].offset = 0 /\ expoff > 0
              /\ pc[w] \in {"play_load", "play_set"} => expoff > 0

DoneBase == BaseInv /\ RunInv /\ ExpoffAtEnd

LEMMA DoneInit == Init => ExpoffAtEnd /\ DoneInv
BY DEF Init, ExpoffAtEnd, DoneInv, AfterLoad, AfterHeader

\* The worker's steps.
LEMMA DoneServe ==
    ASSUME OneWorker, HeaderFirst, DoneBase, DoneInv, NEW w \in Workers,
           Serve(w)
    PROVE  ExpoffAtEnd' /\ DoneInv'
<1> USE DEF At, Goto, Step, Return, OneWorker, BeforeLoad, AfterLoad,
            AfterHeader, ResetAhead, gVars, fileVars
<1>0. /\ pc \in [Workers -> Labels] /\ job \in [Workers -> Job]
      /\ expoff \in Nat /\ job[w].offset \in Nat /\ job[w].read \in Nat
      /\ playback_done \in BOOLEAN
  BY DEF DoneBase, BaseInv, TypeInv, TypeOK, Job
<1>a. /\ ExpoffAtEnd
      /\ pc[w] \in Loading => job[w].offset = 0
      /\ pc[w] \in AfterHeader /\ job[w].offset = 0 => job[w].read > 0
      /\ player.state = "playing" /\ pc[w] \in BeforeLoad => expoff > 0
      /\ eot = "done" => playing = NoTrack
  BY DEF DoneBase, BaseInv, ReadInv, StartInv, ExpoffInv, PlayingInv,
     EndInProgress
<1>1. CASE wav_open_set(w)
  BY <1>0, <1>1, <1>a DEF wav_open_set, ExpoffAtEnd, DoneInv
<1>2. CASE play_track_test(w)
  <2>1. UNCHANGED <<job, eot, expoff, player, queue, playing, playback_done>>
    BY <1>2 DEF play_track_test
  <2>2. \/ pc' = [pc EXCEPT ![w] = "play_flush"]
        \/ /\ pc' = [pc EXCEPT ![w] = "head_info"]
           /\ playing = TrackFor(w)
    BY <1>2 DEF play_track_test, OwnTrackPlays
  <2>3. pc[w] = "play_test"
    BY <1>2 DEF play_track_test
  <2> QED BY <1>0, <1>a, <2>1, <2>2, <2>3 DEF ExpoffAtEnd, DoneInv, Loading
<1>3. CASE play_track_flush(w)
  BY <1>0, <1>3, <1>a DEF play_track_flush, ExpoffAtEnd, DoneInv
<1>4. CASE play_track_done(w)
  BY <1>0, <1>4, <1>a DEF play_track_done, ExpoffAtEnd, DoneInv
<1>5. CASE play_track_load(w)
  <2>1. /\ pc[w] = "play_load" /\ pc' = [pc EXCEPT ![w] = "play_set"]
        /\ api_mutex = "free" /\ player'.pos = 0
        /\ UNCHANGED <<queue, job, eot, expoff, playing, playback_done>>
    BY <1>5 DEF play_track_load
  <2>2. eot = "idle"
    BY <2>1, MutexOwnerAssumption DEF DoneBase, BaseInv, PlayingInv, ApiOwner
  <2>3. expoff = 0 => Len(queue) = 0
    BY <2>1 DEF DoneBase, RunInv, WillSeek
  <2> QED BY <1>0, <1>a, <2>1, <2>2, <2>3 DEF ExpoffAtEnd, DoneInv
<1>6. CASE play_track_set(w)
  <2>1. job[w].offset = 0
    BY <1>6, <1>a DEF play_track_set, Loading
  <2> QED BY <1>0, <1>6, <1>a, <2>1 DEF play_track_set, ExpoffAtEnd, DoneInv
<1>7. CASE play_track_error(w)
  BY <1>0, <1>7, <1>a DEF play_track_error, ExpoffAtEnd, DoneInv
<1>8. CASE get_track_info_header(w) \/ get_track_info_seek(w)
  <2>1. /\ pc[w] \in {"head_info", "head_wait", "seek_info", "seek_wait"}
        /\ UNCHANGED <<eot, expoff, player, queue, playing, playback_done>>
    BY <1>8 DEF get_track_info_header, get_track_info_seek,
       get_track_info_error, get_track_info_sleep, get_track_info_ok
  <2>2. \/ /\ pc' = [pc EXCEPT ![w] = "idle"]
           /\ playing = NoTrack
        \/ /\ pc[w] \in {"head_info", "head_wait"}
           /\ \/ pc' = [pc EXCEPT ![w] = "head_wait"]
              \/ pc' = [pc EXCEPT ![w] = "seek_test"]
           /\ job'[w].offset = job[w].offset
        \/ /\ pc[w] \in {"seek_info", "seek_wait"}
           /\ \/ pc' = [pc EXCEPT ![w] = "seek_wait"]
              \/ pc' = [pc EXCEPT ![w] = "seek_done"]
           /\ job'[w].offset = job[w].offset
    BY <1>0, <1>8 DEF get_track_info_header, get_track_info_seek,
       get_track_info_error, get_track_info_sleep, get_track_info_ok, Job
  <2> QED BY <1>0, <1>a, <2>1, <2>2 DEF ExpoffAtEnd, DoneInv
<1>9. CASE seek_test(w)
  <2>1. /\ UNCHANGED <<job, eot, expoff, player, queue, playing,
                       playback_done>>
        /\ pc[w] = "seek_test"
        /\ \/ expoff # job[w].offset /\ pc' = [pc EXCEPT ![w] = "seek_info"]
           \/ /\ expoff = job[w].offset
              /\ \/ pc' = [pc EXCEPT ![w] = "audio_playing"]
                 \/ pc' = [pc EXCEPT ![w] = "finish"]
    BY <1>9 DEF seek_test, AfterSeek
  <2> QED BY <1>0, <1>a, <2>1 DEF ExpoffAtEnd, DoneInv
<1>10. CASE seek_track_done(w)
  BY <1>0, <1>10, <1>a DEF seek_track_done, ExpoffAtEnd, DoneInv
<1>11. CASE seek_track_player(w)
  BY <1>0, <1>11, <1>a DEF seek_track_player, ExpoffAtEnd, DoneInv
<1>12. CASE seek_track_flush(w)
  BY <1>0, <1>12, <1>a DEF seek_track_flush, ExpoffAtEnd, DoneInv
<1>13. CASE seek_expoff(w)
  <2>1. /\ UNCHANGED <<job, eot, player, queue, playing, playback_done>>
        /\ pc[w] = "seek_expoff" /\ expoff' = job[w].offset
        /\ \/ pc' = [pc EXCEPT ![w] = "audio_playing"]
           \/ pc' = [pc EXCEPT ![w] = "finish"]
    BY <1>13 DEF seek_expoff, AfterSeek
  <2> QED BY <1>0, <1>a, <2>1 DEF ExpoffAtEnd, DoneInv
<1>14. CASE get_audio_is_playing(w)
  BY <1>0, <1>14, <1>a DEF get_audio_is_playing, ExpoffAtEnd, DoneInv
<1>15. CASE get_audio_is_done(w)
  BY <1>0, <1>15, <1>a DEF get_audio_is_done, ExpoffAtEnd, DoneInv
<1>16. CASE get_audio_eof(w)
  BY <1>0, <1>16, <1>a DEF get_audio_eof, ExpoffAtEnd, DoneInv
<1>17. CASE get_audio_wait(w)
  BY <1>17, <1>a DEF get_audio_wait, ExpoffAtEnd, DoneInv
<1>18. CASE get_audio_take(w)
  <2>1. PICK k \in 0..Len(queue) : job' = [job EXCEPT ![w].read = @ + k]
    BY <1>18 DEF get_audio_take
  <2>2. job'[w].offset = job[w].offset
    BY <1>0, <2>1 DEF Job
  <2>3. /\ pc[w] = "audio_take" /\ pc' = [pc EXCEPT ![w] = "finish"]
        /\ UNCHANGED <<eot, expoff, player, playing, playback_done>>
    BY <1>18 DEF get_audio_take
  <2> QED BY <1>0, <1>a, <2>2, <2>3 DEF ExpoffAtEnd, DoneInv
<1>19. CASE wav_read_finish(w)
  <2>1. /\ pc[w] = "finish" /\ pc' = [pc EXCEPT ![w] = "idle"]
        /\ expoff' = expoff + job[w].read
        /\ UNCHANGED <<eot, playing, playback_done>>
    BY <1>19 DEF wav_read_finish
  <2>2. eot # "idle" => expoff' > 0
    BY <1>0, <1>a, <2>1 DEF ExpoffAtEnd
  <2> QED BY <1>0, <1>a, <2>1, <2>2 DEF ExpoffAtEnd, DoneInv
<1> QED BY <1>1, <1>2, <1>3, <1>4, <1>5, <1>6, <1>7, <1>8, <1>9, <1>10,
           <1>11, <1>12, <1>13, <1>14, <1>15, <1>16, <1>17, <1>18, <1>19
        DEF Serve, play_track, seek_track, get_audio

LEMMA DoneNext ==
    ASSUME OneWorker, HeaderFirst, LongTracks, DoneBase, DoneInv, [Next]_vars
    PROVE  ExpoffAtEnd' /\ DoneInv'
<1> USE DEF OneWorker, BeforeLoad, AfterLoad, AfterHeader, ResetAhead
<1>0. /\ pc \in [Workers -> Labels] /\ job \in [Workers -> Job]
      /\ expoff \in Nat /\ Len(queue) \in Nat /\ player.pos \in Nat
      /\ player \in [track : Tracks \cup {NoTrack}, pos : Nat,
                     state : PlayerStates]
  BY DEF DoneBase, BaseInv, TypeInv, TypeOK
<1>a. ExpoffAtEnd
  BY DEF DoneBase
<1>1. CASE Client
  <2>1. /\ UNCHANGED <<queue, player, expoff, eot, playing, playback_done>>
        /\ \/ UNCHANGED <<pc, job>>
           \/ \E w \in Workers :
                 \/ pc[w] = "idle" /\ pc' = [pc EXCEPT ![w] = "open_set"]
                 \/ /\ pc[w] = "idle"
                    /\ \/ pc' = [pc EXCEPT ![w] = "play_test"]
                       \/ pc' = [pc EXCEPT ![w] = "head_info"]
                       \/ pc' = [pc EXCEPT ![w] = "seek_test"]
    BY <1>1 DEF Client, wav_open_test, wav_read, wav_release, At, Goto, Step,
       gVars, fileVars
  <2>2. \A w \in Workers : player.state = "playing" /\ pc[w] = "idle" =>
                           expoff > 0
    BY DEF DoneBase, BaseInv, ReadInv, ExpoffInv
  <2> QED BY <1>0, <1>a, <2>1, <2>2 DEF ExpoffAtEnd, DoneInv
<1>2. CASE end_of_track_flush
  <2>1. /\ api_mutex = "free" /\ player.state = "playing"
        /\ player.pos = TrackLen /\ player'.state # "playing"
        /\ UNCHANGED <<pc, job, expoff, playing, playback_done>>
    BY <1>0, <1>2 DEF end_of_track_flush, fileVars
  <2>2. Len(queue) < TrackLen
    BY <1>0, PlaybackAssumption
    DEF DoneBase, BaseInv, BufferInv, BufferBounded, LongTracks
  <2>3. \A w \in Workers :
          /\ pc[w] # "play_set"
          /\ pc[w] \in BeforeLoad => expoff > 0
          /\ pc[w] \in AfterLoad /\ expoff = 0 => job[w].offset = 0
    BY <2>1, MutexOwnerAssumption
    DEF DoneBase, BaseInv, ReadInv, ExpoffInv, PlayingInv, ApiOwner
  <2> QED BY <1>0, <1>a, <2>1, <2>2, <2>3 DEF ExpoffAtEnd, DoneInv
<1>3. CASE end_of_track_playing
  <2>1. /\ UNCHANGED <<pc, job, expoff, queue, player, playback_done>>
        /\ eot # "idle" /\ playing' = NoTrack
    BY <1>3 DEF end_of_track_playing, fileVars
  <2> QED BY <1>a, <2>1 DEF ExpoffAtEnd, DoneInv
<1>4. CASE end_of_track_done
  <2>1. /\ UNCHANGED <<pc, job, expoff, queue, player, playing>>
        /\ eot = "done" /\ eot' = "idle" /\ api_mutex = "session"
    BY <1>4 DEF end_of_track_done, gVars, fileVars, DoneBase, BaseInv,
       PlayingInv, ApiOwner
  <2>2. playing = NoTrack /\ \A w \in Workers : pc[w] # "play_set"
    BY <2>1, MutexOwnerAssumption
    DEF DoneBase, BaseInv, PlayingInv, ApiOwner, EndInProgress
  <2> QED BY <1>0, <1>a, <2>1, <2>2 DEF ExpoffAtEnd, DoneInv
<1>5. CASE play_token_lost
  <2>1. /\ UNCHANGED <<pc, job, expoff, queue, eot, playback_done>>
        /\ playing' = NoTrack /\ player'.state # "playing"
    BY <1>0, <1>5 DEF play_token_lost, StopPlaying, fileVars
  <2> QED BY <1>a, <2>1 DEF ExpoffAtEnd, DoneInv
<1>6. CASE Delivery
  <2>1. PICK n \in 1..MaxChunk : music_delivery(n)
    BY <1>6 DEF Delivery
  <2>2. /\ player.state = "playing" /\ queue' = queue \o Segment(n)
        /\ player'.pos = player.pos + n
        /\ UNCHANGED <<pc, job, expoff, eot, playing, playback_done>>
    BY <1>0, <2>1 DEF music_delivery, Push, fileVars
  <2>3. n \in Nat
    BY PlaybackAssumption
  <2>4. Len(queue') = Len(queue) + n
    BY <2>1, <2>2, <2>3, SegmentSeq DEF DoneBase, BaseInv, TypeInv, TypeOK
  <2> QED BY <1>0, <1>a, <2>2, <2>3, <2>4 DEF ExpoffAtEnd, DoneInv
<1>7. CASE \/ audio_buffer_stats \/ UNCHANGED vars
           \/ \E w \in Workers : spurious_wakeup(w)
  <2>1. UNCHANGED <<queue, player, pc, job, expoff, eot, playing,
                    playback_done>>
    BY <1>7 DEF audio_buffer_stats, vars, spurious_wakeup, gVars, fileVars
  <2> QED BY <1>a, <2>1 DEF ExpoffAtEnd, DoneInv
<1> QED BY <1>1, <1>2, <1>3, <1>4, <1>5, <1>6, <1>7, DoneServe
        DEF Next, Session

\* Only spotify_get_audio moves a worker from the wait to the end.
LEMMA TookStep ==
    ASSUME TypeInv, [Next]_vars, NEW w \in Workers, Took(w)
    PROVE  get_audio_take(w)
<1> USE DEF At, Goto, Step, Return, gVars
<1>0. /\ pc \in [Workers -> Labels]
      /\ pc[w] = "audio_take" /\ pc'[w] = "finish"
  BY DEF TypeInv, TypeOK, Took
<1>1. ASSUME NEW v \in Workers, Serve(v) PROVE get_audio_take(w)
  <2>1. pc' = pc \/ \E l \in Labels : pc' = [pc EXCEPT ![v] = l]
    BY <1>1 DEF Serve, wav_open_set, play_track, play_track_test,
       play_track_flush, play_track_done, play_track_load, play_track_set,
       play_track_error, get_track_info_header, get_track_info_seek,
       get_track_info_error, get_track_info_sleep, get_track_info_ok,
       seek_test, seek_track, seek_track_done, seek_track_player,
       seek_track_flush, seek_expoff, AfterSeek, get_audio,
       get_audio_is_playing, get_audio_is_done, get_audio_eof,
       get_audio_wait, get_audio_take, wav_read_finish, Labels
  <2>2. v = w
    BY <1>0, <2>1
  <2>3. ~ (\/ wav_open_set(w) \/ play_track(w) \/ seek_test(w)
           \/ get_track_info_header(w) \/ get_track_info_seek(w)
           \/ seek_track(w) \/ seek_expoff(w) \/ wav_read_finish(w))
    BY <1>0 DEF wav_open_set, play_track, play_track_test,
       play_track_flush, play_track_done, play_track_load, play_track_set,
       play_track_error, get_track_info_header, get_track_info_seek,
       get_track_info_error, get_track_info_sleep, get_track_info_ok,
       seek_test, seek_track, seek_track_done, seek_track_player,
       seek_track_flush, seek_expoff, wav_read_finish
  <2>4. get_audio(w)
    BY <1>1, <2>2, <2>3 DEF Serve
  <2> QED BY <1>0, <2>4 DEF get_audio, get_audio_is_playing,
             get_audio_is_done, get_audio_eof, get_audio_wait
<1>2. ~ Client
  BY <1>0 DEF Client, wav_open_test, wav_read, wav_release
<1>3. ~ (\/ Session \/ Delivery \/ audio_buffer_stats \/ UNCHANGED vars
         \/ \E v \in Workers : spurious_wakeup(v))
  BY <1>0 DEF Session, end_of_track_flush, end_of_track_playing,
     end_of_track_done, play_token_lost, Delivery, music_delivery,
     audio_buffer_stats, vars, spurious_wakeup
<1> QED BY <1>1, <1>2, <1>3 DEF Next

\* A read reports the end of the audio only when nothing plays, if tracks do
\* not fit into the buffer.
THEOREM EndMeansStopped ==
    ASSUME OneWorker, HeaderFirst, LongTracks PROVE Spec => EofMeansStopped
<1>1. BaseInv /\ RunInv /\ ExpoffAtEnd /\ DoneInv /\ [Next]_vars =>
        ExpoffAtEnd' /\ DoneInv'
  BY DoneNext DEF DoneBase
<1>2. BaseInv /\ DoneInv /\ [Next]_vars =>
        [\A w \in Workers :
            \/ pc[w] = "audio_eof" /\ pc'[w] = "finish"
            \/ Took(w) /\ heard' = heard
            => playing = NoTrack]_vars
  <2>1. ASSUME BaseInv, [Next]_vars, NEW w \in Workers, Took(w),
               heard' = heard
        PROVE  playing = NoTrack
    <3>1. get_audio_take(w)
      BY <2>1, TookStep DEF BaseInv
    <3>2. PICK k \in 0..Len(queue) :
            Yield(queue, job[w].size - job[w].read, k) /\ TakeFrames(k)
      BY <3>1 DEF get_audio_take
    <3>3. /\ queue \in Seq(Frame) /\ heard \in Seq(Frame)
          /\ Len(queue) \in Nat /\ Len(heard) \in Nat
      BY <2>1 DEF BaseInv, TypeInv, TypeOK
    <3>4. SubSeq(queue, 1, k) \in Seq(Frame) /\ Len(SubSeq(queue, 1, k)) = k
      BY <3>3
    <3>5. Len(heard') = Len(heard) + k
      BY <3>2, <3>3, <3>4 DEF TakeFrames
    <3>6. k = 0
      BY <2>1, <3>3, <3>5
    <3>7. queue = <<>>
      BY <3>2, <3>6 DEF Yield
    <3> QED BY <3>1, <3>7 DEF get_audio_take
  <2>2. ASSUME DoneInv, NEW w \in Workers, pc[w] = "audio_eof"
        PROVE  playing = NoTrack
    BY <2>2 DEF DoneInv
  <2> QED BY <2>1, <2>2
<1> QED BY <1>1, <1>2, RunInvariant, DoneInit, PTL DEF Spec, EofMeansStopped
=============================================================================
