------------------------------- MODULE WavFile -------------------------------
(***************************************************************************)
(* A track.wav file byte by byte, as a client sees it that reads on and on *)
(* with one block size.  Playback has the threads and counts frames; this  *)
(* module has the bytes: segments that are handed out in parts which are   *)
(* no whole number of frames, the header in front, and the lengths that    *)
(* the header announces.                                                   *)
(*                                                                         *)
(* Header bytes are -1, -2, ...; audio bytes are 1, 2, ... in the order in *)
(* which libspotify delivers them.                                         *)
(***************************************************************************)
EXTENDS Integers, Sequences, SequencesExt

CONSTANTS
    FrameBytes,     \* sizeof(int16_t) * channels
    HeaderLen,      \* sizeof(struct wav_header)
    Chunks,         \* frames of one delivery
    TotalFrames,    \* bounds the frames delivered from one position
    Blocks,         \* block sizes of clients
    StaleOffsets,   \* what the static expoff may be when the file is opened
    Durations,      \* lengths of tracks in milliseconds
    MaxGot          \* bounds the bytes a client receives

ASSUME WavAssumption ==
    /\ FrameBytes \in Nat \ {0} /\ HeaderLen \in Nat \ {0}
    /\ Chunks \subseteq Nat \ {0} /\ Blocks \subseteq Nat \ {0}
    /\ TotalFrames \in Nat /\ MaxGot \in Nat
    /\ StaleOffsets \subseteq Nat /\ Durations \subseteq Nat

VARIABLES
    queue,      \* g_playback->queue
    nsamples,   \* g_playback->nsamples
    delivered,  \* frames delivered since the player was at the beginning
    expoff,     \* the static expoff of wav_read
    block,      \* the block size of this client
    duration,   \* of this track
    got,        \* what the client has received
    aligned     \* history: no segment was cut within a frame

vars == <<queue, nsamples, delivered, expoff, block, duration, got, aligned>>

-----------------------------------------------------------------------------
(* The header.  A 32-bit int holds the number of bits; its multiplication  *)
(* by 2 * 16 * 44100 wraps.  That factor is 2^7 * 11025, so the bits are   *)
(* 2^7 times a number that wraps at 2^25, and the bytes 2^4 times it.  A   *)
(* negative length stands for the uint32_t 2^32 more.                      *)

Rate == 44100
BytesPerSecond == 4 * Rate

Wrap25(n) == ((n + 2 ^ 24) % 2 ^ 25) - 2 ^ 24

\* h->size and h->data_size of fill_wav_header.
riff_size(ms) == 44 + 16 * Wrap25((ms \div 1000) * (Rate \div 4)) - 8

\* Mutant: the header is not taken off.
UncutSize(ms) == riff_size(ms)

data_size(ms) == riff_size(ms) - 44

Header == [i \in 1 .. HeaderLen |-> -i]

-----------------------------------------------------------------------------
(* The buffer.                                                             *)

\* The bytes of the next n frames.
Audio(n) == [i \in 1 .. n * FrameBytes |-> delivered * FrameBytes + i]

\* seg_sz of spotify_get_audio: what a segment is taken to hold.
SegSize(seg) == seg.nsamples * FrameBytes

\* Beyond the memory of a segment there are other bytes: 0.
Held(segs) ==
    FlattenSeq([i \in DOMAIN segs |->
        [j \in 1 .. SegSize(segs[i]) |->
            IF j \in DOMAIN segs[i].samples THEN segs[i].samples[j] ELSE 0]])

\* How many segments fit into size bytes.
Fitting(size) ==
    CHOOSE k \in 0 .. Len(queue) :
        /\ Len(Held(SubSeq(queue, 1, k))) <= size
        /\ k < Len(queue) => Len(Held(SubSeq(queue, 1, k + 1))) > size

\* memmove: the bytes from size on go to the front of a segment
\* that keeps its memory.
Moved(seg, size) ==
    [i \in DOMAIN seg.samples |->
        IF i <= SegSize(seg) - size THEN seg.samples[i + size]
        ELSE seg.samples[i]]

\* Mutants: the memory shrinks; nothing is moved; nothing is
\* subtracted.
Shrunk(seg, size) ==
    [samples  |-> SubSeq(seg.samples, size + 1, SegSize(seg)),
     nsamples |-> seg.nsamples - size \div FrameBytes]
Unmoved(seg, size) ==
    [seg EXCEPT !.nsamples = @ - size \div FrameBytes]
Uncounted(seg, size) == [seg EXCEPT !.samples = Moved(seg, size)]

\* What is left of a segment: only whole frames are subtracted.
Rest(seg, size) ==
    [samples  |-> Moved(seg, size),
     nsamples |-> seg.nsamples - size \div FrameBytes]

\* spotify_get_audio on a queue that is not empty, after the header bytes h:
\* all segments that fit or, if none does, the front of the first one.
get_audio(h, size) ==
    LET k == Fitting(size)
        first == Head(queue)
    IN  IF k > 0
        THEN /\ got' = got \o h \o Held(SubSeq(queue, 1, k))
             /\ queue' = SubSeq(queue, k + 1, Len(queue))
             /\ nsamples' = nsamples - Len(Held(SubSeq(queue, 1, k))) \div FrameBytes
             /\ aligned' = aligned
        ELSE /\ got' = got \o h \o SubSeq(first.samples, 1, size)
             /\ queue' = <<Rest(first, size)>> \o Tail(queue)
             /\ nsamples' = nsamples - size \div FrameBytes
             /\ aligned' = (aligned /\ size % FrameBytes = 0)

-----------------------------------------------------------------------------
(* The specification.                                                      *)

Init ==
    /\ queue = <<>> /\ nsamples = 0 /\ delivered = 0
    /\ expoff \in StaleOffsets
    /\ block \in Blocks
    /\ duration \in Durations
    /\ got = <<>>
    /\ aligned = TRUE

music_delivery(n) ==
    /\ delivered + n <= TotalFrames
    /\ queue' = Append(queue, [samples |-> Audio(n), nsamples |-> n])
    /\ nsamples' = nsamples + n
    /\ delivered' = delivered + n
    /\ UNCHANGED <<expoff, block, duration, got, aligned>>

\* The first read finds the offset another file left behind and seeks, once
\* there is a segment to tell rate and channels: all is flushed.
wav_read_seek ==
    /\ queue # <<>>
    /\ expoff # Len(got)
    /\ expoff' = Len(got)
    /\ queue' = <<>> /\ nsamples' = 0
    /\ delivered' = 0
    /\ UNCHANGED <<block, duration, got, aligned>>

HeaderPart(offset, size) == SubSeq(Header, offset + 1, offset + size)

\* A block at the offset the client has come to.  (A first block within the
\* header is answered one delivery later than by the code if there was a seek.)
wav_read ==
    LET offset == Len(got)
        h == HeaderPart(offset, IF offset + block > HeaderLen
                                THEN HeaderLen - offset ELSE block)
    IN  /\ queue # <<>> /\ expoff = offset /\ offset < MaxGot
        /\ IF Len(h) < block /\ offset + Len(h) >= HeaderLen
           THEN get_audio(h, block - Len(h))
           ELSE got' = got \o h /\ UNCHANGED <<queue, nsamples, aligned>>
        /\ expoff' = Len(got')
        /\ UNCHANGED <<delivered, block, duration>>

\* The client waits for more, or is not followed any further.
stall ==
    /\ \/ queue = <<>> /\ delivered = TotalFrames
       \/ Len(got) >= MaxGot
    /\ UNCHANGED vars

Next ==
    \/ \E n \in Chunks : music_delivery(n)
    \/ wav_read_seek \/ wav_read
    \/ stall

Spec == Init /\ [][Next]_vars /\ WF_vars(wav_read_seek \/ wav_read)

-----------------------------------------------------------------------------
(* Properties.                                                             *)

\* The bytes that libspotify has delivered.
Delivered == [i \in 1 .. delivered * FrameBytes |-> i]

GotAudio == SubSeq(got, HeaderLen + 1, Len(got))

\* Segments hold bytes, and the buffer counts the frames they claim.
TypeOK ==
    /\ \A i \in DOMAIN queue :
          /\ queue[i].nsamples \in Nat \ {0}
          /\ queue[i].samples \in Seq(1 .. TotalFrames * FrameBytes)
    /\ Len(Held(queue)) = nsamples * FrameBytes
    /\ delivered \in 0 .. TotalFrames
    /\ expoff \in Nat /\ block \in Blocks /\ duration \in Durations
    /\ got \in Seq(Int) /\ aligned \in BOOLEAN

\* However a segment is cut, memcpy and memmove stay within its memory.
WithinSegments ==
    \A i \in DOMAIN queue : SegSize(queue[i]) <= Len(queue[i].samples)

\* However segments are cut, no byte is passed over: each one is handed out
\* after the one before it, and those that are not are in the buffer.  (Some
\* come twice.)
NothingSkipped ==
    /\ \A i \in DOMAIN GotAudio :
          GotAudio[i] = 1 \/ \E j \in 1 .. i - 1 : GotAudio[j] = GotAudio[i] - 1
    /\ ToSet(GotAudio) \cup ToSet(Held(queue)) = ToSet(Delivered)

\* A client gets the header and then the delivered bytes with none left out;
\* and while segments are cut at frames it gets each of them once, and the
\* buffer holds the others.
ByteStream ==
    /\ IsPrefix(got, Header) \/ IsPrefix(Header, got)
    /\ NothingSkipped
    /\ aligned => GotAudio \o Held(queue) = Delivered

\* The bytes of a track of that many milliseconds.
TrackBytes(ms) ==
    (ms \div 1000) * BytesPerSecond
        + ((ms % 1000) * (BytesPerSecond \div 100)) \div 10

\* For tracks of at least a second, as far as the arithmetic does not wrap
\* (25 minutes), the header announces no more bytes than the track has, and
\* at most a second and 8 bytes less.
HeaderLength ==
    duration >= 1000 /\ duration < 1522000 =>
        /\ data_size(duration) <= TrackBytes(duration)
        /\ TrackBytes(duration) <= data_size(duration) + BytesPerSecond + 7

\* A client that reads at least a frame at a time empties the buffer: cut
\* segments do not last for ever.
Drains == block >= FrameBytes => (queue # <<>> ~> queue = <<>>)
=============================================================================
