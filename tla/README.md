# A verification of spotifile

spotifile (`src/`) is a FUSE file system in C that shows a Spotify account as files: playlists,
searches and browse directories, and `track.wav` files that play when they are read. It sits between
FUSE's worker threads and libspotify, which has threads and callbacks of its own. This directory models
the parts where these threads meet, checks them with TLC, and proves what holds for every instance with
TLAPS. `PROJECT.json` ties every definition to the lines it stands for.

## The system

| Part | State | Operations | Talks to |
|---|---|---|---|
| Audio buffer (`spfs_audio.c`, `spfs_spotify.c`) | `g_playback`: queue, nsamples, stutter, playing, mutex, cond; `g_playback_done` | music_delivery, flush, get_audio, get_track_info, play_track, seek_track, end_of_track, play_token_lost | libspotify's player; track.wav |
| `track.wav` (`spfs_fuse_audiofile.c`) | `music_playing`, static `expoff` | wav_open, wav_read, wav_release | audio buffer |
| Session thread and api lock (`spfs_spotify.c`) | `g_running`, `g_main_thread_do_notify`, `g_spotify_api_mutex`, two conditions | spotify_thread_start, wait_on_X, wrapper macros, list functions, threads_init/destroy | libspotify's event processing; all FUSE handlers |
| Entity tree (`spfs_fuse_entity.c`) | entities with name, parent, children, link target | create, add_child, find_path, get_full_path, relpath, link_set_target | everything under FUSE |
| Lazy directories (`spfs_fuse_track.c`, `_artist.c`, `_album.c`, `_playlist.c`, `_search.c`) | none of their own | readdir operations, create_X_browse_dir, mkdir of a search, search callback | entity tree, wrappers |
| FUSE operations (`spfs_fuse.c`) | handles, `refs` | getattr, open, read, readdir, readlink, mkdir, init, destroy | dispatches to the above |
| Paths and names (`spfs_path.c`, `spfs_fuse_utils.c`, `string_utils.c`) | none | common_prefix, get_relative_path, str_replace, sanitize_name | entity tree |
| XSPF (`xspf.c`, `xspf_sanitize.c`) | builder state and document | begin/end, set_title and others, sanitize, free | playlist.xspf |
| Start (`spotify-fs.c`, session creation) | `struct spotifile_config`, arguments for FUSE | option processing, configuration file, mount check, credentials, session and bitrate | the terminal, FUSE, libspotify |
| Application key (`spfs_appkey.c`) | none | returns a constant | session creation |

What is hard here: three kinds of threads share `g_playback`, partly without its mutex; signals on a
condition variable must come after the change they announce; the api mutex is taken or not according to
the calling thread; waits give it back in the middle of a function; the entity tree is filled without
any lock by FUSE threads and by search callbacks on the session thread.
A correct buffer hands out what was delivered, in order, and never leaves a reader asleep on data; a
correct session thread keeps libspotify single-threaded, loses no event and ends; a correct tree never
changes the meaning of a path and its links lead where their names say.

The start and the text functions are sequential; what is hard there is the input: options in any order
beside a file and a terminal, names with slashes and ampersands, paths that begin alike.

## Modules

| Module | Stands for |
|---|---|
| `AudioStream` | abstract: the bounded FIFO that `g_playback` promises |
| `Playback` | audio buffer, track.wav, the player callbacks, by frames and with all threads |
| `WavFile` | one client's reads of track.wav by bytes, and the lengths in the header |
| `SessionThread` | session thread, api mutex, waits, searches, shutdown |
| `EntityTree` | entity tree, lazy directories, search directories; extends `Paths` |
| `Paths` | relative paths by elements, and the kernel following a link |
| `Text` | the string functions by characters, among them those of `Paths` |
| `Xspf` | playlist documents, built with `Text`'s sanitizing, and how a file of text is read |
| `Startup` | from the command line to a mounted file system with a session |
| `PlaybackProofs`, `WavFileProofs`, `SessionThreadProofs`, `EntityTreeProofs`, `LinkProofs`, `XspfProofs`, `StartupProofs` | the theorems |
| `SequenceLemmas` | what those of bytes, texts and arguments need of sequences: induction, recursive functions, `FlattenSeq` |
| `MCPlayback`, `MCSessionThread`, `MCEntityTree`, `MCXspf`, `MCStartup` | values for the constants |

### Playback

Actions carry the names of the functions; a function that works in several unlocked steps has one action
per step (`play_track_test`, `_flush`, `_done`, `_load`, `_set`). One section under
`g_playback->mutex` is one action. What is read or written outside it (`playing` in `spotify_play_track`,
`g_playback_done`, `music_playing`, `expoff`) is a step of its own, so that every interleaving the code
allows exists. `pc` holds where each worker is, `job` the request it serves, `eot` where the session
thread is within `spotify_end_of_track`.

- The unit is the audio frame; sizes and offsets are whole frames (`WavFile` has the bytes). A segment (`spfs_audio`) is the run
  of frames up to one marked `last`, which is what decides how much a read takes.
- `g_cond_signal` wakes one sleeper, any of them; waits also wake spuriously.
- Refused deliveries and `-EBUSY` opens change nothing and are no steps.
- `wait_on_track` under `get_track_info` returns at once: the playing track is loaded.
- `player`, `opened`, `primed` are external: libspotify's player, the kernel's handles, and whether the
  client has read the header of a handle. `HeaderFirst` says that clients begin at offset 0, as players
  do. `heard` is a history variable.
- `expoff += read` happens in one step with the end of the request.

### WavFile

One client reads a file from the start, always with the same block size. Header bytes are negative and
audio bytes are numbered in the order of their delivery, so a byte that is lost, repeated or swapped is
seen. A segment keeps its memory and its count of frames apart, as `spfs_audio` does: `spotify_get_audio`
hands out whole segments if any fits, else the front of the first one, moves the rest of the bytes to the
front (`Moved`) and subtracts whole frames only (`Rest`). A block that is no multiple of a frame
therefore gets some bytes twice; `aligned` remembers whether that happened.
`riff_size` and `data_size` compute as the 32-bit int of `fill_wav_header` does: the number of bits is a
multiple of 2^7, so that its wrap at 2^32 is one at 2^25 of what is left (`Wrap25`), which stays within
TLC's integers.
`stall` is the end of what is followed: no more deliveries, or `MaxGot` bytes read.

### SessionThread

`process_*`, `loop_*`, `lock_events` are `spotify_thread_start`; `call_*` and `wait_on_*` are a FUSE
thread (or a callback on the session thread) in a list function or a wrapper. `Locking` is the line the
design hinges on: wrappers lock only on `g_fuse_thread`. A section of the notify mutex is one action,
except that `g_running` is read and written outside it. A wait is two steps, `wait_on_test` for the test of
`is_loaded` (35) and `wait_on_sleep` for `g_cond_wait_until` (37), since only a holder of the api mutex keeps
a load from coming between them. `serving` and `unmount` are external: FUSE calls `spfs_destroy`, and with
it `spotify_threads_destroy`, after its last handler has returned. One wrapper call stands for the several calls of a
search callback. `spotify_get_track_info`, which asks libspotify for the duration of the playing track
without any mutex (spfs_spotify.c:342), is the third kind of call, `unlocked`; `ApiExclusive` excepts it by
name. Unlocking a mutex that is not locked, which GLib may abort on, is left out.

### EntityTree

A thread fills a directory item by item; a step is a stretch of code that reads or changes the tree
once: the lookup in `/browse`, the creation of the browse directory and its addition, the lookup of the
entry, its addition, the link's target. An addition is two steps, as `spfs_entity_dir_add_child` tests the
name (`has_child_test`, 137) and inserts (142) without a lock. If another thread has taken the name in
between, the insertion destroys its entry (`overwrite`); what the process does from there is undefined and
not followed (`process`). `readdir_crashes` is the list that is not loaded in time: `spotify_get_playlists`
or `spotify_get_playlist_tracks` answers NULL, and the readdir reads its length. Playlist listings, artist and album listings, portraits and
search results differ in the items and in whether the browse directory comes before or after the entry;
the model says so in the `kind` of an item. `search_dir_*` is mkdir in its three steps. Names are strings;
`Sanitize`, `NumberedName` and `ResultName` are parameters. Paths are sequences of names;
`spfs_path_get_relative_path` and `spfs_entity_find_path` are exact on them, including the cases where
they answer oddly. A link's `res` is known to its maker only and kept for the properties.
`Faulty` are resources for which libspotify may give no link string: the browse directory is then NULL and
the link stays a link to its own name. A list of parts or portraits may be empty because it is not loaded yet.
Left out: the small read-only files of a browse directory, entity times, reference counts (nothing reads
them), and two calls of GLib that run inside each other.

### Text and Paths

`Text` is a machine that calls one function at a time: `call` sets the string and the replacements to
make, `replace` is one turn of one loop, `return` hands out the answer. `str_replace` replaces the first
occurrence; `replace_all`, `spfs_replace_slashes` and `escape_ampersand` are loops or single uses of it.
Relative paths are computed at once. A string is a sequence of characters, where what follows the
ampersand of an entity (written without its `;`) and the dots of `..` count as one. Of the two quotes and the two brackets, which are treated
alike, there is one each.
`Paths` does the same on sequences of names, for `EntityTree`; `ElementsSuffice` says that it leads to the
same place for every pair of paths, also where the code answers wrongly: if one path leads through the other.

### Xspf

The builder writes and warns but never refuses, so every order of calls is a behaviour; it is followed to
its first warning. A tag is `<` and a name, with `/` between them in an end tag; `OpenElements` reads the
document character by character as an XML parser does, taking every `<` for a tag. `title` stands for the three texts that are sanitized,
`location` for the two fields that need no sanitizing. Reading applies `READ_SIZED_OFFSET` to the
finished document; all small text files of the file system are read by it.

### Startup

One action per step of `main`, `load_configuration` and `spotify_session_init`. The environment (the
configuration file, what is mounted, the terminal, libspotify) is chosen when the program looks at it. A
mountpoint is what was written, whether with a slash at the end, and the directory it is at:
`is_mounted` compares the `g_path_get_dirname` of what was written (spotify-fs.c:226) with the mount
table, and a relative path is in no mount table.

## Runs

| Run | Instance | Shows |
|---|---|---|
| `playback_s` | one worker (FUSE `-s`), two handles on two tracks of 4 frames, limit 1, chunks of up to 2, all events, fairness | types; bounded buffer; no sleep on data; one open handle; gap-free audio; audio of the right track; an empty read means that nothing plays; reads and waits for audio end |
| `playback_mt` | two workers on one handle each, tracks of 2 frames, end of track and lost token | exact sample count; `playing` is what is delivered; `AudioStream` is implemented |
| `end_of_track_hang` | one worker, fairness, end of track | **violated** `GetAudioAlwaysReturns` |
| `track_info_hang` | fairness, lost token | **violated** `TrackInfoReturns` |
| `wav_bytes` | frames of 2 bytes, a header of 3, blocks of 1 to 8 bytes, deliveries of 1, 3 and 4 frames up to 7, `expoff` left over or not, durations around the limits | reads stay within a segment's memory; header and audio exactly once if blocks are aligned, nothing skipped otherwise; the buffer empties; the announced length fits |
| `session_s` | the FUSE thread, two objects, a search, fairness | api mutex exclusive; no missed load; calls return, events are processed, unmounting ends |
| `session_mt` | two FUSE threads | **violated** `ApiExclusive` |
| `tree_s` | one FUSE thread; two tracks of one name, one of which may have no link string, artist, album, portrait; a playlist with two contents | listings are complete up to equal names and their links right, after any listings before; entries stay |
| `tree_search` | a FUSE thread, a search result that is also in a playlist and may have no link string, a playlist named `music` | until an insertion overwrites an entry, every entity is found by its path and no link misleads |
| `tree_links` | a FUSE thread and a search | **violated** `LinksLead` |
| `strings` | names of up to 5 characters of 3, texts of up to 4 of 6, paths of up to three elements that begin alike; documents of up to `MaxCalls` = 8 calls, read in pieces of 1, 2 and 7 | names are safe; texts with one `&` are escaped; relative paths lead there unless one path leads through the other; elements suffice; tags nest; pieces join; calls end |
| `startup` | every option, up to `MaxArgs` = 3 of them, two values where the last one counts, four configuration files | what wins, what FUSE gets, where messages go |

Why the bounds suffice. A limit of one frame with chunks of two makes every buffer state occur: empty, at
the limit, above it, and a segment partly taken. The sizes 1 and 3 are less and more than a segment,
so all three branches of the loop in `spotify_get_audio` are taken, and the offsets fall inside the header,
right after it, and in a seek backwards and forwards. Two tracks are what a change of tracks needs. `MaxStutter` caps
a counter that only statistics read. In `wav_bytes` blocks are smaller than a frame, not a multiple of one,
and larger than a segment, and 7 frames let a cut segment be cut again with another behind it.
In the session model two objects let one be loaded while another
is waited for. In the tree two tracks collide in their sanitized names, and a playlist that changes its
contents reuses an index for another track. In `strings`, four characters hold two ampersands and a
placeholder of two, `MaxText` is never reached, and eight calls are a playlist with a track with texts, or
with two tracks. `MCStartup` has each option, and three arguments hold two of one kind and another between.

What the violations mean:

- `end_of_track_hang`: `spotify_end_of_track` flushes (and signals) before it clears `playing`
  (spfs_spotify.c:144-147). A read that wakes in between finds an empty queue and a playing track, sleeps
  again and is never signalled. The same happens to a read that begins its wait there.
- `track_info_hang`: `spotify_get_track_info` looks at `playing` only once, before its loop (328-335).
- `session_mt`: on a FUSE thread other than the one that ran `spfs_init`, wrappers call libspotify
  without the api mutex, beside the session thread (53-54), and a wait (37) returns with a mutex that
  nobody unlocks. FUSE is multi-threaded unless run with `-s`.
- `tree_links`: `search_dir_mkdir` issues the search with a directory that has no parent yet
  (spfs_fuse_search.c:34-40). Results that arrive in between get targets relative to `/query` instead of
  `/search/query`. The run's property also fails by the race in `create_track_browse_dir`, where the loser
  links to a directory that was refused by its parent.

What the code promises and does not keep beyond these runs. The properties are stated beside the others and
no configuration names them; put into the one that is given, as the only property, TLC refutes each:

| Property | With | What happens |
|---|---|---|
| `NothingOverwritten` | `tree_search` | "cowardly refusing to overwrite existing child" (spfs_fuse_entity.c:138): a FUSE thread and a search callback both find a track's browse directory missing, both pass the test (137), and the second insertion (142) destroys the directory that the first has put into the tree, with links to it and perhaps open handles. The action `overwrite` is that step |
| `EveryTrackLinked` | `tree_s` | "one for each track in the playlist" (README.md:117): a playlist's `meta` directory makes a link only under a name it does not have yet (spfs_fuse_playlist.c:18), so of two tracks of one name one has none |
| `EveryTextEscaped` | `strings` | "be sure to esacpe whatever needs to be escaped" (xspf_sanitize.c:17-22): `xspf_escape_ampersand` calls `str_replace` once, so of several `&` the first only is escaped, and a `!amp;` in the text is taken for the placeholder. `OtherTextsAreWrong` proves it of every such text |
| `EveryRelativePathLeads` | `strings` | "the relative path from path from to path to" or NULL (spfs_path.h:11-17): if one path leads through the other, the shorter is taken for the common prefix. From `/a` to `/a/b` the answer is `/b`, from `/a/b` to `/a` it is `../..`. `RelativePathsOfElements` proves it of every such pair |
| `MountedIsNoticed` | `startup` | "Already mounted on" (spotify-fs.c:279-280): a mountpoint written without a slash at the end is looked for by the directory above it, a relative one as it was written, so that one in use is mounted once more |
| `ReleaseFindsBusy`, `OneOpenHandle` | `playback_mt` | the assertion of `wav_release` (spfs_fuse_audiofile.c:47-48): `wav_open` tests `music_playing` and sets it in a second step (40-42), so two FUSE threads both find the device free, and the release of one clears the flag under the other |
| `NoMissedLoad` | `session_mt` | a thread without the api mutex tests `is_loaded`, the object is loaded and the broadcast passes, and it goes to sleep until its timeout |

Properties that hold only in a weakened form:

- `OwnTrack` is about clients that begin at offset 0 (`HeaderFirst`): only a read there loads the file's
  track (spfs_fuse_audiofile.c:59). With `HeaderFirst` FALSE it fails.
- `EofMeansStopped`: for tracks longer than the buffer holds (two seconds and a delivery).
- `ByteStream`: blocks that are no multiple of a frame get bytes twice.
- `HeaderLength`: up to 25 minutes; from 1522 seconds on the arithmetic wraps.
- `PlayingIsDelivered` leaves out the steps within a load and within `spotify_end_of_track`, among them
  an unlocked read of `playing` by a reader while `end_of_track` runs.
- `OneOpenHandle`: one worker. `NoMissedLoad`: one FUSE thread. Both fail with two.
- `TextsEscaped`: texts with at most one `&` and no `!amp;`.
- `RelativePathsLead`: unless one path leads through the other; the tree never asks for such a path but for
  the link of an entry named like its directory.
- `ListingComplete`: of tracks with equal names one is enough (`EveryTrackLinked` is the full promise), and
  a link made while its resource had no link string leads to itself for ever.
- `EntriesAreForEver`: one FUSE thread and no searches. `FoundByPath` and `NeverMisleads` are for any number
  of threads, until an insertion overwrites an entry.

## Fairness

Every thread that can run does run (weak fairness per worker). Strong fairness on acquiring the api mutex
and on returning from a wait: these compete for a mutex that is free again and again, and pthread mutexes
do not starve a waiter for ever in practice. `end_time` is fixed before the wait, so it passes whatever
wakes the thread in between (strong fairness on expiry). libspotify offers frames while it plays, ends a
track it has delivered, announces its events, and does not ask for immediate processing for ever.
A string function that was called goes on, a reader of track.wav reads as long as there is a segment.
Nothing else is assumed of clients, of token loss, or of spurious wakeups.
`ShutdownCompletes` thus rests on the timeout that `process_events` returns: nothing in
`spotify_threads_destroy` wakes the thread.

## Proofs

Every theorem is for any values of the constants that satisfy the named assumptions of its module.

| Theorem | Property | Argument |
|---|---|---|
| `PlaybackProofs!TypeCorrect` | `TypeOK` | inductive `TypeInv` = `TypeOK` and `PlayerLoaded` (a player that is not stopped has a track: delivered frames have a type) and `InHeader` (a read at a header label began inside the header: the header bytes are not negative) |
| `AccountingCorrect`, `BufferBound` | `BufferAccounting`, `BufferBounded` | together inductive: `Room` looks at nsamples, the bound is about the queue. Lemma `BufferStep` shows that each step leaves, empties, shortens or extends the queue with nsamples in step |
| `PlaybackImplementsStream` | `StreamSpec` | the refinement pending <- queue, heard <- heard, each action mapped to Deliver, Take, Discard, Reposition or a stutter |
| `PlayingCorrect` | `PlayingIsDelivered` | `PlayingInv`: who holds the api mutex (`ApiOwner`), and what holds in the middle of a load (`LoadInProgress`) and of an end of track (`EndInProgress`) |
| `NobodySleepsOnData`, `OneFileIsOpen` | `NoSleepOnData`, `OneOpenHandle` | assume `OneWorker` (`-s`). The first is inductive; `HandleInv` adds that only an open handle is read or primed |
| `AudioIsGapFree`, `AudioIsOfTheTrack`, `EndMeansStopped` | `GapFree`, `OwnTrack`, `EofMeansStopped` | assume `OneWorker` and `HeaderFirst`, the last also `LongTracks` (a track does not fit into the buffer). See below |
| `SessionThreadProofs!TypeCorrect` | `TypeOK` | `TypeInv` adds the kind of call that a callback makes |
| `ApiIsExclusive` | `ApiExclusive` | assumes `SingleThreaded`. `TypeOK` leaves open who owns the mutex at each label; `MutexInv` says it: a caller in a locking call owns it, the session thread owns it while it processes events unless it waits, and nobody waits in a call that took no mutex |
| `NoLoadIsMissed` | `NoMissedLoad` | assumes `SingleThreaded`. `WaitInv`: whoever sleeps is at the wait, and what a thread has found not loaded is still not loaded when it goes to sleep (`StillMissing`): the api mutex, or being the session thread itself, keeps `process_load` away (`MissingKept`) |
| `EntityTreeProofs!TypeCorrect`, `TreeIsOrdered` | `TypeOK`, none | assume `SanitizedStays`: a sanitized name stays as it is (`NamesSanitized` in `strings`). `TreeInv` until an insertion overwrites an entry, of which `Typed` is left then (`OverwriteTyped`). See below |
| `EntriesStay` | `EntriesAreForEver` | assumes `SanitizedStays` and `OneThread` (one FUSE thread, no searches). `StillFree`: the name that was found free is free until the insertion. See below |
| `FoundByItsPath` | `FoundByPath` | assumes `SanitizedStays`. Until an insertion overwrites an entry. `DirsInv`: parents, and whatever a thread fills or a search will fill, are directories. See below |
| `LinkProofs!RelativePathsOfElements` | none | for paths of any length: the answer of `spfs_path_get_relative_path` leads there if and only if neither path leads through the other (`Through`), or one is the root |
| `LinkProofs!LinksNeverMislead` | `NeverMisleads` | assumes `SanitizedStays` and `NoDots`: no title is `.` or `..`. Until an insertion overwrites an entry. `ShapeInv`: from where and to what each link's target was made. See below |
| `WavFileProofs!TypeCorrect`, `CutsStayWithin`, `ByteStreamIsComplete` | `TypeOK`, `WithinSegments`, `ByteStream` | `WavInv`: what the client has after the header, followed by the bytes in the buffer, is the stream of all bytes delivered. See below |
| `WavFileProofs!HeaderIsRight` | `HeaderLength` | arithmetic on quotient and remainder by 1000: nothing wraps below 2^24 units |
| `XspfProofs!TypeCorrect`, `NamesAreSanitized`, `TextsAreEscaped`, `OtherTextsAreWrong` | `TypeOK`, `NamesSanitized`, `TextsEscaped`, none | `TextInv`: the text is the argument in pieces, one for each character, and each piece changes once. See below |
| `TagsAreNested`, `PartsAreJoined` | `TagsNested`, `PartsJoin` | `DocInv`: what is open in the document is what the state stands for, unless the builder has warned; the reader has the first part of it |
| `StartupProofs!TypeCorrect`, `ServedCorrectly` | `TypeOK`, `ServedAsAsked` | `StartupInv` says at each stage of `main` where each setting is from and what is in FUSE's arguments |

Why one reader hears its track without a gap is not written anywhere in the code. `spotify_play_track`
flushes before it loads, so frames of the old track may arrive in between and stay in the buffer; and the
end of the old track may set `g_playback_done` again. What saves the read is the static `expoff`: the new
read is at offset 0, and `expoff` is not 0 while anything is delivered (`ExpoffInv`), so it seeks, which
flushes and resets once more. `RunInv` says this: at every label the queue holds the last frames delivered
and `heard` those before (`Good`), or no handle is primed and the next read will seek (`WillSeek`).
`TrackInv` says which track is loaded at each label. `ExpoffAtEnd` carries the argument through the end of
a track; there a track that fits into the buffer would be an exception, since it may end before its first
frame is read: TLC refutes `EofMeansStopped` for `TrackLen` = 3 in `playback_s`, which is limit plus chunk.

That no directory has two entries of a name, and that an entry stays, is not inductive. A step may only give
a parent to an entity that has none, but `spfs_entity_dir_add_child` tests the name it gets, sanitized, and
not whether the entity has a parent already. `TreeInv` therefore follows what each thread holds between
creating and adding: an entity `Held` by a thread has no parent, a sanitized name, is younger
than the directory it goes to, and is held by no other thread (`OneHolder`). The proof has one lemma per
action that shows a `ThreadStep`: the tree changes in one of four ways (`TreeStep`), only what the thread
holds gets a parent, and the thread holds afterwards only that or something new. Lemma `TreeAfter` shows
that such a change keeps the tree in order and its names unique, and `OtherThreadOK` that nothing is
disturbed in any other thread, however many there are. An insertion in the place of another entry takes that
one out of the tree and keeps names unique (`OverwriteFacts`). It is possible only if another thread has come
between test and insertion; for a thread that is alone `StillFree` excludes it, and then an entry stays.

That everything in the tree is found by its path (`FoundByPath`) follows from the order of the tree, from
its names being unique and from `DirsInv`: a lookup goes on in directories only, so parents must be
directories, and with them the directories that threads fill, that mkdir makes and that searches are issued
with. Ids order the tree, since a parent is older than its children; `WayDown` says by induction over them
that within any longer path the path of an entity leads to it, and only the last element is
special (`EntityFound`). The paths of both directions are recursive functions: `Ascent` and `Recursion` of
`SequenceLemmas` show that they exist.

A link's target is a relative path from its directory to another one, taken once, at a moment when either
may not be in the tree; `NeverMisleads` looks at where it leads later, among whatever has been added since.
`ShapeInv` says of every entity what made it: the initial tree, a listing, a search, or a browse directory
(`Shape`); of a link, that its target is the name it was created with, or leads from where its directory
was (`Origin`) to a place made for its resource, and nowhere else (`LinkShape`, `LedFrom`, `Homes`); and of
every thread, that its list, the entry and the directory it holds belong together (`Fits`). The way up from
an entity in the tree never changes (`WaysStay`), so a target taken from a directory in the tree stays
right (`WalkHome`, `LeadsOver`), by `RelativePathsOfElements`, since no place of a link is within the place
it leads to. What is found there is the resource or nothing (`HomeFound`): names in a directory are unique,
and only a browse directory of that resource gets its link string for a name. The exception is the
directory of a search before mkdir has added it: its path is then one element shorter, and a target taken
from it goes up too little. It leads to the right path put below `/search`, or, if the
query is `browse`, to that path without its first name (`Astray`), and nothing is there (`NothingBelow`,
`NothingShorter`). This is where names matter: if a link
string could be `tracks`, or the name of a search result `track.wav`, a target that goes astray could meet
something by accident. `NameAssumption` excludes it, as `spotify:` and `.wav` do in the code. A link whose
target is still its own name leads to itself; if it is named like its directory, `spfs_entity_find_path`
finds the directory in its place, and `Itself` says so.

`NoDots` is an assumption about Spotify's catalogue and not about the code: `spfs_sanitize_name` lets `.`
and `..` pass. An entry of such a name is listed, but no path the kernel looks up leads to it, and the
target of a link through it goes up or stays. Titles of tracks are safe where a number is put in front and
`.wav` behind; artists and albums are listed by their bare title.

Bytes, texts and documents are defined by folds and recursive functions. The library's induction theorems
take an operator and cannot be used here, so `SequenceLemmas` proves from the well-ordering of numbers
that a set of naturals with 0 and all successors is all of them (`SetInduction`), that a recursion has a
function (`Recursion`), and from these what `FlattenSeq` is of a sequence that is extended, divided, or
has one element replaced. Every later induction is over a set of numbers.

A read of `track.wav` that cuts a segment within a frame leaves bytes in it that were given out already.
`WavInv` says of the client's bytes and those in the buffer together (`Streams`) that they are the bytes
delivered, none in front of the one it follows (`Gapless`), and each once and in order as long as cuts fall
on frames. Lemma `Cut` shows that what stays of a segment is again a segment (its memory holds at least
the frames it counts, which is why `memmove` stays within it), and that its bytes are those left and
perhaps some that come again; lemma `Taken`, that a read takes whole segments or cuts the first one. The
other half of the invariant is about `expoff`, which is shared by all files: if it is not what the client
has, the client has nothing and its first read will seek.

`xspf_sanitize` replaces in the whole text, and what it puts in for one character could make up, with its
neighbours, what it looks for later. The proof takes the text to pieces: `Stage` is the replacement that
changes the piece of a character, `Kept` and `Written` are the piece before and after. `Pieces` says that
with `k` replacements left every piece is one or the other, according to its stage. So a `!amp;` of the
argument is the only thing mistaken for one put in (`Mistaken`), and exactly that and a second ampersand
make the answer wrong (`XmlResult`). That no piece ever holds a bare `<` carries over to documents:
`Reads` says that a document does not end within a tag and what is open in it, and `StartTagRead`,
`EndTagRead` and `ContentRead` how that changes with what the builder appends. So `TagsNested` rests on the
warnings and on the escaping, as the code intends.

What the constants have to satisfy: in `WavFile` sizes are positive numbers; in `Text` and `Xspf` names,
texts and titles are sequences of strings, and `MaxText`, which caps a text that grows, is large enough
never to stop a replacement (`TypeOK`); in `Startup` a configuration file says something of the four
settings only; in `EntityTree`
link strings are unique, not empty and no name of the initial tree, names that a number or an artist is put
in front of are not `/`, `.` or `..`, and the parts of a track or an artist are not of its own class
(`TreeAssumption`, `NameAssumption`).

Only model-checked: all liveness and fairness (out of reach of the prover); that a listing by one
thread is complete and each of its links right (`ListingComplete`); and what is said of paths by characters
(`RelativePathsLead`, `ElementsSuffice`), whose counterpart by elements is `RelativePathsOfElements`.

## Not modelled

- The stutter statistics beyond their cap, entity times, `releasedir`'s unsigned `refs` (decremented by one
  more than they are incremented, never read; spfs_fuse.c:115), the wording of messages and the application
  key: nothing depends on them.
- The milliseconds of `event_timeout` added to microseconds (spfs_spotify.c:708): the model has no clock;
  the thread wakes early, and every wakeup is allowed to be early.
- What libspotify does with a NULL session or track, and the corruption of a GHashTable or of a freed
  string by two threads: undefined behaviour below the state that is modelled.
- Texts that change between two reads of one file: their pieces are joined without a sign.
- Two waits for audio at once: a second handle is refused, so it takes duplicated descriptors and several
  FUSE threads.
- What the process does after it has read a list that is NULL (`readdir_crashes`) or destroyed an entry that
  is in use (`overwrite`).
- The destruction of the tree at unmount, when FUSE has no handler running and the session thread is joined
  (spfs_spotify.c:304).

## Plan

What is left, in the order of what it would say:

1. `ListingComplete` for one worker. `NeverMisleads` gives half of it; the rest is that an entry found under
   a name was made by an earlier listing for a resource of that name, which needs the history of a
   playlist's contents in the invariant.
2. That the functions of `Text` on characters agree with those of `Paths` on elements for strings of any
   length (`ElementsSuffice` compares them for short ones).
3. `Playback` with two readers of one handle, for the signal of a lost play token.
