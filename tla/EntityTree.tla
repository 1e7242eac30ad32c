----------------------------- MODULE EntityTree -----------------------------
(***************************************************************************)
(* The tree of entities behind the file system and its lazy population.    *)
(*                                                                         *)
(* A directory with a readdir operation fills itself when it is listed:    *)
(* for every playlist, track, artist or album libspotify reports, it makes *)
(* an entry unless it has one of that name.  Most entries are symbolic     *)
(* links into /browse, where each resource gets one directory, named by    *)
(* its URI and made the first time that something refers to it.  A search  *)
(* is started by mkdir; its results are linked into the new directory by   *)
(* track_search_complete_cb, on the session thread.                        *)
(*                                                                         *)
(* Nothing protects the tree: a step here is a stretch of code that reads  *)
(* or changes it once.  So an addition to a directory is two, the test     *)
(* whether the name is taken and the insertion; between them another       *)
(* thread may take the name, and the insertion then destroys its entry.    *)
(* Two calls of GLib inside each other are left out.  Entities are         *)
(* numbered in the order of their creation.                                *)
(***************************************************************************)
EXTENDS Naturals, Sequences, SequencesExt, Paths

CONSTANTS
    Workers,            \* FUSE threads
    FuseThread,         \* the one whose wrapper calls lock the api mutex
    Resources,          \* tracks, artists and albums
    Class,              \* the directory under /browse for each of them
    Uri, Title,         \* their link strings and their names
    Parts,              \* the artists of a track, the albums of an artist
    Portraits,          \* the names of the portraits of an artist
    Playlists,          \* the sequence of playlists
    Contents,           \* the track lists a playlist may have over time
    Queries, Results,   \* what is searched for and what is found
    Faulty,             \* resources libspotify may have no link string for
    NumberedName(_, _), \* "%.2d - %s.wav"
    ResultName(_),      \* "<artist> - <track>.wav"
    Sanitize(_)         \* spfs_sanitize_name: no slash, no outer blanks

ASSUME TreeAssumption ==
    /\ FuseThread \in Workers /\ "session" \notin Workers
    /\ Class \in [Resources -> {"tracks", "artists", "albums"}]
    /\ \A r \in Resources : Sanitize(Uri[r]) = Uri[r] /\ Uri[r] # ""
    /\ Faulty \subseteq Resources
    /\ \A r, s \in Resources : Uri[r] = Uri[s] => r = s

\* Lists hold what their entries are made from.
ASSUME ListAssumption ==
    /\ Playlists \in Seq(DOMAIN Contents)
    /\ \A p \in DOMAIN Contents : Contents[p] \subseteq Seq(Resources)
    /\ Parts \in [Resources -> Seq(Resources)]
    /\ \A r \in Resources : Portraits[r] \in Seq(STRING)
    /\ \A q \in Queries : Results[q] \in Seq(Resources)

\* A link string begins with "spotify:", the names of tracks end in ".wav",
\* none has a slash; the parts of a track are artists, of an artist albums.
ASSUME NameAssumption ==
    /\ \A r \in Resources :
          /\ Uri[r] \notin {"browse", "search", "playlists", "tracks", "artists",
                            "albums", "track.wav", "/", ".", ".."}
          /\ Sanitize(Title[r]) # "/"
          /\ Sanitize(ResultName(r)) \notin {"track.wav", "/", ".", ".."}
          /\ \A k \in DOMAIN Parts[r] : Class[Parts[r][k]] # Class[r]
    /\ \A p \in DOMAIN Contents : \A c \in Contents[p] : \A k \in DOMAIN c :
          Sanitize(NumberedName(k - 1, Title[c[k]])) \notin {"/", ".", ".."}

Threads == Workers \cup {"session"}

VARIABLES
    entity,     \* all entities ever created
    pc,         \* where each thread is
    dir,        \* the directory it fills
    items,      \* what it puts there
    at,         \* the item it is at
    entry,      \* the entry it has created for the item
    browse,     \* the directory under /browse the item refers to
    issued,     \* searches libspotify has not answered (external)
    cleared,    \* the threads that have found the name they are to add free
    process     \* "running", or how it has come to undefined behaviour

localVars == <<dir, items, at, entry, browse>>
treeVars == <<entity, pc, localVars, issued>>
vars == <<treeVars, cleared, process>>

None == 0           \* no entity
NoResource == ""
Ids == 1 .. Len(entity)

-----------------------------------------------------------------------------
(* Entities.                                                               *)

Dir(name, parent, ops, res) ==
    [name |-> name, parent |-> parent, kind |-> "dir", ops |-> ops,
     res |-> res, target |-> <<>>]

File(name, parent, res) ==
    [name |-> name, parent |-> parent, kind |-> "file", ops |-> "",
     res |-> res, target |-> <<>>]

\* A link starts out as a link to its own name.  Its res, what it is for, is
\* known to the one that makes it and kept here for the properties.
Link(name, res) ==
    [name |-> name, parent |-> None, kind |-> "link", ops |-> "",
     res |-> res, target |-> <<name>>]

\* The tree of spfs_init, less the connection file.
Root == 1
BrowseDir == [tracks |-> 3, artists |-> 4, albums |-> 5]
SearchDir == 6

InitialTree ==
    << Dir("", None, "", NoResource),
       Dir("browse", Root, "", NoResource),
       Dir("tracks", 2, "", NoResource), Dir("artists", 2, "", NoResource),
       Dir("albums", 2, "", NoResource),
       Dir("search", Root, "search", NoResource),
       Dir("playlists", Root, "", NoResource),
       Dir("meta", 7, "meta_lists", NoResource),
       Dir("music", 7, "music_lists", NoResource) >>

\* What create_X_browse_dir makes for r, as the entities from id on: the
\* directory and those of its entries that matter to others.
NewBrowseDir(r, id) ==
    CASE Class[r] = "tracks" ->
            << Dir(Uri[r], None, "", r), File("track.wav", id, r),
               Dir("artists", id, "artists", r) >>
      [] Class[r] = "artists" ->
            << Dir(Uri[r], None, "", r), Dir("albums", id, "albums", r),
               Dir("portraits", id, "portraits", r) >>
      [] Class[r] = "albums" -> << Dir(Uri[r], None, "", r) >>

\* g_hash_table_lookup in the children of directory d.
Child(d, name) ==
    LET found == {e \in Ids : entity[e].parent = d /\ entity[e].name = name}
    IN  IF found = {} THEN None ELSE CHOOSE e \in found : TRUE

spfs_entity_dir_get_child(d, name) == Child(d, Sanitize(name))

\* One element of a path: the last one also matches the directory reached so
\* far itself.
NextOnPath(found, path, k) ==
    IF found = None THEN None
    ELSE IF k = Len(path) /\ path[k] = entity[found].name THEN found
    ELSE IF entity[found].kind = "dir" THEN Child(found, path[k])
    ELSE None

\* spfs_entity_find_path for the elements of a path.
FindPathFrom(from, path) ==
    LET found[k \in 0 .. Len(path)] ==
            IF k = 0 THEN from ELSE NextOnPath(found[k - 1], path, k)
    IN  found[Len(path)]

spfs_entity_find_path(path) == FindPathFrom(Root, path)

\* The names on the way up, as far as there are parents.
spfs_entity_get_full_path(e) ==
    LET up[n \in Ids] ==
            IF n = Root THEN <<>>
            ELSE IF entity[n].parent = None THEN <<entity[n].name>>
            ELSE Append(up[entity[n].parent], entity[n].name)
    IN  up[e]

relpath(from, to) ==
    spfs_path_get_relative_path(spfs_entity_get_full_path(from),
                                spfs_entity_get_full_path(to))

-----------------------------------------------------------------------------
(* Listings: what a readdir operation finds to put into its directory.     *)

Item(name, kind, ops, res) ==
    [name |-> name, kind |-> kind, ops |-> ops, res |-> res]

PlaylistItems(ops) ==
    [k \in DOMAIN Playlists |->
        Item(Playlists[k], "dir", ops, Playlists[k])]

\* playlist_dir_music_readdir, with the playlist file after the tracks.
MusicItems(tracks) ==
    Append([k \in DOMAIN tracks |->
              Item(NumberedName(k - 1, Title[tracks[k]]), "wav_link", "",
                   tracks[k])],
           Item("playlist.xspf", "file", "", NoResource))

LinkItems(resources) ==
    [k \in DOMAIN resources |->
        Item(Title[resources[k]], "link", "", resources[k])]

PortraitItems(r) ==
    [k \in DOMAIN Portraits[r] |-> Item(Portraits[r][k], "file", "", r)]

ResultItems(query) ==
    [k \in DOMAIN Results[query] |->
        Item(ResultName(Results[query][k]), "wav_link", "",
             Results[query][k])]

\* libspotify may not have loaded the parts of a resource yet.
IfLoaded(list) == {list, <<>>}

Listings(d) ==
    LET r == entity[d].res IN
    CASE entity[d].ops = "music_lists" -> {PlaylistItems("music")}
      [] entity[d].ops = "meta_lists"  -> {PlaylistItems("meta")}
      [] entity[d].ops = "music" -> {MusicItems(c) : c \in Contents[r]}
      [] entity[d].ops = "meta"  -> {LinkItems(c) : c \in Contents[r]}
      [] entity[d].ops \in {"artists", "albums"} ->
            IfLoaded(LinkItems(Parts[r]))
      [] entity[d].ops = "portraits" -> IfLoaded(PortraitItems(r))
      [] OTHER -> {<<>>}

-----------------------------------------------------------------------------
(* Threads.                                                                *)

Init ==
    /\ entity = InitialTree
    /\ pc = [t \in Threads |-> "idle"]
    /\ dir = [t \in Threads |-> None]
    /\ items = [t \in Threads |-> <<>>]
    /\ at = [t \in Threads |-> 0]
    /\ entry = [t \in Threads |-> None]
    /\ browse = [t \in Threads |-> None]
    /\ issued = {}
    /\ cleared = {}
    /\ process = "running"

\* The process has not come to undefined behaviour, and does not in this step.
Running == process = "running" /\ UNCHANGED process

Goto(t, l) == pc' = [pc EXCEPT ![t] = l]

It(t) == items[t][at[t]]

\* The session thread keeps the api mutex through its callback, except when
\* it waits in a wrapper for a name or a link string to be loaded.
ApiMutexFree == pc["session"] \notin {"browse_add", "add", "target"}

\* Wrappers lock it on g_fuse_thread only.
WrapperFree(t) == t = FuseThread => ApiMutexFree

\* Go to the k-th item of the list, or answer if there is none.
Proceed(t, list, k) ==
    /\ at' = [at EXCEPT ![t] = k]
    /\ entry' = [entry EXCEPT ![t] = None]
    /\ browse' = [browse EXCEPT ![t] = None]
    /\ Goto(t, IF k > Len(list) THEN "reply"
               ELSE IF list[k].kind = "link" THEN "browse" ELSE "test")

Fill(t, d, list) ==
    /\ dir' = [dir EXCEPT ![t] = d]
    /\ items' = [items EXCEPT ![t] = list]
    /\ Proceed(t, list, 1)

NextItem(t) ==
    /\ Proceed(t, items[t], at[t] + 1)
    /\ UNCHANGED <<dir, items, issued>>

\* Where a thread adds an entity: which one, and to which directory.
AddPlaces == {"browse_add", "add", "mkdir_add"}

Adding(t) == IF pc[t] = "browse_add" THEN browse[t] ELSE entry[t]

Into(t) ==
    CASE pc[t] = "browse_add" -> BrowseDir[Class[It(t).res]]
      [] pc[t] = "mkdir_add"  -> SearchDir
      [] OTHER                -> dir[t]

\* An empty name is refused, and "cowardly" a taken one.
Refused(t) ==
    \/ entity[Adding(t)].name = ""
    \/ spfs_entity_dir_get_child(Into(t), entity[Adding(t)].name) # None

\* spfs_entity_dir_add_child up to the insertion: the name is free.
has_child_test(t) ==
    /\ Running /\ pc[t] \in AddPlaces
    /\ t \notin cleared /\ ~ Refused(t)
    /\ cleared' = cleared \cup {t}
    /\ UNCHANGED treeVars

\* The entity is given its parent.
Parented(t) == [entity EXCEPT ![Adding(t)].parent = Into(t)]

\* Mutant: the parent is set before the test.
ParentFirst(t) == t \notin cleared /\ Refused(t) /\ entity' = Parented(t)

add_refused(t) == t \notin cleared /\ Refused(t) /\ UNCHANGED entity

\* What g_hash_table_insert finds under the name.
InThePlace(t) == Child(Into(t), entity[Adding(t)].name)

\* The end of spfs_entity_dir_add_child: it has refused, or it inserts.
spfs_entity_dir_add_child(t) ==
    /\ \/ add_refused(t)
       \/ t \in cleared /\ InThePlace(t) = None /\ entity' = Parented(t)
    /\ cleared' = cleared \ {t}

\* An entry has got the name since the test: the insertion takes its place
\* and destroys it (spfs_entity_ht_destroy), though paths, open handles and
\* other threads may have it.  Its name, freed with it, stays the key.  What
\* the process does from there is undefined.
overwrite(t) ==
    /\ process = "running" /\ pc[t] \in AddPlaces
    /\ t \in cleared /\ InThePlace(t) # None
    /\ entity' = [Parented(t) EXCEPT ![InThePlace(t)].parent = None]
    /\ process' = "overwrote"
    /\ UNCHANGED <<pc, localVars, issued, cleared>>

\* spfs_opendir and spfs_readdir: the directory is found by its path.
spfs_readdir(w, d) ==
    /\ Running /\ pc[w] = "idle"
    /\ IF entity[d].ops = "artists" THEN WrapperFree(w) ELSE ApiMutexFree
    /\ entity[d].kind = "dir"
    /\ spfs_entity_find_path(spfs_entity_get_full_path(d)) = d
    /\ \E list \in Listings(d) : list # <<>> /\ Fill(w, d, list)
    /\ UNCHANGED <<entity, issued, cleared>>

\* The playlists, or the tracks of one, are not loaded in time:
\* spotify_get_playlists and spotify_get_playlist_tracks return NULL, and
\* the readdir reads its length.
readdir_crashes(w, d) ==
    /\ process = "running" /\ pc[w] = "idle" /\ ApiMutexFree
    /\ entity[d].ops \in {"music_lists", "meta_lists", "music", "meta"}
    /\ spfs_entity_find_path(spfs_entity_get_full_path(d)) = d
    /\ process' = "crashed"
    /\ UNCHANGED <<treeVars, cleared>>

\* Mutant: a directory is looked for under its title.
TitleLookup(t) ==
    spfs_entity_dir_get_child(BrowseDir[Class[It(t).res]], Title[It(t).res])

\* The browse directory of the resource an item is about.
BrowseLookup(t) ==
    spfs_entity_dir_get_child(BrowseDir[Class[It(t).res]], Uri[It(t).res])

\* Mutant: a link is given its target before it exists.
TargetFirst(t) == "target"

\* Links to directories are made after their target, others before it.
AfterBrowse(t) == IF It(t).kind = "link" THEN "test" ELSE "add"

browse_dir_known(t) ==
    /\ Running /\ pc[t] = "browse" /\ WrapperFree(t)
    /\ BrowseLookup(t) # None
    /\ browse' = [browse EXCEPT ![t] = BrowseLookup(t)]
    /\ Goto(t, AfterBrowse(t))
    /\ UNCHANGED <<entity, dir, items, at, entry, issued, cleared>>

browse_dir_create(t) ==
    /\ Running /\ pc[t] = "browse" /\ WrapperFree(t)
    /\ BrowseLookup(t) = None
    /\ entity' = entity \o NewBrowseDir(It(t).res, Len(entity) + 1)
    /\ browse' = [browse EXCEPT ![t] = Len(entity) + 1]
    /\ Goto(t, "browse_add")
    /\ UNCHANGED <<dir, items, at, entry, issued, cleared>>

\* libspotify gives no link, for one that is not loaded in time or for no
\* reason: the answer is NULL, and the entry is made all the same.
browse_dir_fails(t) ==
    /\ Running /\ pc[t] = "browse" /\ WrapperFree(t)
    /\ It(t).res \in Faulty
    /\ browse' = [browse EXCEPT ![t] = None]
    /\ Goto(t, AfterBrowse(t))
    /\ UNCHANGED <<entity, dir, items, at, entry, issued, cleared>>

\* The new directory is used even if it could not be added.
browse_dir_add(t) ==
    /\ Running /\ pc[t] = "browse_add"
    /\ spfs_entity_dir_add_child(t)
    /\ Goto(t, AfterBrowse(t))
    /\ UNCHANGED <<localVars, issued>>

\* The name of a playlist or of a track to play is asked for just before.
NameGiven(t) == It(t).kind \in {"dir", "wav_link"} => WrapperFree(t)

EntryKnown(t) == spfs_entity_dir_get_child(dir[t], It(t).name) # None

entry_known(t) ==
    /\ Running /\ pc[t] = "test" /\ NameGiven(t) /\ EntryKnown(t)
    /\ NextItem(t)
    /\ UNCHANGED <<entity, cleared>>

\* Mutant: an entity keeps the name it is made with.
RawEntry(it) ==
    CASE it.kind = "dir"  -> Dir(it.name, None, it.ops, it.res)
      [] it.kind = "file" -> File(it.name, None, it.res)
      [] OTHER            -> Link(it.name, it.res)

NewEntry(it) ==
    LET name == Sanitize(it.name) IN
    CASE it.kind = "dir"  -> Dir(name, None, it.ops, it.res)
      [] it.kind = "file" -> File(name, None, it.res)
      [] OTHER            -> Link(name, it.res)

entry_create(t) ==
    /\ Running /\ pc[t] = "test" /\ NameGiven(t) /\ ~ EntryKnown(t)
    /\ entity' = Append(entity, NewEntry(It(t)))
    /\ entry' = [entry EXCEPT ![t] = Len(entity) + 1]
    /\ Goto(t, IF It(t).kind = "wav_link" THEN "browse" ELSE "add")
    /\ UNCHANGED <<dir, items, at, browse, issued, cleared>>

entry_add_link(t) ==
    /\ Running /\ pc[t] = "add" /\ It(t).kind \in {"link", "wav_link"}
    /\ spfs_entity_dir_add_child(t)
    /\ Goto(t, "target")
    /\ UNCHANGED <<localVars, issued>>

entry_add(t) ==
    /\ Running /\ pc[t] = "add" /\ It(t).kind \in {"dir", "file"}
    /\ spfs_entity_dir_add_child(t)
    /\ NextItem(t)

\* Mutant: a link leads to the directory also where it should to the file.
DirTarget(t) == browse[t]

\* What the link is to lead to, if there is a browse directory.
Aim(t) ==
    IF It(t).kind = "link" THEN browse[t]
    ELSE FindPathFrom(browse[t], <<"track.wav">>)

\* There is no path from or to nothing, and no target is refused.
Targeted(t) ==
    IF Aim(t) = None THEN entity
    ELSE [entity EXCEPT ![entry[t]].target = relpath(dir[t], Aim(t))]

spfs_entity_link_set_target(t) ==
    /\ Running /\ pc[t] = "target"
    /\ entity' = Targeted(t)
    /\ NextItem(t)
    /\ UNCHANGED cleared

\* fill_dir_children, or the return of the callback.
reply(t) ==
    /\ Running /\ pc[t] = "reply"
    /\ Goto(t, "idle")
    /\ dir' = [dir EXCEPT ![t] = None]
    /\ items' = [items EXCEPT ![t] = <<>>]
    /\ at' = [at EXCEPT ![t] = 0]
    /\ UNCHANGED <<entity, entry, browse, issued, cleared>>

\* search_dir_mkdir: the directory is created, the search is issued with it
\* as user data, and then it is added to its parent.
search_dir_create(w, q) ==
    /\ Running /\ pc[w] = "idle"
    /\ spfs_entity_dir_get_child(SearchDir, q) = None
    /\ entity' = Append(entity, Dir(Sanitize(q), None, "results", q))
    /\ entry' = [entry EXCEPT ![w] = Len(entity) + 1]
    /\ Goto(w, "mkdir_search")
    /\ UNCHANGED <<dir, items, at, browse, issued, cleared>>

search_dir_search(w) ==
    /\ Running /\ pc[w] = "mkdir_search" /\ ApiMutexFree
    /\ issued' = issued \cup {entry[w]}
    /\ Goto(w, "mkdir_add")
    /\ UNCHANGED <<entity, localVars, cleared>>

search_dir_add(w) ==
    /\ Running /\ pc[w] = "mkdir_add"
    /\ spfs_entity_dir_add_child(w)
    /\ entry' = [entry EXCEPT ![w] = None]
    /\ Goto(w, "idle")
    /\ UNCHANGED <<dir, items, at, browse, issued>>

track_search_complete_cb(d) ==
    /\ Running /\ pc["session"] = "idle"
    /\ d \in issued
    /\ issued' = issued \ {d}
    /\ Fill("session", d, ResultItems(entity[d].res))
    /\ UNCHANGED <<entity, cleared>>

ItemStep(t) ==
    \/ browse_dir_known(t) \/ browse_dir_create(t) \/ browse_dir_add(t)
    \/ browse_dir_fails(t)
    \/ entry_known(t) \/ entry_create(t)
    \/ entry_add_link(t) \/ entry_add(t) \/ spfs_entity_link_set_target(t)
    \/ reply(t)

Work ==
    \/ \E w \in Workers :
          \/ \E d \in Ids : spfs_readdir(w, d)
          \/ \E q \in Queries : search_dir_create(w, q)
          \/ search_dir_search(w) \/ search_dir_add(w)
    \/ \E d \in issued : track_search_complete_cb(d)
    \/ \E t \in Threads : ItemStep(t)

\* Nothing is said of what comes after undefined behaviour.
stopped == process # "running" /\ UNCHANGED vars

Next ==
    \/ Work
    \/ \E t \in Threads : has_child_test(t) \/ overwrite(t)
    \/ \E w \in Workers, d \in Ids : readdir_crashes(w, d)
    \/ stopped

Spec == Init /\ [][Next]_vars

-----------------------------------------------------------------------------
(* Properties.                                                             *)

\* Types of the variables.
TypeOK ==
    /\ \A e \in Ids :
          /\ entity[e].kind \in {"dir", "file", "link"}
          /\ entity[e].parent \in 0 .. Len(entity)
    /\ pc \in [Threads -> {"idle", "browse", "browse_add", "test", "add",
                           "target", "reply", "mkdir_search", "mkdir_add"}]
    /\ pc["session"] \notin {"mkdir_search", "mkdir_add"}
    /\ \A t \in Threads :
          /\ {dir[t], entry[t], browse[t]} \subseteq 0 .. Len(entity)
          /\ at[t] \in 0 .. Len(items[t]) + 1
          /\ pc[t] \in {"add", "target"} => entry[t] # None
          /\ pc[t] = "browse_add" => browse[t] # None
          /\ pc[t] = "target" => browse[t] # None \/ It(t).res \in Faulty
    /\ issued \subseteq Ids
    /\ cleared \subseteq Threads
    /\ process \in {"running", "overwrote", "crashed"}

\* Parents lead from entity e to the root: a request can reach it.
Reachable(e) ==
    LET up[n \in Ids] ==
            n = Root \/ (entity[n].parent # None /\ up[entity[n].parent])
    IN  up[e]

Follow(l) ==
    spfs_entity_find_path(
        Walk(spfs_entity_get_full_path(entity[l].parent), entity[l].target))

Links == {e \in Ids : entity[e].kind = "link" /\ Reachable(e)}

\* The link leads to the resource it was made for: to the music where that
\* is wanted, else to the directory about it.
Leads(l) ==
    /\ Follow(l) # None
    /\ entity[Follow(l)].res = entity[l].res
    /\ entity[Follow(l)].kind =
          IF entity[entity[l].parent].ops \in {"music", "results"}
          THEN "file" ELSE "dir"

InWork(l) == \E t \in Threads : entry[t] = l

\* No insertion has taken the place of an entry (the refusal of
\* spfs_entity_dir_add_child).  Several threads do not keep this.
NothingOverwritten == process # "overwrote"

\* One thread: a directory that has an entry for a name has the same one for
\* ever: the entity in an open handle stays what its path leads to.
EntriesAreForEver ==
    [][\A d, e \in Ids : entity[e].parent = d =>
          Child(d, entity[e].name)' = Child(d, entity[e].name)]_vars

\* What is found in the place of the link, a loop for the kernel.
Itself(l) == spfs_entity_find_path(spfs_entity_get_full_path(l))

\* Several threads, until they overwrite an entry: a link may lead nowhere,
\* or to itself until it is done, but it never leads to anything else than
\* what it was made for.
NeverMisleads ==
    NothingOverwritten =>
        \A l \in Links : Follow(l) \in {None, Itself(l)} \/ Leads(l)

\* Several threads, until they overwrite an entry: every entity that is in
\* the tree is found by its path, so a resource that several find missing has
\* at most one directory under /browse.  An entry named like its directory is
\* the exception: the directory is found in its place.
FoundByPath ==
    NothingOverwritten =>
    \A e \in Ids :
        Reachable(e) =>
            spfs_entity_find_path(spfs_entity_get_full_path(e))
                = IF e # Root /\ entity[e].name = entity[entity[e].parent].name
                  THEN entity[e].parent ELSE e

\* One thread: when a listing is answered, each thing listed has its entry,
\* and the link leads to something of that name, not always to the thing: of
\* two with one name (EveryTrackLinked) the first has the link.  It leads to
\* itself, if its resource had no link string when it was made, even if it
\* has one later.
ListingComplete ==
    \A w \in Workers : pc[w] = "reply" =>
        \A k \in DOMAIN items[w] :
            LET c == spfs_entity_dir_get_child(dir[w], items[w][k].name) IN
            /\ c # None
            /\ entity[c].kind = "link" =>
                  /\ Leads(c) \/ (entity[c].res \in Faulty /\ Follow(c) = Itself(c))
                  /\ Sanitize(Title[entity[c].res])
                        = Sanitize(Title[items[w][k].res])

\* One thread: when the listing of the tracks of a playlist is answered, each
\* of them has a link that leads to it ("one for each track").  The code does not
\* keep this for tracks of one name.
EveryTrackLinked ==
    \A w \in Workers :
        pc[w] = "reply" /\ entity[dir[w]].ops = "meta" =>
            \A k \in DOMAIN items[w] :
                \E l \in Links : /\ entity[l].parent = dir[w]
                                 /\ entity[l].res = items[w][k].res
                                 /\ Leads(l)

\* Every link that is done leads to what it was made for: a track of a
\* playlist, a result of a search.
LinksLead == \A l \in Links : InWork(l) \/ Leads(l)

=============================================================================
