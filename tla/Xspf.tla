-------------------------------- MODULE Xspf --------------------------------
(***************************************************************************)
(* The XSPF builder, which sanitizes every text it writes, and the reading *)
(* of the finished text, piece by piece, as of any small text file of the  *)
(* file system: each read makes the whole text again and copies its part.  *)
(*                                                                         *)
(* The builder never refuses a call, it warns.  A document is followed up  *)
(* to the first warning.                                                   *)
(***************************************************************************)
EXTENDS Text

CONSTANTS
    Titles,     \* texts written into documents
    MaxCalls,   \* bounds the calls of the builder
    Sizes       \* sizes of reads

XspfStates == {"none", "INIT", "PLAYLIST_BEGIN", "TRACKLIST_BEGIN", "TRACK_BEGIN",
               "freed"}

ASSUME XspfAssumption ==
    /\ Titles \subseteq Seq(STRING)
    /\ \A s \in Titles : 2 * Len(s) <= MaxText
    /\ MaxCalls \in Nat
    /\ Sizes \subseteq Nat \ {0}

VARIABLES
    state,      \* of the builder
    string,     \* the document so far
    warned,     \* a g_warn_if_fail has failed
    ncalls,     \* calls of the builder so far
    field,      \* the element whose text is being sanitized, or "none"
    got,        \* what a reader has been given
    eof         \* ... and that there is no more

docVars == <<state, string, warned, ncalls, field>>
readVars == <<got, eof>>
vars == <<textVars, docVars, readVars>>

TypeOK ==
    /\ fn \in {"none", "name", "xml", "path"}
    /\ state \in XspfStates /\ warned \in BOOLEAN
    /\ ncalls \in 0 .. MaxCalls
    /\ field \in {"none", "title"}
    /\ eof \in BOOLEAN
    /\ fn # "path" => Len(text) <= MaxText
    /\ fn = "none" => todo = <<>>
    /\ Len(got) <= Len(string)

Init ==
    /\ TextInit
    /\ state = "none" /\ string = <<>> /\ warned = FALSE /\ ncalls = 0
    /\ field = "none"
    /\ got = <<>> /\ eof = FALSE

-----------------------------------------------------------------------------
(* The builder.  A tag is "<" and its name, with "/" before the name in an *)
(* end tag; the rest is left out.                                          *)

StartTag(name) == <<"<", name>>
EndTag(name) == <<"<", "/", name>>

xspf_new ==
    /\ state = "none" /\ fn = "none"
    /\ state' = "INIT"
    /\ UNCHANGED <<textVars, string, warned, ncalls, field, readVars>>

Building ==
    /\ fn = "none" /\ state \notin {"none", "freed"}
    /\ ~ warned /\ ncalls < MaxCalls

\* Append a tag, warn if the state is not the one expected.
tag(expected, markup, next) ==
    /\ Building
    /\ warned' = (state # expected)
    /\ string' = string \o markup
    /\ state' = next
    /\ ncalls' = ncalls + 1
    /\ UNCHANGED <<textVars, field, readVars>>

\* Mutant: a track is ended anywhere without a warning.
EndsAnything == tag(state, EndTag("track"), "TRACKLIST_BEGIN")

xspf_begin_playlist  == tag("INIT", StartTag("playlist"), "PLAYLIST_BEGIN")
xspf_end_playlist    == tag("PLAYLIST_BEGIN", EndTag("playlist"), "INIT")
xspf_begin_tracklist == tag("PLAYLIST_BEGIN", StartTag("trackList"), "TRACKLIST_BEGIN")
xspf_end_tracklist   == tag("TRACKLIST_BEGIN", EndTag("trackList"), "PLAYLIST_BEGIN")
xspf_begin_track     == tag("TRACKLIST_BEGIN", StartTag("track"), "TRACK_BEGIN")
xspf_end_track       == tag("TRACK_BEGIN", EndTag("track"), "TRACKLIST_BEGIN")

Element(name, content) == StartTag(name) \o content \o EndTag(name)

\* set_location, whose text is percent-escaped by GLib, and set_duration,
\* with one element for both: no character that means something in XML.
xspf_track_set_plain ==
    /\ Building
    /\ warned' = (state # "TRACK_BEGIN")
    /\ string' = string \o Element("location", <<"%">>)
    /\ ncalls' = ncalls + 1
    /\ UNCHANGED <<textVars, state, field, readVars>>

\* set_title, set_creator and set_album, with one element for the three: the
\* text is sanitized ...
xspf_track_set_text(s) ==
    /\ Building
    /\ warned' = (state # "TRACK_BEGIN")
    /\ call("xml", s, XmlEdits)
    /\ field' = "title"
    /\ ncalls' = ncalls + 1
    /\ UNCHANGED <<state, string, readVars>>

\* ... and appended.
append_text ==
    /\ field # "none" /\ Done("xml")
    /\ return
    /\ string' = string \o Element(field, Answer)
    /\ field' = "none"
    /\ UNCHANGED <<state, warned, ncalls, readVars>>

\* The caller has what it wanted: xspf_read a document between playlists.
xspf_free ==
    /\ fn = "none" /\ state = "INIT" /\ string # <<>> /\ ~ warned
    /\ state' = "freed"
    /\ UNCHANGED <<textVars, string, warned, ncalls, field, readVars>>

-----------------------------------------------------------------------------
(* Reading.                                                                *)

\* Mutant: every read begins at the start.
FromStart(src, size, off) ==
    IF Len(src) > off THEN SubSeq(src, 1, IF size > Len(src) THEN Len(src) ELSE size)
    ELSE <<>>

\* What READ_SIZED_OFFSET copies.
READ_SIZED_OFFSET(src, size, off) ==
    IF Len(src) > off
    THEN SubSeq(src, off + 1, IF off + size > Len(src) THEN Len(src) ELSE off + size)
    ELSE <<>>

\* read(2) of a reader that goes from the beginning to the end.
read(size) ==
    /\ state = "freed" /\ ~ eof
    /\ LET part == READ_SIZED_OFFSET(string, size, Len(got)) IN
       got' = got \o part /\ eof' = (part = <<>>)
    /\ UNCHANGED <<textVars, docVars>>

-----------------------------------------------------------------------------
(* The specification.                                                      *)

text_call == state = "none" /\ some_call /\ UNCHANGED <<docVars, readVars>>

text_replace == replace /\ UNCHANGED <<docVars, readVars>>

text_return == field = "none" /\ return /\ UNCHANGED <<docVars, readVars>>

\* The reader has closed the file.
closed == eof /\ UNCHANGED vars

\* A document is left at its first warning or at the bound.
left ==
    /\ fn = "none" /\ state \notin {"none", "freed"}
    /\ warned \/ ncalls = MaxCalls
    /\ UNCHANGED vars

Next ==
    \/ text_call \/ text_replace \/ text_return
    \/ xspf_new
    \/ xspf_begin_playlist \/ xspf_end_playlist
    \/ xspf_begin_tracklist \/ xspf_end_tracklist
    \/ xspf_begin_track \/ xspf_end_track
    \/ xspf_track_set_plain
    \/ \E s \in Titles : xspf_track_set_text(s)
    \/ append_text
    \/ xspf_free
    \/ \E size \in Sizes : read(size)
    \/ closed \/ left

Spec == Init /\ [][Next]_vars

\* A function that is called goes on by itself.
FairSpec ==
    Spec /\ WF_vars(text_replace) /\ WF_vars(text_return) /\ WF_vars(append_text)

-----------------------------------------------------------------------------
(* Properties.                                                             *)

\* The elements that are open after the i-th character, if those in open are
\* before it.  An end tag that closes nothing leaves a "/" that stays open.
Reading(open, doc, i) ==
    IF i > 1 /\ doc[i - 1] = "<" /\ doc[i] # "/" THEN Append(open, doc[i])
    ELSE IF i > 2 /\ doc[i - 2] = "<" /\ doc[i - 1] = "/"
    THEN IF open # <<>> /\ Last(open) = doc[i] THEN Front(open)
         ELSE Append(open, "/")
    ELSE open

\* The elements that are open after a document, read as an XML parser does:
\* every "<" begins a tag.
OpenElements(doc) ==
    LET open[i \in 0 .. Len(doc)] ==
            IF i = 0 THEN <<>> ELSE Reading(open[i - 1], doc, i)
    IN  open[Len(doc)]

Opened ==
    [INIT            |-> <<>>,
     PLAYLIST_BEGIN  |-> <<"playlist">>,
     TRACKLIST_BEGIN |-> <<"playlist", "trackList">>,
     TRACK_BEGIN     |-> <<"playlist", "trackList", "track">>]

\* As long as the builder has not warned, the elements open in the document
\* are the ones its state stands for, whatever calls were made and whatever
\* texts were written: the warnings are enough, and no text opens or closes
\* an element.
TagsNested ==
    state \in DOMAIN Opened /\ ~ warned => OpenElements(string) = Opened[state]

\* A text that does not change between two reads is read as a whole, each
\* part once, whatever the sizes of the reads.
PartsJoin ==
    state = "freed" => IsPrefix(got, string) /\ (eof => got = string)

=============================================================================
