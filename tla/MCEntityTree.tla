---------------------------- MODULE MCEntityTree ----------------------------
(* Instances of EntityTree: two tracks of one name, an artist, an album.   *)
EXTENDS EntityTree, TLC

CONSTANTS w1, w2

MCResources == {"t1", "t2", "a1", "l1"}
MCClass == [r \in MCResources |->
    CASE r = "a1" -> "artists" [] r = "l1" -> "albums" [] OTHER -> "tracks"]
MCUri == [r \in MCResources |-> "spotify:" \o r]
MCTitle == [r \in MCResources |->
    CASE r = "t1" -> "A/B" [] r = "t2" -> "A/B " [] OTHER -> "Band"]
MCParts == [r \in MCResources |->
    CASE r = "a1" -> <<"l1">> [] r = "t1" -> <<"a1">> [] OTHER -> <<>>]
MCPortraits == [r \in MCResources |-> IF r = "a1" THEN <<"1.jpg">> ELSE <<>>]
MCPlaylists == <<"Mix">>
\* An empty playlist is named like the directory of playlists.
TwoPlaylists == <<"Mix", "music">>
MCContents == [Mix |-> {<<"t1", "t2">>, <<"t2">>}, music |-> {<<>>}]
\* With fewer resources, for more threads.
FewContents == [Mix |-> {<<"t1">>}, music |-> {<<>>}]
FewParts == [r \in MCResources |-> <<>>]
FewPortraits == [r \in MCResources |-> <<>>]
NoQueries == {}
MCQueries == {"query"}
MCResults == [q \in MCQueries |-> <<"t1">>]
MCNumberedName(n, title) == ToString(n) \o " - " \o title \o ".wav"
MCResultName(r) == "Band - " \o r \o ".wav"
MCSanitize(name) ==
    CASE name = "A/B" -> "A:B" [] name = "A/B " -> "A:B"
      [] name = "0 - A/B.wav"  -> "0 - A:B.wav"
      [] name = "0 - A/B .wav" -> "0 - A:B .wav"
      [] name = "1 - A/B .wav" -> "1 - A:B .wav"
      [] OTHER -> name
=============================================================================
