----------------------------- MODULE AudioStream -----------------------------
(***************************************************************************)
(* What g_playback promises between libspotify's delivery thread and the   *)
(* readers of a track.wav file: a bounded first-in first-out stream.       *)
(* Frames are handed out once, in the order they were delivered, none in   *)
(* the middle is skipped; frames are lost only when the whole buffer is    *)
(* thrown away; a delivery is accepted only by a buffer at or below its    *)
(* limit.  A reposition of the player starts a new history.                *)
(***************************************************************************)
EXTENDS Integers, Sequences

CONSTANTS
    Limit,      \* a buffer with more frames than this accepts none
    MaxChunk    \* the most frames in one delivery

VARIABLES
    pending,    \* delivered and not yet handed out
    heard       \* handed out since the last reposition

vars == <<pending, heard>>

Init == pending = <<>> /\ heard = <<>>

\* 1..MaxChunk frames are appended.
Deliver ==
    /\ Len(pending) <= Limit
    /\ Len(pending') - Len(pending) \in 1..MaxChunk
    /\ pending = SubSeq(pending', 1, Len(pending))
    /\ heard' = heard

\* Some frames at the front are handed out.
Take ==
    \E k \in 1..Len(pending) :
        /\ heard' = heard \o SubSeq(pending, 1, k)
        /\ pending' = SubSeq(pending, k + 1, Len(pending))

Discard == pending' = <<>> /\ heard' = heard

Reposition == heard' = <<>> /\ pending' = pending

Next == Deliver \/ Take \/ Discard \/ Reposition

Spec == Init /\ [][Next]_vars
=============================================================================
