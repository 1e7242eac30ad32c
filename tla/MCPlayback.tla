----------------------------- MODULE MCPlayback -----------------------------
(***************************************************************************)
(* Small instances of Playback for TLC: two tracks of four frames, one     *)
(* handle for each.                                                        *)
(***************************************************************************)
EXTENDS Playback, TLC

CONSTANTS w1, w2, h1, h2, t1, t2

MCTrackOf == (h1 :> t1) @@ (h2 :> t2)

\* Workers run the same code.
WorkerSymmetry == Permutations(Workers)
=============================================================================
