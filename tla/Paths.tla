-------------------------------- MODULE Paths --------------------------------
(***************************************************************************)
(* Absolute paths as sequences of names, the root being <<>>, and links    *)
(* between them.  Text shows that this is as good as the characters of     *)
(* spfs_path.c.                                                            *)
(***************************************************************************)
EXTENDS Naturals, Sequences, SequencesExt

\* It is wrong if one path leads through the other and neither is the root.
spfs_path_get_relative_path(from, to) ==
    LET common == Len(LongestCommonPrefix({from, to}))
        ups == (Len(from) - common)
               + (IF common = Len(to) /\ common > 0 THEN 1 ELSE 0)
        down == SubSeq(to, common + 1, Len(to))
    IN  IF from = to THEN <<".">>
        ELSE IF common = Len(from)
             THEN (IF common > 0 THEN <<"/">> ELSE <<>>) \o down
             ELSE [k \in 1 .. ups |-> ".."] \o down

\* One name of a target, from the directory reached so far.
Enter(path, name) ==
    CASE name = "/"  -> <<>>
      [] name = "."  -> path
      [] name = ".." -> IF path = <<>> THEN path ELSE Front(path)
      [] OTHER       -> Append(path, name)

\* The kernel follows a link from the directory path; a target that begins
\* with "/" leads from the root.
Walk(path, target) ==
    LET reached[k \in 0 .. Len(target)] ==
            IF k = 0 THEN path ELSE Enter(reached[k - 1], target[k])
    IN  reached[Len(target)]
=============================================================================
