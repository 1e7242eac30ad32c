-------------------------------- MODULE Text --------------------------------
(***************************************************************************)
(* What spotifile does to strings, each function called by itself:         *)
(*   "name"  spfs_sanitize_name, on every name given to an entity;         *)
(*   "xml"   xspf_sanitize, on every text in a playlist file;              *)
(*   "path"  spfs_path_get_relative_path, for the target of a link.        *)
(* The first two are loops of str_replace, each replacement a step here.   *)
(*                                                                         *)
(* A string is a sequence of characters; what follows the & in an entity,  *)
(* written without its ";", and the dots of ".." count as one character.   *)
(***************************************************************************)
EXTENDS Naturals, Sequences, FiniteSetsExt, SequencesExt

CONSTANTS
    Names,      \* arguments of spfs_sanitize_name
    Texts,      \* arguments of xspf_sanitize
    PathNames,  \* absolute paths, without empty elements
    MaxText     \* bounds a text that grows

\* MaxText is never reached: a name does not grow, and a text at most doubles.
ASSUME TextAssumption ==
    /\ Names \subseteq Seq(STRING) /\ Texts \subseteq Seq(STRING)
    /\ MaxText \in Nat
    /\ \A s \in Names : Len(s) <= MaxText
    /\ \A s \in Texts : 2 * Len(s) <= MaxText

P == INSTANCE Paths

VARIABLES
    fn,         \* the function called, "none" between calls
    arg,        \* its argument or arguments
    text,       \* the string it works on
    todo        \* the replacements that are left

textVars == <<fn, arg, text, todo>>

-----------------------------------------------------------------------------
(* str_replace and its loops.                                              *)

\* The first occurrence of key in s, if any, becomes val.
str_replace(s, key, val) == ReplaceFirstSubSeq(val, key, s)

Occurs(key, s) ==
    \E i \in 1 .. Len(s) + 1 - Len(key) : SubSeq(s, i, i + Len(key) - 1) = key

Once(key, val) == [key |-> key, val |-> val, all |-> FALSE]
All(key, val)  == [key |-> key, val |-> val, all |-> TRUE]

\* Mutant: only the first slash is replaced.
FirstSlash == << Once(<<"/">>, <<":">>) >>

\* spfs_replace_slashes
NameEdits == << All(<<"/">>, <<":">>) >>

\* Mutants: & is replaced like the others; a quote is forgotten.
EditsInOneGo ==
    << All(<<"&">>, <<"&", "amp">>), All(<<"'">>, <<"&", "apos">>),
       All(<<"<">>, <<"&", "lt">>) >>
EditsWithoutQuote ==
    << Once(<<"&">>, <<"!", "amp">>), All(<<"!", "amp">>, <<"&", "amp">>),
       All(<<"<">>, <<"&", "lt">>) >>

\* xspf_sanitize; of the two quotes and the two brackets one each, which are
\* treated alike.
XmlEdits ==
    << Once(<<"&">>, <<"!", "amp">>), All(<<"!", "amp">>, <<"&", "amp">>),
       All(<<"'">>, <<"&", "apos">>), All(<<"<">>, <<"&", "lt">>) >>

\* Mutant: blanks are kept at the end.
chug(s) == IF s # <<>> /\ Head(s) = " " THEN Tail(s) ELSE s

\* g_strstrip (external).
strip(s) ==
    LET black == {i \in DOMAIN s : s[i] # " "}
    IN  IF black = {} THEN <<>> ELSE SubSeq(s, Min(black), Max(black))

-----------------------------------------------------------------------------
(* Relative paths by characters.                                           *)

\* Mutant: the characters in common, whether or not they end an element.
CommonChars(a, b) == Len(LongestCommonPrefix({a, b}))

\* Up to the last slash in common, or to the end of one path if the other
\* ends or has a slash there.
spfs_path_common_prefix(a, b) ==
    LET k == Len(LongestCommonPrefix({a, b}))
        EndsElement(s, t) == Len(s) = k /\ (Len(t) > k => t[k + 1] = "/")
    IN  IF EndsElement(a, b) \/ EndsElement(b, a) THEN k
        ELSE Max({i \in 1 .. k : a[i] = "/"})

spfs_path_get_relative_path(from, to) ==
    LET prefix == spfs_path_common_prefix(from, to)
        from_suffix == SubSeq(from, prefix + 1, Len(from))
        to_suffix == SubSeq(to, prefix + 1, Len(to))
        ups == FoldLeft(LAMBDA up, c : IF c = "/" THEN up \o <<"/", "..">> ELSE up,
                        <<"..">>, from_suffix)
    IN  IF from_suffix # <<>>
        THEN ups \o (IF to_suffix # <<>> THEN <<"/">> \o to_suffix ELSE <<>>)
        ELSE IF to_suffix # <<>> THEN to_suffix
        ELSE <<".">>

-----------------------------------------------------------------------------
(* Calls.                                                                  *)

TextInit == fn = "none" /\ arg = <<>> /\ text = <<>> /\ todo = <<>>

call(f, s, edits) ==
    /\ fn = "none"
    /\ fn' = f /\ arg' = s /\ text' = s /\ todo' = edits

\* One turn of a loop: replace again, or go on to the next replacement.
replace ==
    /\ todo # <<>> /\ Len(text) <= MaxText
    /\ LET edit == Head(todo) IN
       IF Occurs(edit.key, text)
       THEN /\ text' = str_replace(text, edit.key, edit.val)
            /\ todo' = IF edit.all THEN todo ELSE Tail(todo)
       ELSE text' = text /\ todo' = Tail(todo)
    /\ UNCHANGED <<fn, arg>>

relative_path(from, to) ==
    /\ fn = "none"
    /\ fn' = "path" /\ arg' = <<from, to>>
    /\ text' = spfs_path_get_relative_path(from, to)
    /\ todo' = <<>>

Done(f) == fn = f /\ todo = <<>>

\* The caller has its answer; that of spfs_sanitize_name is stripped.
Answer == IF fn = "name" THEN strip(text) ELSE text

return ==
    /\ fn # "none" /\ todo = <<>>
    /\ fn' = "none" /\ arg' = <<>> /\ text' = <<>> /\ todo' = <<>>

some_call ==
    \/ \E s \in Names : call("name", s, NameEdits)
    \/ \E s \in Texts : call("xml", s, XmlEdits)
    \/ \E from, to \in PathNames : relative_path(from, to)

-----------------------------------------------------------------------------
(* Properties.                                                             *)

\* A name for an entity is the name given with each slash replaced, and no
\* blanks around: no path is split within it, and a second sanitizing, which
\* spfs_entity_dir_add_child does by its lookup, changes nothing.
NamesSanitized ==
    Done("name") =>
        Answer = strip([i \in DOMAIN arg |-> IF arg[i] = "/" THEN ":" ELSE arg[i]])

\* What XML wants.
Escaped(s) ==
    FlattenSeq([i \in DOMAIN s |->
        CASE s[i] = "&" -> <<"&", "amp">>
          [] s[i] = "'" -> <<"&", "apos">>
          [] s[i] = "<" -> <<"&", "lt">>
          [] OTHER      -> <<s[i]>>])

\* s has at most one &.
OneAmpersand(s) == \A i, j \in DOMAIN s : s[i] = "&" /\ s[j] = "&" => i = j

\* A text in a playlist is escaped if it has at most one & and not the "!amp;"
\* that is used on the way.  No quote or bracket is left in any text.
TextsEscaped ==
    Done("xml") =>
        /\ OneAmpersand(arg) /\ ~ Occurs(<<"!", "amp">>, arg)
              => Answer = Escaped(arg)
        /\ {"'", "<"} \cap ToSet(Answer) = {}

\* "be sure to esacpe whatever needs to be escaped" (xspf_sanitize.c): every
\* text.  The code does not keep this: only the first & is escaped, and a "!amp;"
\* in the text is taken for one put in.
EveryTextEscaped == Done("xml") => Answer = Escaped(arg)

\* Every call returns: no replacement makes what it looks for.
CallsEnd == fn # "none" ~> fn = "none"

\* The elements of a path; "/" in front if the string begins so.
Elements(s) ==
    LET begins == {i \in DOMAIN s : s[i] # "/" /\ (i = 1 \/ s[i - 1] = "/")}
        ending(i) == Max({j \in i .. Len(s) : \A k \in i .. j : s[k] # "/"})
        element(i) == FoldLeft(LAMBDA e, c : e \o c, "", SubSeq(s, i, ending(i)))
        order == SetToSortSeq(begins, LAMBDA i, j : i < j)
    IN  [n \in DOMAIN order |-> element(order[n])]

Target(s) == (IF Head(s) = "/" THEN <<"/">> ELSE <<>>) \o Elements(s)

Leads ==
    P!Walk(Elements(arg[1]), Target(text)) = Elements(arg[2])

\* The answer leads from one path to the other, if neither leads through the
\* other or one of them is the root.
RelativePathsLead ==
    Done("path") =>
        LET from == Elements(arg[1])
            to == Elements(arg[2])
            through == from # to /\ from # <<>> /\ to # <<>>
                       /\ (IsPrefix(from, to) \/ IsPrefix(to, from))
        IN  ~ through => Leads

\* "the relative path from path from to path to" (spfs_path.h): whatever the
\* paths are.  The code does not keep this, if one leads through the other.
EveryRelativePathLeads == Done("path") => Leads

\* Working on elements, as EntityTree does, leads to the same place as
\* working on characters does, the wrong ones included.
ElementsSuffice ==
    Done("path") =>
        LET from == Elements(arg[1])
            to == Elements(arg[2])
        IN  P!Walk(from, P!spfs_path_get_relative_path(from, to))
                = P!Walk(from, Target(text))
=============================================================================
