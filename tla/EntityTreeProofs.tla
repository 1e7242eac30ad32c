--------------------------- MODULE EntityTreeProofs ---------------------------
(***************************************************************************)
(* Theorems about EntityTree, for any number of FUSE threads and any       *)
(* resources, playlists and searches.  Those about names assume of         *)
(* Sanitize what Text checks of spfs_sanitize_name: a name that has been   *)
(* sanitized stays as it is.                                               *)
(***************************************************************************)
EXTENDS EntityTree, SequenceLemmas

-----------------------------------------------------------------------------
(* Sequences of anything.                                                  *)

Sequence(s) == \E S : s \in Seq(S)

\* A sequence has a length and is defined up to it.
LEMMA SequenceBasics ==
    ASSUME NEW s, Sequence(s)
    PROVE  Len(s) \in Nat /\ DOMAIN s = 1 .. Len(s)
BY DEF Sequence

LEMMA SequenceWiden ==
    ASSUME NEW S, NEW T, S \subseteq T, NEW s \in Seq(S) PROVE s \in Seq(T)
OBVIOUS

\* A function on 1 .. n is a sequence.
LEMMA SequenceOf ==
    ASSUME NEW n \in Nat, NEW S, NEW g \in [1 .. n -> S]
    PROVE  Sequence(g) /\ Len(g) = n
<1>1. g \in Seq(S)
  OBVIOUS
<1>2. Len(g) = n
  BY <1>1
<1> QED BY <1>1, <1>2 DEF Sequence

\* Short sequences, written out.
LEMMA SequenceOne ==
    ASSUME NEW a, NEW s, s = <<a>>
    PROVE  Sequence(s) /\ Len(s) = 1 /\ s[1] = a
<1>1. s \in Seq({a})
  OBVIOUS
<1> QED BY <1>1 DEF Sequence

LEMMA SequenceThree ==
    ASSUME NEW a, NEW b, NEW c, NEW s, s = <<a, b, c>>
    PROVE  Sequence(s) /\ Len(s) = 3 /\ s[1] = a /\ s[2] = b /\ s[3] = c
<1>1. s \in Seq({a, b, c})
  OBVIOUS
<1> QED BY <1>1 DEF Sequence

LEMMA SequenceAppend ==
    ASSUME NEW s, Sequence(s), NEW x
    PROVE  /\ Sequence(Append(s, x))
           /\ Len(Append(s, x)) = Len(s) + 1
           /\ \A i \in 1 .. Len(s) : Append(s, x)[i] = s[i]
           /\ Append(s, x)[Len(s) + 1] = x
<1>1. PICK S : s \in Seq(S)
  BY DEF Sequence
<1>2. s \in Seq(S \cup {x}) /\ x \in S \cup {x}
  BY <1>1, SequenceWiden
<1>3. Append(s, x) \in Seq(S \cup {x})
  BY <1>2
<1> QED BY <1>2, <1>3 DEF Sequence

LEMMA SequenceConcat ==
    ASSUME NEW s, NEW t, Sequence(s), Sequence(t)
    PROVE  /\ Sequence(s \o t)
           /\ Len(s \o t) = Len(s) + Len(t)
           /\ \A i \in 1 .. Len(s) : (s \o t)[i] = s[i]
           /\ \A i \in 1 .. Len(t) : (s \o t)[Len(s) + i] = t[i]
<1>1. PICK S, T : s \in Seq(S) /\ t \in Seq(T)
  BY DEF Sequence
<1>2. s \in Seq(S \cup T) /\ t \in Seq(S \cup T)
  BY <1>1, SequenceWiden
<1>3. s \o t \in Seq(S \cup T)
  BY <1>2
<1> QED BY <1>2, <1>3 DEF Sequence

-----------------------------------------------------------------------------
(* The tree.                                                               *)

EntityFields == {"name", "parent", "kind", "ops", "res", "target"}

\* A parent is older than its children, and a directory that fills itself
\* is about something that can be listed.
EntityOK(e) ==
    /\ DOMAIN entity[e] = EntityFields
    /\ entity[e].kind \in {"dir", "file", "link"}
    /\ entity[e].parent \in Nat /\ entity[e].parent < e
    /\ entity[e].ops \in {"music", "meta"} => entity[e].res \in DOMAIN Contents
    /\ entity[e].ops \in {"artists", "albums", "portraits"} =>
          entity[e].res \in Resources
    /\ entity[e].ops = "results" => entity[e].res \in Queries

TreeOK ==
    /\ Sequence(entity) /\ Len(entity) >= 9
    /\ \A e \in Ids : EntityOK(e)

\* A directory has at most one entry of a name, as in a hash table.
UniqueNames ==
    \A e, f \in Ids :
        /\ entity[e].parent # None /\ entity[e].parent = entity[f].parent
        /\ entity[e].name = entity[f].name
        => e = f

\* What every step leaves as it is: entities are for ever, and only parents
\* and targets change.
TreeKeeps ==
    /\ Len(entity') >= Len(entity)
    /\ \A e \in Ids : /\ entity'[e].name = entity[e].name
                      /\ entity'[e].ops = entity[e].ops
                      /\ entity'[e].res = entity[e].res
                      /\ entity'[e].kind = entity[e].kind

\* ... and parents only for an entity without one.
ParentsKept ==
    \A e \in Ids : entity[e].parent # None => entity'[e].parent = entity[e].parent

EntriesKept ==
    \A d, e \in Ids : entity[e].parent = d =>
        Child(d, entity[e].name)' = Child(d, entity[e].name)

\* The lookup finds an entity of that name in the directory, if there is one.
LEMMA ChildFound ==
    ASSUME NEW d, NEW n, Sequence(entity)
    PROVE  /\ Child(d, n) \in 0 .. Len(entity)
           /\ Child(d, n) = None =>
                 \A e \in Ids : ~ (entity[e].parent = d /\ entity[e].name = n)
<1> DEFINE found == {e \in Ids : entity[e].parent = d /\ entity[e].name = n}
<1>1. Len(entity) \in Nat
  BY SequenceBasics
<1>2. CASE found = {}
  <2>1. Child(d, n) = None
    BY <1>2 DEF Child
  <2> QED BY <1>1, <1>2, <2>1 DEF None
<1>3. CASE found # {}
  <2>1. Child(d, n) = CHOOSE e \in found : TRUE
    BY <1>3 DEF Child
  <2>2. (CHOOSE e \in found : TRUE) \in found
    BY <1>3
  <2> QED BY <1>1, <2>1, <2>2 DEF None, Ids
<1> QED BY <1>2, <1>3

\* New entities are without a parent or in a new directory.
Grows ==
    /\ Sequence(entity') /\ Len(entity') > Len(entity)
    /\ \A e \in Ids : entity'[e] = entity[e]
    /\ \A e \in Ids' \ Ids :
          /\ EntityOK(e)'
          /\ entity'[e].parent = None \/ entity'[e].parent > Len(entity)
          /\ entity'[e].parent # None => entity'[entity'[e].parent].kind = "dir"
    /\ \A e, f \in Ids' \ Ids :
          /\ entity'[e].parent # None /\ entity'[e].parent = entity'[f].parent
          /\ entity'[e].name = entity'[f].name
          => e = f

\* Entity c becomes the only one of its name in directory p.
Joins(p, c) ==
    /\ c \in Ids /\ p \in Nat /\ p < c
    /\ entity[c].parent = None
    /\ \A e \in Ids : ~ (entity[e].parent = p /\ entity[e].name = entity[c].name)
    /\ entity' = [entity EXCEPT ![c].parent = p]

Retargets(c) ==
    c \in Ids /\ \E x : entity' = [entity EXCEPT ![c].target = x]

\* The ways in which a step changes the tree.
TreeStep ==
    \/ entity' = entity
    \/ Grows
    \/ \E p, c : Joins(p, c)
    \/ \E c : Retargets(c)

\* One entity is replaced by another.
LEMMA EntityExcept ==
    ASSUME Sequence(entity), NEW c \in Ids, NEW x,
           entity' = [entity EXCEPT ![c] = x]
    PROVE  /\ Sequence(entity') /\ Len(entity') = Len(entity)
           /\ \A e \in Ids : entity'[e] = IF e = c THEN x ELSE entity[e]
<1>1. PICK S : entity \in Seq(S)
  BY DEF Sequence
<1>2. entity \in Seq(S \cup {x}) /\ x \in S \cup {x}
  BY <1>1, SequenceWiden
<1>3. entity' \in Seq(S \cup {x})
  BY <1>2 DEF Ids
<1> QED BY <1>2, <1>3 DEF Sequence, Ids

LEMMA JoinsFacts ==
    ASSUME TreeOK, NEW p, NEW c, Joins(p, c)
    PROVE  /\ Sequence(entity') /\ Len(entity') = Len(entity)
           /\ \A e \in Ids : e # c => entity'[e] = entity[e]
           /\ EntityOK(c)'
           /\ entity'[c].parent = p /\ entity'[c].name = entity[c].name
           /\ entity'[c].ops = entity[c].ops /\ entity'[c].res = entity[c].res
           /\ entity'[c].kind = entity[c].kind
<1> DEFINE x == [entity[c] EXCEPT !.parent = p]
<1>1. entity' = [entity EXCEPT ![c] = x]
  BY DEF Joins
<1>2. /\ DOMAIN x = EntityFields /\ x.parent = p /\ x.name = entity[c].name
      /\ x.ops = entity[c].ops /\ x.res = entity[c].res
      /\ x.kind = entity[c].kind
  BY DEF Joins, TreeOK, EntityOK, EntityFields
<1>3. /\ Sequence(entity') /\ Len(entity') = Len(entity)
      /\ \A e \in Ids : entity'[e] = IF e = c THEN x ELSE entity[e]
  <2>1. c \in Ids /\ Sequence(entity)
    BY DEF Joins, TreeOK
  <2> HIDE DEF x
  <2> QED BY <1>1, <2>1, EntityExcept
<1>4. EntityOK(c)
  BY DEF TreeOK, Joins
<1>5. c \in Ids /\ p \in Nat /\ p < c
  BY DEF Joins
<1> HIDE DEF x
<1>6. entity'[c] = x /\ \A e \in Ids : e # c => entity'[e] = entity[e]
  BY <1>3, <1>5
<1> QED BY <1>2, <1>3, <1>4, <1>5, <1>6 DEF EntityOK

LEMMA RetargetsFacts ==
    ASSUME TreeOK, NEW c, Retargets(c)
    PROVE  /\ Sequence(entity') /\ Len(entity') = Len(entity)
           /\ \A e \in Ids : e # c => entity'[e] = entity[e]
           /\ EntityOK(c)'
           /\ entity'[c].parent = entity[c].parent
           /\ entity'[c].name = entity[c].name
           /\ entity'[c].ops = entity[c].ops /\ entity'[c].res = entity[c].res
           /\ entity'[c].kind = entity[c].kind
<1>1. PICK y : entity' = [entity EXCEPT ![c].target = y]
  BY DEF Retargets
<1> DEFINE x == [entity[c] EXCEPT !.target = y]
<1>2. entity' = [entity EXCEPT ![c] = x]
  BY <1>1
<1>3. /\ DOMAIN x = EntityFields /\ x.parent = entity[c].parent
      /\ x.name = entity[c].name /\ x.kind = entity[c].kind
      /\ x.ops = entity[c].ops /\ x.res = entity[c].res
  BY DEF Retargets, TreeOK, EntityOK, EntityFields
<1>4. /\ Sequence(entity') /\ Len(entity') = Len(entity)
      /\ \A e \in Ids : entity'[e] = IF e = c THEN x ELSE entity[e]
  <2>1. c \in Ids /\ Sequence(entity)
    BY DEF Retargets, TreeOK
  <2> HIDE DEF x
  <2> QED BY <1>2, <2>1, EntityExcept
<1>5. EntityOK(c)
  BY DEF TreeOK, Retargets
<1> QED BY <1>3, <1>4, <1>5 DEF Retargets, EntityOK

\* After any step the tree is a tree, and what was there is still there.
LEMMA TreeAfter ==
    ASSUME TreeOK, UniqueNames, TreeStep
    PROVE  TreeOK' /\ UniqueNames' /\ TreeKeeps /\ ParentsKept
<1>1. Len(entity) \in Nat
  BY SequenceBasics DEF TreeOK
<1>2. CASE entity' = entity
  BY <1>1, <1>2
  DEF TreeOK, UniqueNames, TreeKeeps, ParentsKept, Ids, EntityOK
<1>3. CASE Grows
  <2>1. Len(entity') \in Nat
    BY <1>3, SequenceBasics DEF Grows
  <2>2. \A e \in Ids' : e \in Ids \/ e \in Ids' \ Ids
    OBVIOUS
  <2>3. TreeOK'
    BY <1>1, <1>3, <2>1, SMTT(30) DEF Grows, TreeOK, EntityOK, Ids
  <2>4. UniqueNames'
    <3> SUFFICES ASSUME NEW e \in Ids', NEW f \in Ids',
                        entity'[e].parent # None,
                        entity'[e].parent = entity'[f].parent,
                        entity'[e].name = entity'[f].name
                 PROVE  e = f
      BY DEF UniqueNames, None
    <3>1. \A g \in Ids : entity'[g].parent < Len(entity)
      BY <1>1, <1>3 DEF Grows, TreeOK, EntityOK, Ids
    <3>2. \A g \in Ids' \ Ids :
             entity'[g].parent = None \/ entity'[g].parent > Len(entity)
      BY <1>3 DEF Grows
    <3>3. entity'[e].parent \in Nat
      BY <2>3 DEF TreeOK, EntityOK
    <3>4. e \in Ids <=> f \in Ids
      BY <1>1, <3>1, <3>2, <3>3
    <3> QED BY <1>3, <3>4 DEF Grows, UniqueNames
  <2> QED BY <1>1, <1>3, <2>1, <2>3, <2>4 DEF Grows, TreeKeeps, ParentsKept
<1>4. ASSUME NEW p, NEW c, Joins(p, c)
      PROVE  TreeOK' /\ UniqueNames' /\ TreeKeeps /\ ParentsKept
  <2>1. Ids' = Ids
    BY <1>4, JoinsFacts DEF Ids
  <2>2. TreeOK'
    BY <1>1, <1>4, <2>1, JoinsFacts DEF TreeOK, EntityOK
  <2>3. UniqueNames'
    BY <1>1, <1>4, <2>1, JoinsFacts DEF Joins, UniqueNames, None
  <2> QED BY <1>1, <1>4, <2>2, <2>3, JoinsFacts
          DEF Joins, TreeKeeps, ParentsKept
<1>5. ASSUME NEW c, Retargets(c)
      PROVE  TreeOK' /\ UniqueNames' /\ TreeKeeps /\ ParentsKept
  <2>1. Ids' = Ids
    BY <1>5, RetargetsFacts DEF Ids
  <2>2. TreeOK'
    BY <1>1, <1>5, <2>1, RetargetsFacts DEF TreeOK, EntityOK
  <2>3. UniqueNames'
    BY <1>5, <2>1, RetargetsFacts DEF UniqueNames, None
  <2> QED BY <1>1, <1>5, <2>2, <2>3, RetargetsFacts DEF TreeKeeps, ParentsKept
<1> QED BY <1>2, <1>3, <1>4, <1>5 DEF TreeStep

\* ... under the same name.
LEMMA EntriesAfter ==
    ASSUME TreeOK, UniqueNames, TreeStep PROVE EntriesKept
<1> SUFFICES ASSUME NEW d \in Ids, NEW e \in Ids, entity[e].parent = d
             PROVE  Child(d, entity[e].name)' = Child(d, entity[e].name)
  BY DEF EntriesKept
<1> DEFINE found == {x \in Ids : /\ entity[x].parent = d
                                 /\ entity[x].name = entity[e].name}
           later == {x \in Ids' : /\ entity'[x].parent = d
                                  /\ entity'[x].name = entity'[e].name}
<1>1. TreeOK' /\ UniqueNames' /\ TreeKeeps /\ ParentsKept
  BY TreeAfter
<1>2. Len(entity) \in Nat /\ Len(entity') \in Nat /\ d # None
  BY <1>1, SequenceBasics DEF TreeOK, Ids, None
<1>3. e \in Ids'
  BY <1>1, <1>2 DEF TreeKeeps, Ids
<1>4. entity'[e].parent = d /\ entity'[e].name = entity[e].name
  BY <1>1, <1>2 DEF TreeKeeps, ParentsKept
<1>5. found = {e}
  BY <1>2 DEF UniqueNames
<1>6. later = {e}
  BY <1>1, <1>2, <1>3, <1>4 DEF UniqueNames, None
<1>7. Child(d, entity[e].name)
          = IF found = {} THEN None ELSE CHOOSE x \in found : TRUE
  BY DEF Child
<1>8. Child(d, entity[e].name)'
          = IF later = {} THEN None ELSE CHOOSE x \in later : TRUE
  BY DEF Child, None
<1> QED BY <1>5, <1>6, <1>7, <1>8

\* Thread t adds entity c to directory p.
Adds(t, p, c) ==
    p = Into(t) /\ c = Adding(t) /\ spfs_entity_dir_add_child(t)

\* A refused entity leaves the tree as it is.  Any other joins it: whoever has
\* the name in the meantime, it is free when the entity is inserted here.
LEMMA AddChildStep ==
    ASSUME TreeOK, NEW t, NEW p \in Nat, NEW c \in Ids, p < c,
           entity[c].parent = None, Adds(t, p, c)
    PROVE  entity' = entity \/ Joins(p, c)
<1>1. CASE add_refused(t)
  BY <1>1 DEF add_refused
<1>2. CASE InThePlace(t) = None /\ entity' = Parented(t)
  <2>1. Child(p, entity[c].name) = None
    BY <1>2 DEF InThePlace, Adds
  <2>2. entity' = [entity EXCEPT ![c].parent = p]
    BY <1>2 DEF Parented, Adds
  <2> QED BY <2>1, <2>2, ChildFound DEF TreeOK, Joins
<1> QED BY <1>1, <1>2 DEF Adds, spfs_entity_dir_add_child

\* What a new entity is like that has no parent yet.
NewOK(x) ==
    /\ DOMAIN x = EntityFields
    /\ x.kind \in {"dir", "file", "link"}
    /\ x.parent = None
    /\ x.ops \in {"music", "meta"} => x.res \in DOMAIN Contents
    /\ x.ops \notin {"artists", "albums", "portraits"}
    /\ x.ops = "results" => x.res \in Queries

LEMMA GrowOne ==
    ASSUME TreeOK, NEW x, NewOK(x), entity' = Append(entity, x)
    PROVE  Grows /\ Len(entity') = Len(entity) + 1 /\ entity'[Len(entity) + 1] = x
<1>1. Len(entity) \in Nat
  BY SequenceBasics DEF TreeOK
<1>2. /\ Sequence(entity') /\ Len(entity') = Len(entity) + 1
      /\ \A e \in Ids : entity'[e] = entity[e]
      /\ entity'[Len(entity) + 1] = x
  BY SequenceAppend DEF TreeOK, Ids
<1>3. Ids' \ Ids = {Len(entity) + 1}
  BY <1>1, <1>2 DEF Ids
<1>4. \A e \in Ids' \ Ids : EntityOK(e)'
  BY <1>1, <1>2, <1>3 DEF NewOK, EntityOK, None
<1>5. Len(entity') > Len(entity)
  BY <1>1, <1>2
<1>6. \A e \in Ids' \ Ids : entity'[e].parent = None
  BY <1>2, <1>3 DEF NewOK
<1> QED BY <1>2, <1>3, <1>4, <1>5, <1>6 DEF Grows

\* The entities of a browse directory: itself, without a parent, and its
\* entries, of different names.
BrowseEntities(new, r, id) ==
    /\ Sequence(new) /\ Len(new) \in {1, 3}
    /\ \A i \in 1 .. Len(new) :
          /\ DOMAIN new[i] = EntityFields
          /\ new[i].kind \in {"dir", "file"}
          /\ new[i].ops \in {"", "artists", "albums", "portraits"}
          /\ new[i].res = r
          /\ new[i].parent = IF i = 1 THEN None ELSE id
    /\ new[1].name = Uri[r] /\ new[1].kind = "dir"
    /\ Len(new) = 3 => new[2].name # new[3].name

LEMMA NewBrowseDirFacts ==
    ASSUME NEW r \in Resources, NEW id, NEW new, new = NewBrowseDir(r, id)
    PROVE  BrowseEntities(new, r, id)
<1> DEFINE a == Dir(Uri[r], None, "", r)
<1>1. Class[r] \in {"tracks", "artists", "albums"}
  BY TreeAssumption
<1>2. /\ DOMAIN a = EntityFields /\ a.kind = "dir" /\ a.ops = ""
      /\ a.res = r /\ a.parent = None /\ a.name = Uri[r]
  BY DEF Dir, EntityFields
<1>3. CASE Class[r] = "albums"
  <2>1. new = <<a>>
    BY <1>3 DEF NewBrowseDir
  <2> HIDE DEF a
  <2>2. Sequence(new) /\ Len(new) = 1 /\ new[1] = a
    BY <2>1, SequenceOne
  <2>3. \A i \in 1 .. Len(new) : i = 1 /\ new[i] = a
    BY <2>2
  <2>4. \A i \in 1 .. Len(new) :
          /\ DOMAIN new[i] = EntityFields
          /\ new[i].kind \in {"dir", "file"}
          /\ new[i].ops \in {"", "artists", "albums", "portraits"}
          /\ new[i].res = r
          /\ new[i].parent = IF i = 1 THEN None ELSE id
    BY <1>2, <2>3
  <2>5. Len(new) # 3
    BY <2>2
  <2>6. Len(new) \in {1, 3}
    BY <2>2
  <2>7. new[1].name = Uri[r] /\ new[1].kind = "dir"
    BY <1>2, <2>2
  <2> QED BY <2>2, <2>4, <2>5, <2>6, <2>7 DEF BrowseEntities
<1>4. CASE Class[r] \in {"tracks", "artists"}
  <2> DEFINE t == Class[r] = "tracks"
             b == IF t THEN File("track.wav", id, r)
                  ELSE Dir("albums", id, "albums", r)
             c == IF t THEN Dir("artists", id, "artists", r)
                  ELSE Dir("portraits", id, "portraits", r)
  <2>1. new = <<a, b, c>>
    BY <1>4 DEF NewBrowseDir
  <2>2. /\ DOMAIN b = EntityFields /\ b.kind \in {"dir", "file"}
        /\ b.ops \in {"", "albums"} /\ b.res = r /\ b.parent = id
        /\ b.name = IF t THEN "track.wav" ELSE "albums"
    BY DEF Dir, File, EntityFields
  <2>3. /\ DOMAIN c = EntityFields /\ c.kind = "dir"
        /\ c.ops \in {"artists", "portraits"} /\ c.res = r /\ c.parent = id
        /\ c.name = IF t THEN "artists" ELSE "portraits"
    BY DEF Dir, EntityFields
  <2>4. b.name # c.name
    BY <2>2, <2>3
  <2> HIDE DEF a, b, c
  <2>5. /\ Sequence(new) /\ Len(new) = 3
        /\ new[1] = a /\ new[2] = b /\ new[3] = c
    BY <2>1, SequenceThree
  <2>6. \A i \in 1 .. Len(new) :
           (i = 1 /\ new[i] = a) \/ (i # 1 /\ new[i] = b) \/ (i # 1 /\ new[i] = c)
    BY <2>5
  <2>7. \A i \in 1 .. Len(new) :
          /\ DOMAIN new[i] = EntityFields
          /\ new[i].kind \in {"dir", "file"}
          /\ new[i].ops \in {"", "artists", "albums", "portraits"}
          /\ new[i].res = r
          /\ new[i].parent = IF i = 1 THEN None ELSE id
    BY <1>2, <2>2, <2>3, <2>6
  <2>8. new[1].name = Uri[r] /\ new[1].kind = "dir" /\ new[2].name # new[3].name
    BY <1>2, <2>4, <2>5
  <2>9. Len(new) \in {1, 3}
    BY <2>5
  <2> QED BY <2>5, <2>7, <2>8, <2>9 DEF BrowseEntities
<1> QED BY <1>1, <1>3, <1>4

LEMMA GrowBrowse ==
    ASSUME TreeOK, NEW r \in Resources, NEW id, id = Len(entity) + 1,
           NEW new, BrowseEntities(new, r, id), entity' = entity \o new
    PROVE  Grows /\ entity'[id].parent = None /\ entity'[id].name = Uri[r]
<1>1. Len(entity) \in Nat
  BY SequenceBasics DEF TreeOK
<1>2. Sequence(new) /\ Len(new) \in {1, 3}
  BY DEF BrowseEntities
<1>3. /\ \A i \in 1 .. Len(new) :
            /\ DOMAIN new[i] = EntityFields
            /\ new[i].kind \in {"dir", "file"}
            /\ new[i].ops \in {"", "artists", "albums", "portraits"}
            /\ new[i].res = r
            /\ new[i].parent = IF i = 1 THEN None ELSE id
      /\ new[1].name = Uri[r] /\ new[1].kind = "dir"
      /\ Len(new) = 3 => new[2].name # new[3].name
  BY DEF BrowseEntities
<1>5. /\ Sequence(entity') /\ Len(entity') = Len(entity) + Len(new)
      /\ \A e \in Ids : entity'[e] = entity[e]
      /\ \A i \in 1 .. Len(new) : entity'[Len(entity) + i] = new[i]
  BY <1>2, SequenceConcat DEF TreeOK, Ids
<1>6. ASSUME NEW e \in Ids' \ Ids
      PROVE  e - Len(entity) \in 1 .. Len(new) /\ entity'[e] = new[e - Len(entity)]
  <2>1. e \in Int /\ e > Len(entity) /\ e <= Len(entity) + Len(new)
    BY <1>1, <1>2, <1>5 DEF Ids
  <2>2. e - Len(entity) \in 1 .. Len(new)
    BY <1>1, <1>2, <2>1
  <2>3. entity'[Len(entity) + (e - Len(entity))] = new[e - Len(entity)]
    BY <1>5, <2>2
  <2>4. Len(entity) + (e - Len(entity)) = e
    BY <1>1, <2>1
  <2> QED BY <2>2, <2>3, <2>4
<1>7. ASSUME NEW e \in Ids' \ Ids
      PROVE  /\ EntityOK(e)'
             /\ entity'[e].parent = None \/ entity'[e].parent = id
  <2> DEFINE x == new[e - Len(entity)]
  <2>1. /\ DOMAIN x = EntityFields /\ x.kind \in {"dir", "file"}
        /\ x.ops \in {"", "artists", "albums", "portraits"} /\ x.res = r
        /\ x.parent = IF e - Len(entity) = 1 THEN None ELSE id
    BY <1>3, <1>6
  <2> HIDE DEF x
  <2>2. entity'[e] = x
    BY <1>6 DEF x
  <2>3. e \in Nat /\ e > Len(entity) /\ e - Len(entity) \in Nat
    BY <1>1, <1>2, <1>5 DEF Ids
  <2>4. CASE e - Len(entity) = 1
    <3>1. x.parent = None
      BY <2>1, <2>4
    <3>2. x.parent \in Nat /\ x.parent < e
      BY <2>3, <3>1 DEF None
    <3>3. EntityOK(e)'
      BY <2>1, <2>2, <3>2 DEF EntityOK
    <3> QED BY <2>2, <3>1, <3>3
  <2>5. CASE e - Len(entity) # 1
    <3>1. x.parent = id
      BY <2>1, <2>5
    <3>2. id < e /\ id \in Nat /\ id > Len(entity)
      BY <1>1, <2>3, <2>5
    <3>3. EntityOK(e)'
      BY <2>1, <2>2, <3>1, <3>2 DEF EntityOK
    <3> QED BY <2>2, <3>1, <3>2, <3>3
  <2> QED BY <2>4, <2>5
<1>8. ASSUME NEW e \in Ids' \ Ids, NEW f \in Ids' \ Ids,
             entity'[e].parent # None, entity'[e].parent = entity'[f].parent,
             entity'[e].name = entity'[f].name
      PROVE  e = f
  <2> DEFINE i == e - Len(entity)
             j == f - Len(entity)
  <2>1. i \in 1 .. Len(new) /\ j \in 1 .. Len(new)
    BY <1>6
  <2>2. i # 1 /\ j # 1 /\ new[i].name = new[j].name
    BY <1>3, <1>6, <1>8, ZenonT(60)
  <2>3. Len(new) = 3 /\ i \in {2, 3} /\ j \in {2, 3}
    BY <1>1, <1>2, <2>1, <2>2
  <2>4. i = j
    BY <1>3, <2>2, <2>3
  <2> QED BY <1>1, <2>4 DEF Ids
<1>9. entity'[id] = new[1]
  BY <1>2, <1>5
<1>10. Len(entity') > Len(entity) /\ id > Len(entity)
  BY <1>1, <1>2, <1>5
<1>11. entity'[id].kind = "dir"
  BY <1>3, <1>9
<1>12. new[1].name = Uri[r]
  BY <1>3
<1>13. new[1].parent = None
  <2>1. 1 \in 1 .. Len(new)
    BY <1>2
  <2> QED BY <1>3, <2>1
<1>14. Grows
  BY <1>5, <1>7, <1>8, <1>10, <1>11 DEF Grows
<1> QED BY <1>9, <1>12, <1>13, <1>14

-----------------------------------------------------------------------------
(* Listings.                                                               *)

LinkKinds == {"link", "wav_link"}

ItemOK(it) ==
    /\ it.kind \in {"dir", "file"} \cup LinkKinds
    /\ it.kind \in LinkKinds => it.res \in Resources
    /\ it.kind = "dir" =>
          it.ops \in {"music", "meta"} /\ it.res \in DOMAIN Contents

ListOK(list) ==
    Sequence(list) /\ \A k \in 1 .. Len(list) : ItemOK(list[k])

LEMMA ItemIsOK ==
    ASSUME NEW x
    PROVE  /\ \A y \in Resources : /\ ItemOK(Item(x, "link", "", y))
                                   /\ ItemOK(Item(x, "wav_link", "", y))
           /\ \A y : ItemOK(Item(x, "file", "", y))
           /\ \A o \in {"music", "meta"}, y \in DOMAIN Contents :
                 ItemOK(Item(x, "dir", o, y))
BY DEF Item, ItemOK, LinkKinds

\* A list made item by item.
LEMMA MappedOK ==
    ASSUME NEW T, NEW s \in Seq(T), NEW g, DOMAIN g = DOMAIN s,
           g = [k \in DOMAIN s |-> g[k]],
           \A k \in DOMAIN s : ItemOK(g[k])
    PROVE  ListOK(g) /\ Len(g) = Len(s)
<1> DEFINE S == {g[k] : k \in DOMAIN s}
<1>1. DOMAIN s = 1 .. Len(s) /\ Len(s) \in Nat
  OBVIOUS
<1>2. g \in [1 .. Len(s) -> S]
  BY <1>1
<1>3. Sequence(g) /\ Len(g) = Len(s)
  BY <1>1, <1>2, SequenceOf
<1> QED BY <1>1, <1>3 DEF ListOK

LEMMA LinkItemsOK ==
    ASSUME NEW s \in Seq(Resources) PROVE ListOK(LinkItems(s))
<1> DEFINE g == LinkItems(s)
<1>1. DOMAIN g = DOMAIN s
  BY DEF LinkItems
<1>2. g = [k \in DOMAIN s |-> g[k]]
  BY DEF LinkItems
<1>3. ASSUME NEW k \in DOMAIN s PROVE ItemOK(g[k])
  <2>1. g[k] = Item(Title[s[k]], "link", "", s[k])
    BY DEF LinkItems
  <2>2. s[k] \in Resources
    OBVIOUS
  <2> HIDE DEF g
  <2> QED BY <2>1, <2>2, ItemIsOK
<1> HIDE DEF g
<1> QED BY <1>1, <1>2, <1>3, MappedOK DEF g

LEMMA PlaylistItemsOK ==
    ASSUME NEW o \in {"music", "meta"} PROVE ListOK(PlaylistItems(o))
<1> DEFINE g == PlaylistItems(o)
<1>1. DOMAIN g = DOMAIN Playlists
  BY DEF PlaylistItems
<1>2. g = [k \in DOMAIN Playlists |-> g[k]]
  BY DEF PlaylistItems
<1>3. ASSUME NEW k \in DOMAIN Playlists PROVE ItemOK(g[k])
  <2>1. g[k] = Item(Playlists[k], "dir", o, Playlists[k])
    BY DEF PlaylistItems
  <2>2. Playlists[k] \in DOMAIN Contents
    BY ListAssumption
  <2> QED BY <2>1, <2>2, ItemIsOK
<1> HIDE DEF g
<1> QED BY <1>1, <1>2, <1>3, MappedOK, ListAssumption DEF g

LEMMA MusicItemsOK ==
    ASSUME NEW s \in Seq(Resources) PROVE ListOK(MusicItems(s))
<1> DEFINE g == [k \in DOMAIN s |->
                   Item(NumberedName(k - 1, Title[s[k]]), "wav_link", "", s[k])]
           x == Item("playlist.xspf", "file", "", NoResource)
<1>1. DOMAIN g = DOMAIN s
  OBVIOUS
<1>2. g = [k \in DOMAIN s |-> g[k]]
  OBVIOUS
<1>3. ASSUME NEW k \in DOMAIN s PROVE ItemOK(g[k])
  <2>1. g[k] = Item(NumberedName(k - 1, Title[s[k]]), "wav_link", "", s[k])
    OBVIOUS
  <2>2. s[k] \in Resources
    OBVIOUS
  <2> HIDE DEF g
  <2> QED BY <2>1, <2>2, ItemIsOK
<1>4. ItemOK(x)
  BY ItemIsOK
<1>5. MusicItems(s) = Append(g, x)
  BY DEF MusicItems
<1> HIDE DEF g, x
<1>6. ListOK(g)
  BY <1>1, <1>2, <1>3, MappedOK
<1>7. /\ Sequence(Append(g, x)) /\ Len(Append(g, x)) = Len(g) + 1
      /\ \A k \in 1 .. Len(g) : Append(g, x)[k] = g[k]
      /\ Append(g, x)[Len(g) + 1] = x /\ Len(g) \in Nat
  BY <1>6, SequenceAppend, SequenceBasics DEF ListOK
<1>8. \A k \in 1 .. Len(g) + 1 : k \in 1 .. Len(g) \/ k = Len(g) + 1
  BY <1>7
<1>9. \A k \in 1 .. Len(g) + 1 : ItemOK(Append(g, x)[k])
  BY <1>4, <1>6, <1>7, <1>8 DEF ListOK
<1> QED BY <1>5, <1>7, <1>9 DEF ListOK

LEMMA PortraitItemsOK ==
    ASSUME NEW r \in Resources PROVE ListOK(PortraitItems(r))
<1> DEFINE s == Portraits[r]
           g == PortraitItems(r)
<1>1. DOMAIN g = DOMAIN s
  BY DEF PortraitItems
<1>2. g = [k \in DOMAIN s |-> g[k]]
  BY DEF PortraitItems
<1>3. ASSUME NEW k \in DOMAIN s PROVE ItemOK(g[k])
  <2>1. g[k] = Item(s[k], "file", "", r)
    BY DEF PortraitItems
  <2> QED BY <2>1, ItemIsOK
<1>4. s \in Seq(STRING)
  BY ListAssumption
<1> HIDE DEF g, s
<1> QED BY <1>1, <1>2, <1>3, <1>4, MappedOK DEF g

LEMMA ResultsOK ==
    ASSUME NEW q \in Queries PROVE ListOK(ResultItems(q))
<1> DEFINE s == Results[q]
           g == ResultItems(q)
<1>1. DOMAIN g = DOMAIN s
  BY DEF ResultItems
<1>2. g = [k \in DOMAIN s |-> g[k]]
  BY DEF ResultItems
<1>3. s \in Seq(Resources)
  BY ListAssumption
<1>4. ASSUME NEW k \in DOMAIN s PROVE ItemOK(g[k])
  <2>1. g[k] = Item(ResultName(s[k]), "wav_link", "", s[k])
    BY DEF ResultItems
  <2>2. s[k] \in Resources
    BY <1>3
  <2> QED BY <2>1, <2>2, ItemIsOK
<1> HIDE DEF g, s
<1> QED BY <1>1, <1>2, <1>3, <1>4, MappedOK DEF g

\* Whatever libspotify has loaded, a directory lists proper items.
LEMMA ListingOK ==
    ASSUME TreeOK, NEW d \in Ids, NEW list \in Listings(d), list # <<>>
    PROVE  ListOK(list)
<1> DEFINE r == entity[d].res
           ops == entity[d].ops
<1>1. /\ ops \in {"music", "meta"} => r \in DOMAIN Contents
      /\ ops \in {"artists", "albums", "portraits"} => r \in Resources
  BY DEF TreeOK, EntityOK
<1>2. CASE ops = "music_lists" \/ ops = "meta_lists"
  BY <1>2, PlaylistItemsOK DEF Listings
<1>3. CASE ops = "music"
  <2>1. PICK c \in Contents[r] : list = MusicItems(c)
    BY <1>3 DEF Listings
  <2> QED BY <1>1, <1>3, <2>1, ListAssumption, MusicItemsOK
<1>4. CASE ops = "meta"
  <2>1. PICK c \in Contents[r] : list = LinkItems(c)
    BY <1>4 DEF Listings
  <2> QED BY <1>1, <1>4, <2>1, ListAssumption, LinkItemsOK
<1>5. CASE ops \in {"artists", "albums"}
  <2>1. list = LinkItems(Parts[r])
    BY <1>5 DEF Listings, IfLoaded
  <2>2. Parts[r] \in Seq(Resources)
    BY <1>1, <1>5, ListAssumption
  <2> QED BY <2>1, <2>2, LinkItemsOK
<1>6. CASE ops = "portraits"
  <2>1. list = PortraitItems(r)
    BY <1>6 DEF Listings, IfLoaded
  <2> QED BY <1>1, <1>6, <2>1, PortraitItemsOK
<1>7. ops \in {"music_lists", "meta_lists", "music", "meta", "artists",
               "albums", "portraits"}
  BY DEF Listings
<1> QED BY <1>2, <1>3, <1>4, <1>5, <1>6, <1>7

-----------------------------------------------------------------------------
(* Threads.                                                                *)

Places == {"idle", "browse", "browse_add", "test", "add", "target", "reply",
           "mkdir_search", "mkdir_add"}

\* Where a thread is at an item of its list.
Working == {"browse", "browse_add", "test", "add", "target"}

Making == {"mkdir_search", "mkdir_add"}

\* The directory for the item is there, unless libspotify has no link for it.
HasAim(t) == browse[t] # None \/ It(t).res \in Faulty

ThreadOK(t) ==
    /\ ListOK(items[t]) /\ at[t] \in 0 .. Len(items[t]) + 1
    /\ dir[t] \in 0 .. Len(entity)
    /\ entry[t] \in 0 .. Len(entity)
    /\ browse[t] \in 0 .. Len(entity)
    /\ pc[t] \in Working => at[t] \in 1 .. Len(items[t]) /\ dir[t] # None
    /\ pc[t] \in {"browse", "browse_add", "target"} => It(t).kind \in LinkKinds
    /\ pc[t] \in {"browse", "browse_add"} =>
          (entry[t] # None <=> It(t).kind = "wav_link")
    /\ pc[t] \in {"add", "target"} \cup Making => entry[t] # None
    /\ pc[t] \in Making => entity[entry[t]].ops = "results"
    /\ pc[t] = "browse_add" => browse[t] # None
    /\ pc[t] = "test" /\ It(t).kind = "link" => HasAim(t)
    /\ pc[t] \in {"add", "target"} /\ It(t).kind \in LinkKinds => HasAim(t)
    /\ t = "session" => pc[t] \notin Making

\* Entity e has been created by t, which is still to add it to a directory.
Held(t, e) ==
    \/ e = entry[t] /\ pc[t] \in {"browse", "browse_add", "add"} \cup Making
    \/ e = browse[t] /\ pc[t] = "browse_add"

HeldOK(t) ==
    /\ \A e \in Ids : Held(t, e) =>
          /\ entity[e].parent = None /\ 9 < e
          /\ Sanitize(entity[e].name) = entity[e].name
          /\ e = entry[t] /\ pc[t] \in Working => dir[t] < e
    /\ pc[t] = "browse_add" => entry[t] # browse[t]

LocalsOK ==
    /\ pc \in [Threads -> Places]
    /\ DOMAIN dir = Threads /\ DOMAIN items = Threads /\ DOMAIN at = Threads
    /\ DOMAIN entry = Threads /\ DOMAIN browse = Threads

IssuedOK == \A d \in issued : d \in Ids /\ entity[d].ops = "results"

\* No entity is in the hands of two threads.
OneHolder ==
    \A t, u \in Threads : \A e \in Ids : Held(t, e) /\ Held(u, e) => t = u

TreeInv ==
    /\ TreeOK /\ UniqueNames /\ LocalsOK /\ IssuedOK /\ OneHolder
    /\ \A t \in Threads : ThreadOK(t) /\ HeldOK(t)

OthersKept(t) ==
    \A u \in Threads \ {t} :
        /\ pc'[u] = pc[u] /\ dir'[u] = dir[u] /\ items'[u] = items[u]
        /\ at'[u] = at[u] /\ entry'[u] = entry[u] /\ browse'[u] = browse[u]

\* What every step of t does: it adds to the tree only what it holds, and
\* holds afterwards only that or what is new.
ThreadStep(t) ==
    /\ TreeStep /\ OthersKept(t) /\ LocalsOK'
    /\ \A e \in Ids : entity'[e].parent = entity[e].parent \/ Held(t, e)
    /\ \A e \in Ids : Held(t, e)' => Held(t, e)
    /\ \A d \in issued' : d \in issued \/ (d \in Ids /\ entity[d].ops = "results")
    /\ ThreadOK(t)' /\ HeldOK(t)'

LEMMA IdsGrow ==
    ASSUME TreeOK, UniqueNames, TreeStep
    PROVE  /\ Len(entity) \in Nat /\ Len(entity') \in Nat
           /\ Len(entity) <= Len(entity') /\ \A e \in Ids : e \in Ids'
<1>1. TreeOK' /\ TreeKeeps
  BY TreeAfter
<1>2. Len(entity) \in Nat /\ Len(entity') \in Nat
  BY <1>1, SequenceBasics DEF TreeOK
<1> QED BY <1>1, <1>2 DEF TreeKeeps, Ids

LEMMA OtherThreadOK ==
    ASSUME TreeInv, NEW t \in Threads, ThreadStep(t),
           NEW u \in Threads, u # t
    PROVE  ThreadOK(u)' /\ HeldOK(u)'
<1>1. TreeOK /\ UniqueNames /\ TreeStep /\ ThreadOK(u) /\ HeldOK(u)
  BY DEF TreeInv, ThreadStep
<1>2. TreeKeeps
  BY <1>1, TreeAfter
<1>3. /\ Len(entity) \in Nat /\ Len(entity') \in Nat
      /\ Len(entity) <= Len(entity') /\ \A e \in Ids : e \in Ids'
  BY <1>1, IdsGrow
<1>4. /\ pc'[u] = pc[u] /\ dir'[u] = dir[u] /\ items'[u] = items[u]
      /\ at'[u] = at[u] /\ entry'[u] = entry[u] /\ browse'[u] = browse[u]
  BY DEF ThreadStep, OthersKept
<1>5. It(u)' = It(u)
  BY <1>4 DEF It
<1>6. ThreadOK(u)'
  <2>1. pc[u] \in Making => entity'[entry[u]].ops = "results"
    BY <1>1, <1>2, <1>3 DEF ThreadOK, TreeKeeps, Ids, None
  <2>2. HasAim(u)' = HasAim(u)
    BY <1>4, <1>5 DEF HasAim
  <2>3. /\ dir[u] \in 0 .. Len(entity') /\ entry[u] \in 0 .. Len(entity')
        /\ browse[u] \in 0 .. Len(entity')
    BY <1>1, <1>3 DEF ThreadOK
  <2>4. ListOK(items[u])' <=> ListOK(items[u])
    BY <1>4 DEF ListOK, Sequence, ItemOK
  <2> QED BY <1>1, <1>4, <1>5, <2>1, <2>2, <2>3, <2>4 DEF ThreadOK, None
<1>7. \A e : Held(u, e)' <=> Held(u, e)
  BY <1>4 DEF Held
<1>8. \A e \in Ids' : Held(u, e) => e \in Ids
  BY <1>1, <1>3 DEF Held, ThreadOK, Ids
<1>9. ASSUME NEW e \in Ids, Held(u, e)
      PROVE  /\ entity'[e].parent = None
             /\ entity'[e].name = entity[e].name
  <2>1. ~ Held(t, e)
    BY <1>9 DEF TreeInv, OneHolder
  <2> QED BY <1>1, <1>2, <1>9, <2>1 DEF ThreadStep, HeldOK, TreeKeeps
<1>10. HeldOK(u)'
  BY <1>1, <1>4, <1>7, <1>8, <1>9 DEF HeldOK, None
<1> QED BY <1>6, <1>10

\* Such a step keeps the invariant, whatever the other threads are at.
LEMMA StepKeepsTree ==
    ASSUME TreeInv, NEW t \in Threads, ThreadStep(t) PROVE TreeInv'
<1>1. TreeOK /\ UniqueNames /\ TreeStep
  BY DEF TreeInv, ThreadStep
<1>2. TreeOK' /\ UniqueNames' /\ TreeKeeps
  BY <1>1, TreeAfter
<1>3. /\ Len(entity) \in Nat /\ Len(entity') \in Nat
      /\ Len(entity) <= Len(entity') /\ \A e \in Ids : e \in Ids'
  BY <1>1, IdsGrow
<1>4. \A u \in Threads : ThreadOK(u)' /\ HeldOK(u)'
  <2> SUFFICES ASSUME NEW u \in Threads PROVE ThreadOK(u)' /\ HeldOK(u)'
    OBVIOUS
  <2>1. CASE u = t
    BY <2>1 DEF ThreadStep
  <2>2. CASE u # t
    BY <2>2, OtherThreadOK
  <2> QED BY <2>1, <2>2
<1>5. IssuedOK'
  BY <1>2, <1>3 DEF TreeInv, ThreadStep, IssuedOK, TreeKeeps
<1>6. \A u \in Threads : \A e \in Ids' :
          u # t /\ Held(u, e)' => Held(u, e) /\ e \in Ids
  BY <1>1, <1>3 DEF TreeInv, ThreadStep, OthersKept, Held, ThreadOK, Ids
<1>7. \A e \in Ids : Held(t, e)' => Held(t, e)
  BY DEF ThreadStep
<1>8. OneHolder'
  <2> SUFFICES ASSUME NEW u \in Threads, NEW v \in Threads, NEW e \in Ids',
                      Held(u, e)', Held(v, e)'
               PROVE  u = v
    BY DEF OneHolder
  <2>1. CASE u = t /\ v = t
    BY <2>1
  <2>2. CASE u # t \/ v # t
    <3>1. e \in Ids
      BY <1>6, <2>2
    <3>2. Held(u, e) /\ Held(v, e)
      BY <1>6, <1>7, <3>1
    <3> QED BY <3>1, <3>2 DEF TreeInv, OneHolder
  <2> QED BY <2>1, <2>2
<1> QED BY <1>2, <1>4, <1>5, <1>8 DEF TreeInv, ThreadStep

\* What TreeInv says of one thread, for the steps below.
LEMMA AtThread ==
    ASSUME TreeInv, NEW t \in Threads
    PROVE  /\ TreeOK /\ UniqueNames /\ LocalsOK /\ ThreadOK(t) /\ HeldOK(t)
           /\ Len(entity) \in Nat /\ Len(entity) >= 9
           /\ Len(items[t]) \in Nat
           /\ DOMAIN pc = Threads /\ pc[t] \in Places
<1>1. TreeOK /\ UniqueNames /\ LocalsOK /\ ThreadOK(t) /\ HeldOK(t)
  BY DEF TreeInv
<1>2. Len(entity) \in Nat /\ Len(entity) >= 9
  BY <1>1, SequenceBasics DEF TreeOK
<1>3. Len(items[t]) \in Nat
  BY <1>1, SequenceBasics DEF ThreadOK, ListOK
<1> QED BY <1>1, <1>2, <1>3 DEF LocalsOK

LEMMA ItemAt ==
    ASSUME TreeInv, NEW t \in Threads, pc[t] \in Working
    PROVE  ItemOK(It(t)) /\ at[t] \in 1 .. Len(items[t]) /\ dir[t] \in Ids
<1>1. at[t] \in 1 .. Len(items[t]) /\ dir[t] \in Ids /\ ListOK(items[t])
  BY AtThread DEF ThreadOK, Ids, None
<1> QED BY <1>1 DEF ListOK, It

\* The directory under /browse is older than all that is ever created.
LEMMA BrowseParent ==
    ASSUME NEW r \in Resources
    PROVE  BrowseDir[Class[r]] \in Nat /\ BrowseDir[Class[r]] < 9
<1>1. Class[r] \in {"tracks", "artists", "albums"}
  BY TreeAssumption
<1> QED BY <1>1 DEF BrowseDir

LEMMA PlaceFunction ==
    ASSUME pc \in [Threads -> Places], NEW t \in Threads, NEW l \in Places,
           Goto(t, l)
    PROVE  /\ pc' \in [Threads -> Places] /\ pc'[t] = l
           /\ \A u \in Threads \ {t} : pc'[u] = pc[u]
BY DEF Goto

\* To the next item, or to the answer: nothing is held then.
LEMMA ProceedStep ==
    ASSUME TreeInv, NEW t \in Threads, TreeStep,
           NEW list, ListOK(list), NEW k \in 1 .. Len(list) + 1,
           Proceed(t, list, k),
           items'[t] = list, dir'[t] \in Ids,
           DOMAIN dir' = Threads, DOMAIN items' = Threads,
           \A u \in Threads \ {t} : dir'[u] = dir[u] /\ items'[u] = items[u],
           \A e \in Ids : entity'[e].parent = entity[e].parent \/ Held(t, e),
           \A d \in issued' : d \in issued
    PROVE  ThreadStep(t)
<1>1. LocalsOK /\ TreeOK /\ UniqueNames /\ ThreadOK(t)
  BY AtThread
<1>2. Len(list) \in Nat /\ k \in Nat
  BY SequenceBasics DEF ListOK
<1> DEFINE l == IF k > Len(list) THEN "reply"
                ELSE IF list[k].kind = "link" THEN "browse" ELSE "test"
<1>3. Goto(t, l) /\ l \in {"reply", "browse", "test"} /\ l \in Places
  BY DEF Proceed, Places
<1>4. /\ l # "reply" => k <= Len(list)
      /\ l = "browse" => list[k].kind = "link"
      /\ l = "test" => list[k].kind # "link"
  BY <1>2
<1> HIDE DEF l
<1>5. /\ pc' \in [Threads -> Places] /\ pc'[t] = l
      /\ \A u \in Threads \ {t} : pc'[u] = pc[u]
  BY <1>1, <1>3, PlaceFunction DEF LocalsOK
<1>6. /\ at'[t] = k /\ entry'[t] = None /\ browse'[t] = None
      /\ DOMAIN at' = Threads /\ DOMAIN entry' = Threads
      /\ DOMAIN browse' = Threads
      /\ \A u \in Threads \ {t} :
            at'[u] = at[u] /\ entry'[u] = entry[u] /\ browse'[u] = browse[u]
  BY <1>1 DEF Proceed, LocalsOK
<1>7. OthersKept(t) /\ LocalsOK'
  BY <1>5, <1>6 DEF OthersKept, LocalsOK
<1>8. /\ Len(entity) \in Nat /\ Len(entity') \in Nat
      /\ Len(entity) <= Len(entity') /\ \A e \in Ids : e \in Ids'
  BY <1>1, IdsGrow
<1>9. It(t)' = list[k]
  BY <1>6 DEF It
<1>10. ThreadOK(t)'
  <2>1. ListOK(items[t])' /\ at'[t] \in 0 .. Len(items'[t]) + 1
    BY <1>2, <1>6 DEF ListOK, ItemOK, Sequence
  <2>2. /\ dir'[t] \in 0 .. Len(entity') /\ entry'[t] \in 0 .. Len(entity')
        /\ browse'[t] \in 0 .. Len(entity') /\ dir'[t] # None
    BY <1>6, <1>8 DEF None, Ids
  <2>3. pc'[t] \in {"reply", "browse", "test"}
    BY <1>3, <1>5
  <2>4. pc'[t] \in Working => at'[t] \in 1 .. Len(items'[t])
    BY <1>2, <1>4, <1>5, <1>6 DEF Working
  <2>5. /\ pc'[t] = "browse" => It(t)'.kind = "link"
        /\ pc'[t] = "test" => It(t)'.kind # "link"
    BY <1>4, <1>5, <1>9
  <2> QED BY <1>6, <2>1, <2>2, <2>3, <2>4, <2>5
          DEF ThreadOK, Making, LinkKinds, None
<1>11. \A e \in Ids' : ~ Held(t, e)'
  BY <1>3, <1>5, <1>6, <1>8 DEF Held, Ids, None, Making
<1>12. HeldOK(t)'
  BY <1>3, <1>5, <1>11 DEF HeldOK
<1> QED BY <1>7, <1>8, <1>10, <1>11, <1>12 DEF ThreadStep

\* To the next item of the same list.
LEMMA NextItemStep ==
    ASSUME TreeInv, NEW t \in Threads, TreeStep, pc[t] \in Working,
           NextItem(t),
           \A e \in Ids : entity'[e].parent = entity[e].parent \/ Held(t, e)
    PROVE  ThreadStep(t)
<1>1. LocalsOK /\ ThreadOK(t) /\ Len(items[t]) \in Nat
  BY AtThread
<1>2. at[t] \in 1 .. Len(items[t]) /\ dir[t] \in Ids
  BY ItemAt
<1> DEFINE k == at[t] + 1
<1>3. k \in 1 .. Len(items[t]) + 1
  BY <1>1, <1>2
<1>4. Proceed(t, items[t], k)
  BY DEF NextItem
<1>5. dir' = dir /\ items' = items /\ issued' = issued
  BY DEF NextItem
<1>6. ListOK(items[t])
  BY <1>1 DEF ThreadOK
<1>7. DOMAIN dir = Threads /\ DOMAIN items = Threads
  BY <1>1 DEF LocalsOK
<1> HIDE DEF k
<1> QED BY <1>2, <1>3, <1>4, <1>5, <1>6, <1>7, ProceedStep

\* A list is taken up.
LEMMA FillStep ==
    ASSUME TreeInv, NEW t \in Threads, entity' = entity,
           NEW d \in Ids, NEW list, ListOK(list), Fill(t, d, list),
           \A x \in issued' : x \in issued
    PROVE  ThreadStep(t)
<1>1. LocalsOK
  BY AtThread
<1>2. /\ dir'[t] = d /\ items'[t] = list
      /\ DOMAIN dir' = Threads /\ DOMAIN items' = Threads
      /\ \A u \in Threads \ {t} : dir'[u] = dir[u] /\ items'[u] = items[u]
  BY <1>1 DEF Fill, LocalsOK
<1>3. 1 \in 1 .. Len(list) + 1
  BY SequenceBasics DEF ListOK
<1>4. Proceed(t, list, 1)
  BY DEF Fill
<1>5. TreeStep
  BY DEF TreeStep
<1> QED BY <1>2, <1>3, <1>4, <1>5, ProceedStep

\* The list and the place in it stay, and so do the locals of the others.
LocalStep(t, l) ==
    /\ Goto(t, l)
    /\ dir' = dir /\ items' = items /\ at' = at
    /\ DOMAIN entry' = Threads /\ DOMAIN browse' = Threads
    /\ \A u \in Threads \ {t} :
          entry'[u] = entry[u] /\ browse'[u] = browse[u]

LEMMA LocalStepFacts ==
    ASSUME TreeInv, NEW t \in Threads, NEW l \in Places, LocalStep(t, l)
    PROVE  /\ OthersKept(t) /\ LocalsOK'
           /\ pc'[t] = l /\ dir'[t] = dir[t] /\ items'[t] = items[t]
           /\ at'[t] = at[t] /\ It(t)' = It(t)
           /\ ListOK(items[t])' /\ at'[t] \in 0 .. Len(items'[t]) + 1
<1>1. LocalsOK /\ ThreadOK(t)
  BY AtThread
<1>2. /\ pc' \in [Threads -> Places] /\ pc'[t] = l
      /\ \A u \in Threads \ {t} : pc'[u] = pc[u]
  BY <1>1, PlaceFunction DEF LocalsOK, LocalStep
<1>3. OthersKept(t) /\ LocalsOK'
  BY <1>1, <1>2 DEF OthersKept, LocalsOK, LocalStep
<1>4. It(t)' = It(t)
  BY DEF It, LocalStep
<1>5. ListOK(items[t])' /\ at'[t] \in 0 .. Len(items'[t]) + 1
  BY <1>1 DEF ThreadOK, ListOK, ItemOK, Sequence, LocalStep
<1> QED BY <1>2, <1>3, <1>4, <1>5 DEF LocalStep

\* At an item, a step that goes on to l with the tree as it is or grown.
LEMMA ItemStepFacts ==
    ASSUME TreeInv, NEW t \in Threads, TreeStep, pc[t] \in Working,
           NEW l \in Working, LocalStep(t, l),
           entry'[t] \in 0 .. Len(entity'), browse'[t] \in 0 .. Len(entity'),
           l \in {"browse", "browse_add", "target"} => It(t).kind \in LinkKinds,
           l \in {"browse", "browse_add"} =>
               (entry'[t] # None <=> It(t).kind = "wav_link"),
           l \in {"add", "target"} => entry'[t] # None,
           l = "browse_add" => browse'[t] # None,
           \/ l \in {"browse", "browse_add"}
           \/ l = "test" /\ It(t).kind # "link"
           \/ It(t).kind \notin LinkKinds
           \/ browse'[t] # None \/ It(t).res \in Faulty
    PROVE  ThreadOK(t)'
<1>1. /\ pc'[t] = l /\ dir'[t] = dir[t] /\ items'[t] = items[t]
      /\ at'[t] = at[t] /\ It(t)' = It(t)
      /\ ListOK(items[t])' /\ at'[t] \in 0 .. Len(items'[t]) + 1
  <2>1. l \in Places
    BY DEF Places, Working
  <2> QED BY <2>1, LocalStepFacts
<1>2. at[t] \in 1 .. Len(items[t]) /\ dir[t] \in Ids
  BY ItemAt
<1>3. /\ Len(entity) \in Nat /\ Len(entity') \in Nat
      /\ Len(entity) <= Len(entity')
  BY AtThread, IdsGrow
<1>4. l \notin Making
  BY DEF Working, Making
<1>5. dir'[t] \in 0 .. Len(entity') /\ dir'[t] # None
  BY <1>1, <1>2, <1>3 DEF Ids, None
<1>6. HasAim(t)' <=> browse'[t] # None \/ It(t).res \in Faulty
  BY <1>1 DEF HasAim, None
<1>7. /\ pc'[t] = "test" /\ It(t)'.kind = "link" => HasAim(t)'
      /\ pc'[t] \in {"add", "target"} /\ It(t)'.kind \in LinkKinds => HasAim(t)'
  BY <1>1, <1>6 DEF LinkKinds
<1> QED BY <1>1, <1>2, <1>4, <1>5, <1>7 DEF ThreadOK, None

LEMMA AfterBrowseFacts ==
    ASSUME NEW t
    PROVE  /\ AfterBrowse(t) \in {"test", "add"}
           /\ AfterBrowse(t) = "test" <=> It(t).kind = "link"
BY DEF AfterBrowse

LEMMA KnownStep ==
    ASSUME TreeInv, NEW t \in Threads, browse_dir_known(t) \/ browse_dir_fails(t)
    PROVE  ThreadStep(t)
<1> DEFINE l == AfterBrowse(t)
<1>1. /\ pc[t] = "browse" /\ entity' = entity /\ issued' = issued
      /\ LocalStep(t, l) /\ entry' = entry
      /\ browse'[t] \in 0 .. Len(entity)
      /\ browse'[t] # None \/ It(t).res \in Faulty
  <2>1. BrowseLookup(t) \in 0 .. Len(entity)
    BY ChildFound, AtThread DEF BrowseLookup, spfs_entity_dir_get_child, TreeOK
  <2>2. None \in 0 .. Len(entity)
    BY AtThread DEF None
  <2> QED BY <2>1, <2>2, AtThread
          DEF browse_dir_known, browse_dir_fails, LocalStep, LocalsOK
<1>2. TreeStep
  BY <1>1 DEF TreeStep
<1>3. ThreadOK(t) /\ HeldOK(t)
  BY AtThread
<1>4. It(t).kind \in LinkKinds /\ (entry[t] # None <=> It(t).kind = "wav_link")
  BY <1>1, <1>3 DEF ThreadOK
<1>5. l \in {"test", "add"} /\ (l = "test" <=> It(t).kind = "link")
  BY AfterBrowseFacts
<1> HIDE DEF l
<1>6. l \in Working /\ l \in Places /\ pc[t] \in Working
  BY <1>1, <1>5 DEF Working, Places
<1>7. OthersKept(t) /\ LocalsOK' /\ pc'[t] = l /\ dir'[t] = dir[t]
  BY <1>1, <1>6, LocalStepFacts
<1>8. ThreadOK(t)'
  <2>1. entry'[t] \in 0 .. Len(entity') /\ browse'[t] \in 0 .. Len(entity')
    BY <1>1, <1>3 DEF ThreadOK
  <2>2. l = "add" => entry'[t] # None
    BY <1>1, <1>4, <1>5 DEF LinkKinds
  <2>3. l \notin {"browse", "browse_add", "target"}
    BY <1>5
  <2> QED BY <1>1, <1>2, <1>6, <2>1, <2>2, <2>3, ItemStepFacts
<1>9. \A e : Held(t, e)' => Held(t, e) /\ e = entry[t] /\ e = entry'[t]
  BY <1>1, <1>5, <1>7 DEF Held, Making
<1>10. HeldOK(t)'
  BY <1>1, <1>3, <1>5, <1>6, <1>7, <1>9 DEF HeldOK, Ids, None
<1> QED BY <1>1, <1>2, <1>7, <1>8, <1>9, <1>10 DEF ThreadStep

LEMMA CreateBrowseStep ==
    ASSUME TreeInv, NEW t \in Threads, browse_dir_create(t)
    PROVE  ThreadStep(t)
<1> DEFINE r == It(t).res
           id == Len(entity) + 1
           new == NewBrowseDir(r, id)
<1>1. /\ pc[t] = "browse" /\ entity' = entity \o new /\ issued' = issued
      /\ LocalStep(t, "browse_add") /\ entry' = entry /\ browse'[t] = id
  BY AtThread DEF browse_dir_create, LocalStep, LocalsOK
<1>2. pc[t] \in Working
  BY <1>1 DEF Working
<1>3. /\ TreeOK /\ UniqueNames /\ ThreadOK(t) /\ HeldOK(t)
      /\ Len(entity) \in Nat /\ Len(entity) >= 9
  BY AtThread
<1>4. It(t).kind \in LinkKinds /\ (entry[t] # None <=> It(t).kind = "wav_link")
  BY <1>1, <1>3 DEF ThreadOK
<1>5. r \in Resources
  BY <1>2, <1>4, ItemAt DEF ItemOK
<1> HIDE DEF r
<1>6. BrowseEntities(new, r, id)
  BY <1>5, NewBrowseDirFacts
<1> HIDE DEF new
<1>7. Grows /\ entity'[id].parent = None /\ entity'[id].name = Uri[r]
  BY <1>1, <1>3, <1>5, <1>6, GrowBrowse
<1>8. TreeStep
  BY <1>7 DEF TreeStep
<1>9. /\ Len(entity') \in Nat /\ Len(entity) < Len(entity')
      /\ \A e \in Ids : entity'[e] = entity[e]
  BY <1>3, <1>7, <1>8, IdsGrow DEF Grows
<1>10. /\ OthersKept(t) /\ LocalsOK' /\ pc'[t] = "browse_add"
       /\ dir'[t] = dir[t]
  BY <1>1, LocalStepFacts DEF Places
<1>11. ThreadOK(t)'
  <2>1. entry'[t] \in 0 .. Len(entity')
    BY <1>1, <1>3, <1>9 DEF ThreadOK
  <2>2. browse'[t] \in 0 .. Len(entity') /\ browse'[t] # None
    BY <1>1, <1>3, <1>9 DEF None
  <2>3. "browse_add" \in Working
    BY DEF Working
  <2>4. entry'[t] # None <=> It(t).kind = "wav_link"
    BY <1>1, <1>4
  <2> QED BY <1>1, <1>2, <1>4, <1>8, <2>1, <2>2, <2>3, <2>4, ItemStepFacts
<1>12. \A e : Held(t, e)' <=> e = entry[t] \/ e = id
  BY <1>1, <1>10 DEF Held
<1>13. \A e \in Ids : Held(t, e)' => Held(t, e)
  BY <1>1, <1>3, <1>12 DEF Held, Ids
<1>14. HeldOK(t)'
  <2>1. \A e \in Ids : e = entry[t] =>
           /\ entity'[e].parent = None /\ 9 < e
           /\ Sanitize(entity'[e].name) = entity'[e].name
           /\ dir[t] < e
    <3> SUFFICES ASSUME NEW e \in Ids, e = entry[t]
                 PROVE  /\ entity'[e].parent = None /\ 9 < e
                        /\ Sanitize(entity'[e].name) = entity'[e].name
                        /\ dir[t] < e
      OBVIOUS
    <3>1. Held(t, e)
      BY <1>1 DEF Held
    <3>2. /\ entity[e].parent = None /\ 9 < e
          /\ Sanitize(entity[e].name) = entity[e].name
          /\ dir[t] < e
      BY <1>2, <1>3, <3>1 DEF HeldOK
    <3>3. entity'[e] = entity[e]
      BY <1>9
    <3> QED BY <3>2, <3>3
  <2>2. entry[t] # id
    BY <1>3 DEF ThreadOK
  <2>3. \A e : e = entry[t] /\ e \in Ids' => e \in Ids
    BY <1>3 DEF ThreadOK, Ids
  <2>4. Sanitize(entity'[id].name) = entity'[id].name
    BY <1>5, <1>7, TreeAssumption
  <2>5. ASSUME NEW e \in Ids', Held(t, e)'
        PROVE  /\ entity'[e].parent = None /\ 9 < e
               /\ Sanitize(entity'[e].name) = entity'[e].name
               /\ e = entry'[t] => dir'[t] < e
    <3>1. CASE e = entry[t]
      BY <1>10, <2>1, <2>3, <3>1
    <3>2. CASE e = id
      <4>1. 9 < e
        BY <1>3, <3>2
      <4>2. e # entry'[t]
        BY <1>1, <2>2, <3>2
      <4> QED BY <1>7, <2>4, <3>2, <4>1, <4>2
    <3> QED BY <1>12, <2>5, <3>1, <3>2
  <2> QED BY <1>1, <2>2, <2>5 DEF HeldOK, None
<1> QED BY <1>1, <1>8, <1>9, <1>10, <1>11, <1>13, <1>14 DEF ThreadStep

LEMMA AddBrowseStep ==
    ASSUME TreeInv, NEW t \in Threads, browse_dir_add(t)
    PROVE  ThreadStep(t)
<1> DEFINE l == AfterBrowse(t)
           c == browse[t]
           p == BrowseDir[Class[It(t).res]]
<1>1. /\ pc[t] = "browse_add" /\ issued' = issued
      /\ entry' = entry /\ browse' = browse
      /\ Adds(t, p, c)
  BY DEF browse_dir_add, localVars, Adds, Into, Adding
<1>2. LocalStep(t, l)
  BY AtThread DEF browse_dir_add, localVars, LocalStep, LocalsOK
<1>3. /\ TreeOK /\ UniqueNames /\ ThreadOK(t) /\ HeldOK(t)
      /\ Len(entity) \in Nat /\ Len(entity) >= 9
  BY AtThread
<1>4. pc[t] \in Working
  BY <1>1 DEF Working
<1>5. /\ It(t).kind \in LinkKinds /\ (entry[t] # None <=> It(t).kind = "wav_link")
      /\ c \in Ids
  BY <1>1, <1>3 DEF ThreadOK, Ids, None
<1>6. p \in Nat /\ p < 9
  BY <1>4, <1>5, ItemAt, BrowseParent DEF ItemOK
<1>7. Held(t, c)
  BY <1>1 DEF Held
<1>8. /\ entity[c].parent = None /\ 9 < c
      /\ Sanitize(entity[c].name) = entity[c].name
  BY <1>3, <1>5, <1>7 DEF HeldOK
<1>9. l \in {"test", "add"} /\ (l = "test" <=> It(t).kind = "link")
  BY AfterBrowseFacts
<1> HIDE DEF l, c, p
<1>10. entity' = entity \/ Joins(p, c)
  <2>1. p < c
    BY <1>5, <1>6, <1>8 DEF Ids
  <2> QED BY <1>1, <1>3, <1>5, <1>6, <1>8, <2>1, AddChildStep
<1>11. TreeStep
  BY <1>10 DEF TreeStep
<1>12. /\ Len(entity') = Len(entity)
       /\ \A e \in Ids : e # c => entity'[e] = entity[e]
  BY <1>3, <1>10, JoinsFacts
<1>13. l \in Working /\ l \in Places
  BY <1>9 DEF Working, Places
<1>14. OthersKept(t) /\ LocalsOK' /\ pc'[t] = l /\ dir'[t] = dir[t]
  BY <1>2, <1>13, LocalStepFacts
<1>15. ThreadOK(t)'
  <2>1. entry'[t] \in 0 .. Len(entity') /\ browse'[t] \in 0 .. Len(entity')
    BY <1>1, <1>3, <1>12 DEF ThreadOK
  <2>2. l = "add" => entry'[t] # None
    BY <1>1, <1>5, <1>9 DEF LinkKinds
  <2>3. l \notin {"browse", "browse_add", "target"} /\ browse'[t] # None
    BY <1>1, <1>3, <1>9 DEF ThreadOK
  <2> QED BY <1>2, <1>4, <1>11, <1>13, <2>1, <2>2, <2>3, ItemStepFacts
<1>16. \A e : Held(t, e)' => /\ Held(t, e) /\ e # c
                             /\ e = entry[t] /\ e = entry'[t]
  <2>1. entry[t] # c
    BY <1>1, <1>3 DEF HeldOK, c
  <2> QED BY <1>1, <1>9, <1>14, <2>1 DEF Held, Making
<1>17. HeldOK(t)'
  <2>1. \A e \in Ids' : e \in Ids
    BY <1>12 DEF Ids
  <2>2. pc'[t] # "browse_add"
    BY <1>9, <1>14
  <2>3. ASSUME NEW e \in Ids', Held(t, e)'
        PROVE  /\ entity'[e].parent = None /\ 9 < e
               /\ Sanitize(entity'[e].name) = entity'[e].name
               /\ dir'[t] < e
    <3>1. Held(t, e) /\ e # c /\ e = entry[t] /\ e \in Ids
      BY <1>16, <2>1, <2>3
    <3>2. entity'[e] = entity[e]
      BY <1>12, <3>1
    <3> QED BY <1>3, <1>4, <1>14, <3>1, <3>2 DEF HeldOK
  <2> QED BY <2>2, <2>3 DEF HeldOK, None
<1>18. \A e \in Ids : entity'[e].parent = entity[e].parent \/ Held(t, e)
  BY <1>7, <1>12
<1> QED BY <1>1, <1>11, <1>14, <1>15, <1>16, <1>17, <1>18 DEF ThreadStep

\* What Text checks of spfs_sanitize_name.
SanitizedStays == \A n : Sanitize(Sanitize(n)) = Sanitize(n)

NewNamed(x, name) == NewOK(x) /\ x.name = name

\* A new file or link lists nothing.
LEMMA NewFileOK ==
    ASSUME NEW name, NEW res PROVE NewNamed(File(name, None, res), name)
BY DEF File, NewOK, NewNamed, EntityFields

LEMMA NewLinkOK ==
    ASSUME NEW name, NEW res PROVE NewNamed(Link(name, res), name)
BY DEF Link, NewOK, NewNamed, EntityFields

\* A new directory is one of those in a list, or has results.
LEMMA NewDirOK ==
    ASSUME NEW name, NEW ops, NEW res,
           \/ ops \in {"music", "meta"} /\ res \in DOMAIN Contents
           \/ ops = "results" /\ res \in Queries
    PROVE  NewNamed(Dir(name, None, ops, res), name)
BY DEF Dir, NewOK, NewNamed, EntityFields

LEMMA NewEntryFacts ==
    ASSUME NEW it, ItemOK(it), SanitizedStays
    PROVE  /\ NewOK(NewEntry(it))
           /\ Sanitize(NewEntry(it).name) = NewEntry(it).name
<1> DEFINE name == Sanitize(it.name)
           x == NewEntry(it)
<1>1. Sanitize(name) = name
  BY DEF SanitizedStays
<1>2. CASE it.kind = "dir"
  <2>1. x = Dir(name, None, it.ops, it.res)
    BY <1>2 DEF NewEntry
  <2>2. it.ops \in {"music", "meta"} /\ it.res \in DOMAIN Contents
    BY <1>2 DEF ItemOK
  <2> HIDE DEF name, x
  <2> QED BY <1>1, <2>1, <2>2, NewDirOK DEF NewNamed, x
<1>3. CASE it.kind = "file"
  <2>1. x = File(name, None, it.res)
    BY <1>3 DEF NewEntry
  <2> HIDE DEF name, x
  <2> QED BY <1>1, <2>1, NewFileOK DEF NewNamed, x
<1>4. CASE it.kind \notin {"dir", "file"}
  <2>1. x = Link(name, it.res)
    BY <1>4 DEF NewEntry
  <2> HIDE DEF name, x
  <2> QED BY <1>1, <2>1, NewLinkOK DEF NewNamed, x
<1> QED BY <1>2, <1>3, <1>4

LEMMA CreateEntryStep ==
    ASSUME TreeInv, SanitizedStays, NEW t \in Threads, entry_create(t)
    PROVE  ThreadStep(t)
<1> DEFINE l == IF It(t).kind = "wav_link" THEN "browse" ELSE "add"
           id == Len(entity) + 1
           x == NewEntry(It(t))
<1>1. /\ pc[t] = "test" /\ entity' = Append(entity, x) /\ issued' = issued
      /\ entry'[t] = id /\ browse' = browse
      /\ LocalStep(t, l)
  BY AtThread DEF entry_create, LocalStep, LocalsOK
<1>2. /\ TreeOK /\ UniqueNames /\ ThreadOK(t)
      /\ Len(entity) \in Nat /\ Len(entity) >= 9
  BY AtThread
<1>3. pc[t] \in Working
  BY <1>1 DEF Working
<1>4. ItemOK(It(t)) /\ dir[t] \in Ids
  BY <1>3, ItemAt
<1>5. NewOK(x) /\ Sanitize(x.name) = x.name
  BY <1>4, NewEntryFacts
<1>6. /\ l \in {"browse", "add"} /\ (l = "browse" <=> It(t).kind = "wav_link")
      /\ l \in Working /\ l \in Places
  BY DEF Working, Places
<1> HIDE DEF l, x
<1>7. Grows /\ Len(entity') = id /\ entity'[id] = x
  BY <1>1, <1>2, <1>5, GrowOne
<1>8. TreeStep
  BY <1>7 DEF TreeStep
<1>9. /\ OthersKept(t) /\ LocalsOK' /\ pc'[t] = l /\ dir'[t] = dir[t]
  BY <1>1, <1>6, LocalStepFacts
<1>10. ThreadOK(t)'
  <2>1. entry'[t] \in 0 .. Len(entity') /\ browse'[t] \in 0 .. Len(entity')
    BY <1>1, <1>2, <1>7 DEF ThreadOK
  <2>2. entry'[t] # None
    BY <1>1, <1>2 DEF None
  <2>3. l = "browse" => It(t).kind \in LinkKinds
    BY <1>6 DEF LinkKinds
  <2>4. l \notin {"browse_add", "target"}
    BY <1>6
  <2>5. It(t).kind = "link" => browse[t] # None \/ It(t).res \in Faulty
    BY <1>1, <1>2 DEF ThreadOK, HasAim
  <2>6. \/ l = "browse"
        \/ It(t).kind \notin LinkKinds
        \/ browse'[t] # None \/ It(t).res \in Faulty
    BY <1>1, <1>6, <2>5 DEF LinkKinds
  <2> QED BY <1>1, <1>3, <1>6, <1>8, <2>1, <2>2, <2>3, <2>4, <2>6, ItemStepFacts
<1>11. \A e : Held(t, e)' => e = id
  BY <1>1, <1>6, <1>9 DEF Held
<1>12. id \notin Ids
  BY <1>2 DEF Ids
<1>13. HeldOK(t)'
  <2>1. /\ entity'[id].parent = None /\ 9 < id
        /\ Sanitize(entity'[id].name) = entity'[id].name
        /\ dir'[t] < id
    BY <1>2, <1>4, <1>5, <1>7, <1>9 DEF NewOK, Ids
  <2>2. pc'[t] # "browse_add"
    BY <1>6, <1>9
  <2> QED BY <1>11, <2>1, <2>2 DEF HeldOK, None
<1>14. \A e \in Ids : entity'[e].parent = entity[e].parent
  BY <1>7 DEF Grows
<1> QED BY <1>1, <1>8, <1>9, <1>10, <1>11, <1>12, <1>13, <1>14 DEF ThreadStep

\* The entry is added, or refused.
LEMMA AddEntry ==
    ASSUME TreeInv, NEW t \in Threads, pc[t] = "add",
           Adds(t, dir[t], entry[t])
    PROVE  /\ TreeStep /\ Len(entity') = Len(entity)
           /\ \A e \in Ids : entity'[e].parent = entity[e].parent \/ Held(t, e)
<1> DEFINE p == dir[t]
           c == entry[t]
<1>1. /\ TreeOK /\ ThreadOK(t) /\ HeldOK(t)
  BY AtThread
<1>2. c \in Ids /\ pc[t] \in Working
  BY <1>1 DEF ThreadOK, Ids, None, Working
<1>3. p \in Nat
  BY <1>2, ItemAt DEF Ids
<1>4. Held(t, c)
  BY DEF Held
<1>5. /\ entity[c].parent = None /\ p < c
      /\ Sanitize(entity[c].name) = entity[c].name
  BY <1>1, <1>2, <1>4 DEF HeldOK
<1>6. Adds(t, p, c)
  OBVIOUS
<1> HIDE DEF p, c
<1>7. entity' = entity \/ Joins(p, c)
  BY <1>1, <1>2, <1>3, <1>5, <1>6, AddChildStep
<1>8. /\ Len(entity') = Len(entity)
      /\ \A e \in Ids : e # c => entity'[e] = entity[e]
  BY <1>1, <1>7, JoinsFacts
<1> QED BY <1>4, <1>7, <1>8 DEF TreeStep

LEMMA AddLinkStep ==
    ASSUME TreeInv, NEW t \in Threads, entry_add_link(t)
    PROVE  ThreadStep(t)
<1>1. /\ pc[t] = "add" /\ issued' = issued /\ entry' = entry /\ browse' = browse
      /\ It(t).kind \in LinkKinds
      /\ Adds(t, dir[t], entry[t])
  BY DEF entry_add_link, localVars, LinkKinds, Adds, Into, Adding
<1>2. LocalStep(t, "target")
  BY AtThread DEF entry_add_link, localVars, LocalStep, LocalsOK
<1>3. ThreadOK(t)
  BY AtThread
<1>4. /\ TreeStep /\ Len(entity') = Len(entity)
      /\ \A e \in Ids : entity'[e].parent = entity[e].parent \/ Held(t, e)
  BY <1>1, AddEntry
<1>5. /\ "target" \in Working /\ pc[t] \in Working /\ "target" \in Places
  BY <1>1 DEF Working, Places
<1>6. OthersKept(t) /\ LocalsOK' /\ pc'[t] = "target"
  BY <1>2, <1>5, LocalStepFacts
<1>7. ThreadOK(t)'
  <2>1. entry'[t] \in 0 .. Len(entity') /\ browse'[t] \in 0 .. Len(entity')
    BY <1>1, <1>3, <1>4 DEF ThreadOK
  <2>2. entry'[t] # None /\ (browse'[t] # None \/ It(t).res \in Faulty)
    BY <1>1, <1>3 DEF ThreadOK, HasAim
  <2> QED BY <1>1, <1>2, <1>4, <1>5, <2>1, <2>2, ItemStepFacts
<1>8. \A e : ~ Held(t, e)'
  BY <1>6 DEF Held, Making
<1>9. HeldOK(t)'
  BY <1>6, <1>8 DEF HeldOK
<1> QED BY <1>1, <1>4, <1>6, <1>7, <1>8, <1>9 DEF ThreadStep

LEMMA AddOtherStep ==
    ASSUME TreeInv, NEW t \in Threads, entry_add(t)
    PROVE  ThreadStep(t)
<1>1. /\ pc[t] = "add" /\ NextItem(t)
      /\ Adds(t, dir[t], entry[t])
  BY DEF entry_add, Adds, Into, Adding
<1>2. pc[t] \in Working
  BY <1>1 DEF Working
<1>3. /\ TreeStep
      /\ \A e \in Ids : entity'[e].parent = entity[e].parent \/ Held(t, e)
  BY <1>1, AddEntry
<1> QED BY <1>1, <1>2, <1>3, NextItemStep

LEMMA KnownEntryStep ==
    ASSUME TreeInv, NEW t \in Threads, entry_known(t)
    PROVE  ThreadStep(t)
<1>1. pc[t] \in Working /\ NextItem(t) /\ entity' = entity
  BY DEF entry_known, Working
<1>2. TreeStep
  BY <1>1 DEF TreeStep
<1> QED BY <1>1, <1>2, NextItemStep

LEMMA TargetStep ==
    ASSUME TreeInv, NEW t \in Threads, spfs_entity_link_set_target(t)
    PROVE  ThreadStep(t)
<1> DEFINE c == entry[t]
<1>1. /\ pc[t] = "target" /\ NextItem(t) /\ entity' = Targeted(t)
  BY DEF spfs_entity_link_set_target
<1>2. pc[t] \in Working
  BY <1>1 DEF Working
<1>3. TreeOK /\ c \in Ids
  BY <1>1, AtThread DEF ThreadOK, Ids, None
<1>4. entity' = entity \/ Retargets(c)
  BY <1>1, <1>3 DEF Targeted, Retargets
<1> HIDE DEF c
<1>5. TreeStep
  BY <1>4 DEF TreeStep
<1>6. \A e \in Ids : entity'[e].parent = entity[e].parent
  BY <1>3, <1>4, RetargetsFacts
<1> QED BY <1>1, <1>2, <1>5, <1>6, NextItemStep

LEMMA ReplyStep ==
    ASSUME TreeInv, NEW t \in Threads, reply(t)
    PROVE  ThreadStep(t)
<1>1. /\ pc[t] = "reply" /\ Goto(t, "idle") /\ entity' = entity
      /\ entry' = entry /\ browse' = browse /\ issued' = issued
      /\ dir' = [dir EXCEPT ![t] = None] /\ items' = [items EXCEPT ![t] = <<>>]
      /\ at' = [at EXCEPT ![t] = 0]
  BY DEF reply
<1>2. LocalsOK /\ ThreadOK(t) /\ Len(entity) \in Nat
  BY AtThread
<1>3. "idle" \in Places
  BY DEF Places
<1>4. /\ pc' \in [Threads -> Places] /\ pc'[t] = "idle"
      /\ \A u \in Threads \ {t} : pc'[u] = pc[u]
  BY <1>1, <1>2, <1>3, PlaceFunction DEF LocalsOK
<1>5. /\ dir'[t] = 0 /\ items'[t] = <<>> /\ at'[t] = 0
      /\ DOMAIN dir' = Threads /\ DOMAIN items' = Threads
      /\ DOMAIN at' = Threads
      /\ \A u \in Threads \ {t} :
            dir'[u] = dir[u] /\ items'[u] = items[u] /\ at'[u] = at[u]
  BY <1>1, <1>2 DEF LocalsOK, None
<1>6. OthersKept(t) /\ LocalsOK' /\ TreeStep
  BY <1>1, <1>2, <1>4, <1>5 DEF OthersKept, LocalsOK, TreeStep
<1>7. ListOK(items[t])' /\ Len(items'[t]) = 0
  <2>1. items'[t] \in Seq({}) /\ Len(items'[t]) = 0
    BY <1>5
  <2>2. Sequence(items'[t])
    BY <2>1 DEF Sequence
  <2>3. \A k \in 1 .. Len(items'[t]) : FALSE
    BY <2>1
  <2> QED BY <2>1, <2>2, <2>3 DEF ListOK, Sequence
<1>8. ThreadOK(t)'
  BY <1>1, <1>2, <1>4, <1>5, <1>7 DEF ThreadOK, Working, Making, None
<1>9. \A e : ~ Held(t, e)'
  BY <1>4 DEF Held, Making
<1>10. HeldOK(t)'
  BY <1>4, <1>9 DEF HeldOK
<1> QED BY <1>1, <1>6, <1>8, <1>9, <1>10 DEF ThreadStep

LEMMA ItemStepKeeps ==
    ASSUME TreeInv, SanitizedStays, NEW t \in Threads, ItemStep(t)
    PROVE  ThreadStep(t)
<1>1. CASE browse_dir_known(t) \/ browse_dir_fails(t)
  BY <1>1, KnownStep
<1>2. CASE browse_dir_create(t)
  BY <1>2, CreateBrowseStep
<1>3. CASE browse_dir_add(t)
  BY <1>3, AddBrowseStep
<1>4. CASE entry_known(t)
  BY <1>4, KnownEntryStep
<1>5. CASE entry_create(t)
  BY <1>5, CreateEntryStep
<1>6. CASE entry_add_link(t)
  BY <1>6, AddLinkStep
<1>7. CASE entry_add(t)
  BY <1>7, AddOtherStep
<1>8. CASE spfs_entity_link_set_target(t)
  BY <1>8, TargetStep
<1>9. CASE reply(t)
  BY <1>9, ReplyStep
<1> QED BY <1>1, <1>2, <1>3, <1>4, <1>5, <1>6, <1>7, <1>8, <1>9 DEF ItemStep

\* Directories for a search: the steps of mkdir, on any FUSE thread.
LEMMA MakingFacts ==
    ASSUME TreeInv, NEW w \in Workers, NEW l \in {"idle"} \cup Making,
           TreeStep, LocalStep(w, l),
           entry'[w] \in 0 .. Len(entity'), browse'[w] \in 0 .. Len(entity'),
           l \in Making => entry'[w] # None /\ entity'[entry'[w]].ops = "results"
    PROVE  ThreadOK(w)' /\ OthersKept(w) /\ LocalsOK' /\ pc'[w] = l
<1>1. w \in Threads /\ w # "session"
  BY TreeAssumption DEF Threads
<1>2. l \in Places /\ l \notin Working /\ l \in {"idle", "mkdir_search", "mkdir_add"}
  BY DEF Making, Places, Working
<1>3. /\ OthersKept(w) /\ LocalsOK' /\ pc'[w] = l /\ dir'[w] = dir[w]
      /\ ListOK(items[w])' /\ at'[w] \in 0 .. Len(items'[w]) + 1
  BY <1>1, <1>2, LocalStepFacts
<1>4. dir'[w] \in 0 .. Len(entity')
  BY <1>1, <1>3, AtThread, IdsGrow DEF ThreadOK
<1> QED BY <1>1, <1>2, <1>3, <1>4 DEF ThreadOK, None

LEMMA CreateSearchStep ==
    ASSUME TreeInv, SanitizedStays, NEW w \in Workers, NEW q \in Queries,
           search_dir_create(w, q)
    PROVE  ThreadStep(w)
<1> DEFINE name == Sanitize(q)
           x == Dir(name, None, "results", q)
           id == Len(entity) + 1
<1>1. w \in Threads
  BY DEF Threads
<1>2. /\ entity' = Append(entity, x) /\ issued' = issued
      /\ entry'[w] = id /\ browse' = browse
      /\ LocalStep(w, "mkdir_search")
  BY <1>1, AtThread DEF search_dir_create, LocalStep, LocalsOK
<1>3. /\ TreeOK /\ UniqueNames /\ ThreadOK(w)
      /\ Len(entity) \in Nat /\ Len(entity) >= 9
  BY <1>1, AtThread
<1>4. Sanitize(name) = name
  BY DEF SanitizedStays
<1>5. x.ops = "results"
  BY DEF Dir
<1> HIDE DEF name
<1>6. NewNamed(x, name)
  BY NewDirOK
<1> HIDE DEF x
<1>7. NewOK(x) /\ Sanitize(x.name) = x.name
  BY <1>4, <1>6 DEF NewNamed
<1>8. Grows /\ Len(entity') = id /\ entity'[id] = x
  BY <1>2, <1>3, <1>7, GrowOne
<1>9. TreeStep
  BY <1>8 DEF TreeStep
<1>10. ThreadOK(w)' /\ OthersKept(w) /\ LocalsOK' /\ pc'[w] = "mkdir_search"
  <2>1. entry'[w] \in 0 .. Len(entity') /\ browse'[w] \in 0 .. Len(entity')
    BY <1>2, <1>3, <1>8 DEF ThreadOK
  <2>2. entry'[w] # None /\ entity'[entry'[w]].ops = "results"
    BY <1>2, <1>3, <1>5, <1>8 DEF None
  <2>3. "mkdir_search" \in {"idle"} \cup Making
    BY DEF Making
  <2> QED BY <1>2, <1>9, <2>1, <2>2, <2>3, MakingFacts
<1>11. \A e : Held(w, e)' => e = id
  BY <1>2, <1>10 DEF Held
<1>12. id \notin Ids
  BY <1>3 DEF Ids
<1>13. HeldOK(w)'
  <2>1. /\ entity'[id].parent = None /\ 9 < id
        /\ Sanitize(entity'[id].name) = entity'[id].name
    BY <1>3, <1>7, <1>8 DEF NewOK
  <2>2. pc'[w] # "browse_add" /\ pc'[w] \notin Working
    BY <1>10 DEF Working
  <2> QED BY <1>11, <2>1, <2>2 DEF HeldOK, None
<1>14. \A e \in Ids : entity'[e].parent = entity[e].parent
  BY <1>8 DEF Grows
<1> QED BY <1>2, <1>9, <1>10, <1>11, <1>12, <1>13, <1>14 DEF ThreadStep

LEMMA IssueSearchStep ==
    ASSUME TreeInv, NEW w \in Workers, search_dir_search(w)
    PROVE  ThreadStep(w)
<1>1. w \in Threads
  BY DEF Threads
<1>2. /\ pc[w] = "mkdir_search" /\ entity' = entity
      /\ issued' = issued \cup {entry[w]}
      /\ entry' = entry /\ browse' = browse
      /\ LocalStep(w, "mkdir_add")
  BY <1>1, AtThread DEF search_dir_search, localVars, LocalStep, LocalsOK
<1>3. ThreadOK(w) /\ HeldOK(w)
  BY <1>1, AtThread
<1>4. TreeStep
  BY <1>2 DEF TreeStep
<1>5. entry[w] \in Ids /\ entity[entry[w]].ops = "results"
  BY <1>2, <1>3 DEF ThreadOK, Making, Ids, None
<1>6. ThreadOK(w)' /\ OthersKept(w) /\ LocalsOK' /\ pc'[w] = "mkdir_add"
  <2>1. entry'[w] \in 0 .. Len(entity') /\ browse'[w] \in 0 .. Len(entity')
    BY <1>2, <1>3 DEF ThreadOK
  <2>2. entry'[w] # None /\ entity'[entry'[w]].ops = "results"
    BY <1>2, <1>5, <1>3 DEF ThreadOK, Making
  <2>3. "mkdir_add" \in {"idle"} \cup Making
    BY DEF Making
  <2> QED BY <1>2, <1>4, <2>1, <2>2, <2>3, MakingFacts
<1>7. \A e : Held(w, e)' => Held(w, e)
  BY <1>2, <1>6 DEF Held, Making
<1>8. HeldOK(w)'
  BY <1>2, <1>3, <1>6, <1>7 DEF HeldOK, Ids, None, Working
<1> QED BY <1>2, <1>4, <1>5, <1>6, <1>7, <1>8 DEF ThreadStep

LEMMA AddSearchStep ==
    ASSUME TreeInv, NEW w \in Workers, search_dir_add(w)
    PROVE  ThreadStep(w)
<1> DEFINE c == entry[w]
<1>1. w \in Threads
  BY DEF Threads
<1>2. /\ pc[w] = "mkdir_add" /\ issued' = issued
      /\ entry'[w] = None /\ browse' = browse
      /\ LocalStep(w, "idle")
      /\ Adds(w, SearchDir, c)
  <2>1. pc[w] = "mkdir_add" /\ Adds(w, SearchDir, c)
    BY DEF search_dir_add, Adds, Into, Adding
  <2> QED BY <1>1, <2>1, AtThread DEF search_dir_add, LocalStep, LocalsOK
<1>3. TreeOK /\ UniqueNames /\ ThreadOK(w) /\ HeldOK(w) /\ Len(entity) \in Nat
  BY <1>1, AtThread
<1>4. c \in Ids
  BY <1>2, <1>3 DEF ThreadOK, Making, Ids, None
<1>5. Held(w, c)
  BY <1>2 DEF Held, Making
<1>6. /\ entity[c].parent = None /\ SearchDir \in Nat /\ SearchDir < c
      /\ Sanitize(entity[c].name) = entity[c].name
  BY <1>3, <1>4, <1>5 DEF HeldOK, SearchDir, Ids
<1> HIDE DEF c
<1>7. entity' = entity \/ Joins(SearchDir, c)
  BY <1>2, <1>3, <1>4, <1>6, AddChildStep
<1>8. TreeStep
  BY <1>7 DEF TreeStep
<1>9. /\ Len(entity') = Len(entity)
      /\ \A e \in Ids : e # c => entity'[e] = entity[e]
  BY <1>3, <1>7, JoinsFacts
<1>10. ThreadOK(w)' /\ OthersKept(w) /\ LocalsOK' /\ pc'[w] = "idle"
  <2>1. entry'[w] \in 0 .. Len(entity') /\ browse'[w] \in 0 .. Len(entity')
    BY <1>2, <1>3, <1>9 DEF ThreadOK, None
  <2>2. "idle" \notin Making
    BY DEF Making
  <2> QED BY <1>2, <1>8, <2>1, <2>2, MakingFacts
<1>11. \A e : ~ Held(w, e)'
  BY <1>10 DEF Held, Making
<1>12. HeldOK(w)'
  BY <1>10, <1>11 DEF HeldOK
<1>13. \A e \in Ids : entity'[e].parent = entity[e].parent \/ Held(w, e)
  BY <1>5, <1>9
<1> QED BY <1>2, <1>8, <1>10, <1>11, <1>12, <1>13 DEF ThreadStep

-----------------------------------------------------------------------------
(* The invariant.                                                          *)

LEMMA ReaddirStep ==
    ASSUME TreeInv, NEW w \in Workers, NEW d \in Ids, spfs_readdir(w, d)
    PROVE  ThreadStep(w)
<1>1. PICK list \in Listings(d) : list # <<>> /\ Fill(w, d, list)
  BY DEF spfs_readdir
<1>2. entity' = entity /\ issued' = issued /\ w \in Threads
  BY DEF spfs_readdir, Threads
<1>3. ListOK(list)
  BY <1>1, ListingOK DEF TreeInv
<1> QED BY <1>1, <1>2, <1>3, FillStep

LEMMA CallbackStep ==
    ASSUME TreeInv, NEW d \in issued, track_search_complete_cb(d)
    PROVE  ThreadStep("session")
<1> DEFINE q == entity[d].res
           list == ResultItems(q)
<1>1. /\ entity' = entity /\ issued' = issued \ {d} /\ "session" \in Threads
      /\ Fill("session", d, list)
  BY DEF track_search_complete_cb, Threads
<1>2. d \in Ids /\ entity[d].ops = "results"
  BY DEF TreeInv, IssuedOK
<1>3. q \in Queries
  BY <1>2 DEF TreeInv, TreeOK, EntityOK
<1> HIDE DEF q
<1>4. ListOK(list)
  BY <1>3, ResultsOK
<1> HIDE DEF list
<1> QED BY <1>1, <1>2, <1>4, FillStep

LEMMA SomeThreadStep ==
    ASSUME TreeInv, SanitizedStays, Work
    PROVE  \E t \in Threads : ThreadStep(t)
<1>1. ASSUME NEW w \in Workers,
             \/ \E d \in Ids : spfs_readdir(w, d)
             \/ \E q \in Queries : search_dir_create(w, q)
             \/ search_dir_search(w) \/ search_dir_add(w)
      PROVE  \E t \in Threads : ThreadStep(t)
  <2>1. w \in Threads
    BY DEF Threads
  <2>2. ThreadStep(w)
    BY <1>1, ReaddirStep, CreateSearchStep, IssueSearchStep, AddSearchStep
  <2> QED BY <2>1, <2>2
<1>2. ASSUME NEW d \in issued, track_search_complete_cb(d)
      PROVE  \E t \in Threads : ThreadStep(t)
  BY <1>2, CallbackStep DEF Threads
<1>3. ASSUME NEW t \in Threads, ItemStep(t)
      PROVE  \E u \in Threads : ThreadStep(u)
  BY <1>3, ItemStepKeeps
<1> QED BY <1>1, <1>2, <1>3 DEF Work

LEMMA SequenceNine ==
    ASSUME NEW a, NEW b, NEW c, NEW d, NEW e, NEW f, NEW g, NEW h, NEW i,
           NEW s, s = <<a, b, c, d, e, f, g, h, i>>
    PROVE  /\ Sequence(s) /\ Len(s) = 9
           /\ s[1] = a /\ s[2] = b /\ s[3] = c /\ s[4] = d /\ s[5] = e
           /\ s[6] = f /\ s[7] = g /\ s[8] = h /\ s[9] = i
<1>1. s \in Seq({a, b, c, d, e, f, g, h, i})
  OBVIOUS
<1> QED BY <1>1 DEF Sequence

InitialOps == {"", "search", "meta_lists", "music_lists"}

\* One of the directories that are there from the start.
DirIs(x, name, parent, ops) ==
    /\ DOMAIN x = EntityFields /\ x.kind = "dir"
    /\ x.name = name /\ x.parent = parent /\ x.ops = ops

LEMMA InitialDir ==
    ASSUME NEW name, NEW parent, NEW ops, NEW x,
           x = Dir(name, parent, ops, NoResource)
    PROVE  DirIs(x, name, parent, ops)
BY DEF Dir, DirIs, EntityFields

LEMMA InitialEntities ==
    ASSUME Init
    PROVE  /\ Sequence(entity) /\ Len(entity) = 9
           /\ DirIs(entity[1], "", 0, "")
           /\ DirIs(entity[2], "browse", 1, "")
           /\ DirIs(entity[3], "tracks", 2, "")
           /\ DirIs(entity[4], "artists", 2, "")
           /\ DirIs(entity[5], "albums", 2, "")
           /\ DirIs(entity[6], "search", 1, "search")
           /\ DirIs(entity[7], "playlists", 1, "")
           /\ DirIs(entity[8], "meta", 7, "meta_lists")
           /\ DirIs(entity[9], "music", 7, "music_lists")
<1> DEFINE a == Dir("", 0, "", NoResource)
           b == Dir("browse", 1, "", NoResource)
           c == Dir("tracks", 2, "", NoResource)
           d == Dir("artists", 2, "", NoResource)
           e == Dir("albums", 2, "", NoResource)
           f == Dir("search", 1, "search", NoResource)
           g == Dir("playlists", 1, "", NoResource)
           h == Dir("meta", 7, "meta_lists", NoResource)
           i == Dir("music", 7, "music_lists", NoResource)
<1>1. entity = <<a, b, c, d, e, f, g, h, i>>
  BY DEF Init, InitialTree, None, Root
<1>2. DirIs(a, "", 0, "") /\ DirIs(b, "browse", 1, "")
  BY InitialDir
<1>3. DirIs(c, "tracks", 2, "") /\ DirIs(d, "artists", 2, "")
  BY InitialDir
<1>4. DirIs(e, "albums", 2, "") /\ DirIs(f, "search", 1, "search")
  BY InitialDir
<1>5. DirIs(g, "playlists", 1, "") /\ DirIs(h, "meta", 7, "meta_lists")
  BY InitialDir
<1>6. DirIs(i, "music", 7, "music_lists")
  BY InitialDir
<1> HIDE DEF a, b, c, d, e, f, g, h, i
<1>7. /\ Sequence(entity) /\ Len(entity) = 9
      /\ entity[1] = a /\ entity[2] = b /\ entity[3] = c /\ entity[4] = d
      /\ entity[5] = e /\ entity[6] = f /\ entity[7] = g /\ entity[8] = h
      /\ entity[9] = i
  BY <1>1, SequenceNine
<1> QED BY <1>2, <1>3, <1>4, <1>5, <1>6, <1>7

LEMMA TreeInit ==
    ASSUME Init PROVE TreeInv
<1>1. Sequence(entity) /\ Len(entity) = 9
  BY InitialEntities
<1>2. /\ DirIs(entity[1], "", 0, "")
      /\ DirIs(entity[2], "browse", 1, "")
      /\ DirIs(entity[3], "tracks", 2, "")
      /\ DirIs(entity[4], "artists", 2, "")
      /\ DirIs(entity[5], "albums", 2, "")
      /\ DirIs(entity[6], "search", 1, "search")
      /\ DirIs(entity[7], "playlists", 1, "")
      /\ DirIs(entity[8], "meta", 7, "meta_lists")
      /\ DirIs(entity[9], "music", 7, "music_lists")
  BY InitialEntities
<1>3. \A e \in Ids : e \in {1, 2, 3, 4, 5, 6, 7, 8, 9}
  BY <1>1 DEF Ids
<1>4. TreeOK
  <2>1. /\ entity[1].parent = 0 /\ entity[2].parent = 1
        /\ entity[3].parent = 2 /\ entity[4].parent = 2
        /\ entity[5].parent = 2 /\ entity[6].parent = 1
        /\ entity[7].parent = 1 /\ entity[8].parent = 7
        /\ entity[9].parent = 7
    BY <1>2, Zenon DEF DirIs
  <2>2. ASSUME NEW e \in Ids PROVE EntityOK(e)
    <3>1. /\ DOMAIN entity[e] = EntityFields /\ entity[e].kind = "dir"
          /\ entity[e].ops \in InitialOps
      BY <1>2, <1>3, ZenonT(60) DEF DirIs, InitialOps
    <3>2. entity[e].parent \in Nat /\ entity[e].parent < e
      BY <1>3, <2>1
    <3> QED BY <3>1, <3>2 DEF EntityOK, InitialOps
  <2> QED BY <1>1, <2>2 DEF TreeOK
<1>5. UniqueNames
  <2>1. /\ entity[1].name = "" /\ entity[2].name = "browse"
        /\ entity[3].name = "tracks" /\ entity[4].name = "artists"
        /\ entity[5].name = "albums" /\ entity[6].name = "search"
        /\ entity[7].name = "playlists" /\ entity[8].name = "meta"
        /\ entity[9].name = "music"
    BY <1>2, Zenon DEF DirIs
  <2>2. \A e, f \in Ids : entity[e].name = entity[f].name => e = f
    BY <1>3, <2>1, ZenonT(60)
  <2> QED BY <2>2 DEF UniqueNames
<1>6. /\ pc = [t \in Threads |-> "idle"] /\ dir = [t \in Threads |-> None]
      /\ items = [t \in Threads |-> <<>>] /\ at = [t \in Threads |-> 0]
      /\ entry = [t \in Threads |-> None] /\ browse = [t \in Threads |-> None]
      /\ issued = {}
  BY DEF Init
<1>7. LocalsOK /\ IssuedOK
  BY <1>6 DEF LocalsOK, IssuedOK, Places
<1>8. ASSUME NEW t \in Threads
       PROVE  ThreadOK(t) /\ HeldOK(t) /\ \A e \in Ids : ~ Held(t, e)
  <2>1. /\ pc[t] = "idle" /\ dir[t] = 0 /\ items[t] = <<>> /\ at[t] = 0
        /\ entry[t] = 0 /\ browse[t] = 0
    BY <1>6 DEF None
  <2>2. ListOK(items[t]) /\ Len(items[t]) = 0
    <3>1. items[t] \in Seq({}) /\ Len(items[t]) = 0
      BY <2>1
    <3>2. Sequence(items[t])
      BY <3>1 DEF Sequence
    <3> QED BY <3>1, <3>2 DEF ListOK
  <2>3. ThreadOK(t)
    BY <1>1, <2>1, <2>2 DEF ThreadOK, Working, Making
  <2>4. \A e \in Ids : ~ Held(t, e)
    BY <2>1 DEF Held, Making
  <2> QED BY <2>1, <2>3, <2>4 DEF HeldOK
<1>9. OneHolder
  BY <1>8 DEF OneHolder
<1> QED BY <1>4, <1>5, <1>7, <1>8, <1>9 DEF TreeInv

\* Nothing happens to the tree.
LEMMA TreeStutter ==
    ASSUME TreeInv, UNCHANGED treeVars PROVE TreeInv'
BY DEF TreeInv, TreeOK, EntityOK, Ids, UniqueNames, LocalsOK, IssuedOK,
       OneHolder, Held, ThreadOK, HeldOK, HasAim, It, ListOK, ItemOK, Sequence,
       treeVars, localVars, None

\* The process runs on after a step of Work, which clears no name.
LEMMA WorkRuns ==
    ASSUME Work PROVE Running /\ cleared' \subseteq cleared
<1>1. ASSUME NEW t, ItemStep(t)
      PROVE  Running /\ cleared' \subseteq cleared
  BY <1>1 DEF ItemStep, browse_dir_known, browse_dir_create, browse_dir_add,
     browse_dir_fails, entry_known, entry_create, entry_add_link, entry_add,
     spfs_entity_link_set_target, reply, spfs_entity_dir_add_child
<1> QED BY <1>1 DEF Work, spfs_readdir, search_dir_create, search_dir_search,
        search_dir_add, track_search_complete_cb, spfs_entity_dir_add_child

\* As long as nothing is overwritten, the tree changes in steps of Work only.
LEMMA Moves ==
    ASSUME [Next]_vars, NothingOverwritten'
    PROVE  NothingOverwritten /\ (Work \/ UNCHANGED treeVars)
<1>1. CASE Work
  BY <1>1, WorkRuns DEF Running, NothingOverwritten
<1>2. ASSUME NEW t, has_child_test(t) \/ overwrite(t)
      PROVE  NothingOverwritten /\ UNCHANGED treeVars
  BY <1>2 DEF has_child_test, overwrite, Running, NothingOverwritten
<1>3. ASSUME NEW w, NEW d, readdir_crashes(w, d)
      PROVE  NothingOverwritten /\ UNCHANGED treeVars
  BY <1>3 DEF readdir_crashes, NothingOverwritten
<1>4. CASE UNCHANGED vars
  BY <1>4 DEF vars, NothingOverwritten
<1> QED BY <1>1, <1>2, <1>3, <1>4 DEF Next, stopped

LEMMA TreeNext ==
    ASSUME TreeInv, SanitizedStays, Work \/ UNCHANGED treeVars PROVE TreeInv'
<1>1. CASE Work
  BY <1>1, SomeThreadStep, StepKeepsTree
<1>2. CASE UNCHANGED treeVars
  BY <1>2, TreeStutter
<1> QED BY <1>1, <1>2

LEMMA TreeInvariant ==
    ASSUME SanitizedStays PROVE Spec => [](NothingOverwritten => TreeInv)
<1> DEFINE T == NothingOverwritten => TreeInv
<1>1. Init => T
  BY TreeInit
<1>2. T /\ [Next]_vars => T'
  BY TreeNext, Moves
<1> QED BY <1>1, <1>2, PTL DEF Spec

\* What a thread is about to add, and to which directory.
LEMMA AddingFacts ==
    ASSUME TreeInv, NEW t \in Threads, pc[t] \in AddPlaces
    PROVE  /\ Adding(t) \in Ids /\ Into(t) \in Ids /\ Into(t) < Adding(t)
           /\ entity[Adding(t)].parent = None
           /\ Sanitize(entity[Adding(t)].name) = entity[Adding(t)].name
<1>1. ThreadOK(t) /\ HeldOK(t) /\ Len(entity) \in Nat /\ Len(entity) >= 9
  BY AtThread
<1>2. CASE pc[t] = "browse_add"
  <2>1. pc[t] \in Working /\ Adding(t) = browse[t] /\ Held(t, browse[t])
        /\ Into(t) = BrowseDir[Class[It(t).res]]
    BY <1>2 DEF Working, Adding, Into, Held
  <2>2. browse[t] \in Ids /\ It(t).res \in Resources
    BY <1>1, <1>2, <2>1, ItemAt DEF ThreadOK, Ids, None, ItemOK
  <2>3. Into(t) \in Ids /\ Into(t) < 9
    <3>1. Class[It(t).res] \in {"tracks", "artists", "albums"}
      BY <2>2, TreeAssumption
    <3>2. BrowseDir[Class[It(t).res]] \in {3, 4, 5}
      BY <3>1 DEF BrowseDir
    <3> QED BY <1>1, <2>1, <3>2 DEF Ids
  <2>4. /\ entity[browse[t]].parent = None /\ 9 < browse[t]
        /\ Sanitize(entity[browse[t]].name) = entity[browse[t]].name
    BY <1>1, <2>1, <2>2 DEF HeldOK
  <2> QED BY <2>1, <2>2, <2>3, <2>4 DEF Ids
<1>3. CASE pc[t] = "add"
  <2>1. pc[t] \in Working /\ Adding(t) = entry[t] /\ Held(t, entry[t])
        /\ Into(t) = dir[t]
    BY <1>3 DEF Working, Adding, Into, Held
  <2>2. entry[t] \in Ids /\ dir[t] \in Ids
    BY <1>1, <1>3, <2>1, ItemAt DEF ThreadOK, Ids, None
  <2> QED BY <1>1, <2>1, <2>2 DEF HeldOK, Ids
<1>4. CASE pc[t] = "mkdir_add"
  <2>1. Adding(t) = entry[t] /\ Held(t, entry[t]) /\ Into(t) = 6
    BY <1>4 DEF Adding, Into, Held, Making, SearchDir
  <2>2. entry[t] \in Ids
    BY <1>1, <1>4 DEF ThreadOK, Ids, None, Making
  <2> QED BY <1>1, <2>1, <2>2 DEF HeldOK, Ids
<1> QED BY <1>2, <1>3, <1>4 DEF AddPlaces

\* Element i of a sequence is replaced.
Put(s, i, x) == [s EXCEPT ![i] = x]

LEMMA PutFacts ==
    ASSUME NEW s, Sequence(s), NEW i \in 1 .. Len(s), NEW x
    PROVE  /\ Sequence(Put(s, i, x)) /\ Len(Put(s, i, x)) = Len(s)
           /\ \A k \in 1 .. Len(s) : Put(s, i, x)[k] = IF k = i THEN x ELSE s[k]
<1>1. PICK S : s \in Seq(S)
  BY DEF Sequence
<1>2. s \in Seq(S \cup {x}) /\ x \in S \cup {x}
  BY <1>1, SequenceWiden
<1>3. Put(s, i, x) \in Seq(S \cup {x})
  BY <1>2 DEF Put
<1> QED BY <1>2, <1>3 DEF Sequence, Put

\* Two entities change places; no other one and no thread is touched.
LEMMA OverwriteFacts ==
    ASSUME TreeInv, NEW t \in Threads, overwrite(t)
    PROVE  /\ Len(entity') = Len(entity) /\ TreeOK' /\ UniqueNames'
           /\ \A e \in Ids : entity'[e].kind = entity[e].kind
<1> DEFINE c == Adding(t)
           p == Into(t)
           o == InThePlace(t)
           middle == Parented(t)
           x == [entity[c] EXCEPT !.parent = p]
           y == [entity[o] EXCEPT !.parent = None]
<1>1. /\ TreeOK /\ UniqueNames /\ Len(entity) \in Nat /\ pc[t] \in AddPlaces
  BY AtThread DEF overwrite
<1>2. c \in Ids /\ p \in Ids /\ p < c /\ entity[c].parent = None /\ p # None
  BY <1>1, AddingFacts DEF Ids, None
<1>3. o \in Ids /\ entity[o].parent = p /\ entity[o].name = entity[c].name
  <2> DEFINE found == {e \in Ids : entity[e].parent = p
                                   /\ entity[e].name = entity[c].name}
  <2>1. o = IF found = {} THEN None ELSE CHOOSE e \in found : TRUE
    BY DEF InThePlace, Child
  <2>2. o # None
    BY DEF overwrite
  <2>3. o \in found
    BY <2>1, <2>2
  <2> QED BY <2>3
<1>4. c # o
  BY <1>2, <1>3
<1>5. /\ DOMAIN x = EntityFields /\ x.parent = p
      /\ x.name = entity[c].name /\ x.kind = entity[c].kind
      /\ x.ops = entity[c].ops /\ x.res = entity[c].res
  BY <1>1, <1>2 DEF TreeOK, EntityOK, EntityFields
<1>6. /\ DOMAIN y = EntityFields /\ y.parent = None
      /\ y.name = entity[o].name /\ y.kind = entity[o].kind
      /\ y.ops = entity[o].ops /\ y.res = entity[o].res
  BY <1>1, <1>3 DEF TreeOK, EntityOK, EntityFields
<1>7. middle = Put(entity, c, x)
  BY DEF Parented, Put
<1>8. entity' = [middle EXCEPT ![o] = [middle[o] EXCEPT !.parent = None]]
  BY DEF overwrite
<1> HIDE DEF c, p, o, middle
<1>9. /\ Sequence(middle) /\ Len(middle) = Len(entity)
      /\ \A e \in Ids : middle[e] = IF e = c THEN x ELSE entity[e]
  <2>1. Sequence(entity) /\ c \in 1 .. Len(entity)
    BY <1>1, <1>2 DEF TreeOK, Ids
  <2> HIDE DEF x
  <2> QED BY <1>7, <2>1, PutFacts DEF Ids
<1>10. entity' = Put(middle, o, y)
  BY <1>3, <1>4, <1>8, <1>9 DEF Put
<1> HIDE DEF x, y
<1>11. /\ Sequence(entity') /\ Len(entity') = Len(entity)
       /\ \A e \in Ids : entity'[e] = IF e = o THEN y ELSE middle[e]
  <2>1. Sequence(middle) /\ o \in 1 .. Len(middle)
    BY <1>3, <1>9 DEF Ids
  <2>2. /\ Sequence(entity') /\ Len(entity') = Len(middle)
        /\ \A e \in 1 .. Len(middle) : entity'[e] = IF e = o THEN y ELSE middle[e]
    BY <1>10, <2>1, PutFacts
  <2> QED BY <1>9, <2>2 DEF Ids
<1>12. /\ entity'[c] = x /\ entity'[o] = y /\ Ids' = Ids
       /\ \A e \in Ids : e \notin {c, o} => entity'[e] = entity[e]
  BY <1>2, <1>3, <1>4, <1>9, <1>11 DEF Ids
<1>13. \A e \in Ids : /\ entity'[e].kind = entity[e].kind
                      /\ entity'[e].name = entity[e].name
                      /\ entity'[e].parent = IF e = c THEN p
                                             ELSE IF e = o THEN None
                                             ELSE entity[e].parent
  BY <1>4, <1>5, <1>6, <1>12
<1>14. ASSUME NEW e \in Ids' PROVE EntityOK(e)'
  <2>1. e \in Ids /\ EntityOK(e) /\ e \in Nat /\ e > 0
    BY <1>1, <1>12 DEF TreeOK, Ids
  <2>2. CASE e = c
    BY <1>2, <1>5, <1>12, <2>1, <2>2 DEF EntityOK, Ids
  <2>3. CASE e = o
    BY <1>6, <1>12, <2>1, <2>3 DEF EntityOK, None
  <2>4. CASE e \notin {c, o}
    BY <1>12, <2>1, <2>4 DEF EntityOK
  <2> QED BY <2>2, <2>3, <2>4
<1>15. TreeOK'
  BY <1>1, <1>11, <1>14 DEF TreeOK
<1>16. UniqueNames'
  BY <1>1, <1>2, <1>3, <1>12, <1>13 DEF UniqueNames, None
<1> QED BY <1>11, <1>13, <1>15, <1>16

FlagsOK ==
    cleared \subseteq Threads /\ process \in {"running", "overwrote", "crashed"}

\* What of the type invariant a tree that is overwritten keeps, too.
Typed == TypeOK /\ TreeOK /\ UniqueNames

LEMMA TreeTyped ==
    ASSUME TreeInv, FlagsOK PROVE Typed
<1>1. TreeOK /\ UniqueNames /\ Len(entity) \in Nat
  BY SequenceBasics DEF TreeInv, TreeOK
<1>2. ASSUME NEW e \in Ids
      PROVE  /\ entity[e].kind \in {"dir", "file", "link"}
             /\ entity[e].parent \in 0 .. Len(entity)
  BY <1>1 DEF TreeOK, EntityOK, Ids
<1>3. ASSUME NEW t \in Threads
      PROVE  /\ {dir[t], entry[t], browse[t]} \subseteq 0 .. Len(entity)
             /\ at[t] \in 0 .. Len(items[t]) + 1
             /\ pc[t] \in {"add", "target"} => entry[t] # None
             /\ pc[t] = "browse_add" => browse[t] # None
             /\ pc[t] = "target" => browse[t] # None \/ It(t).res \in Faulty
  BY DEF TreeInv, ThreadOK, HasAim
<1>4. /\ pc \in [Threads -> {"idle", "browse", "browse_add", "test", "add",
                             "target", "reply", "mkdir_search", "mkdir_add"}]
      /\ pc["session"] \notin {"mkdir_search", "mkdir_add"}
      /\ issued \subseteq Ids
  BY DEF TreeInv, LocalsOK, Places, ThreadOK, Threads, Making, IssuedOK
<1> QED BY <1>1, <1>2, <1>3, <1>4 DEF TypeOK, FlagsOK, Typed

LEMMA FlagsNext ==
    ASSUME FlagsOK, [Next]_vars PROVE FlagsOK'
<1>1. CASE Work
  BY <1>1, WorkRuns DEF Running, FlagsOK
<1>2. ASSUME NEW t \in Threads, has_child_test(t) \/ overwrite(t) PROVE FlagsOK'
  BY <1>2 DEF has_child_test, overwrite, Running, FlagsOK
<1>3. ASSUME NEW w, NEW d, readdir_crashes(w, d) PROVE FlagsOK'
  BY <1>3 DEF readdir_crashes, FlagsOK
<1>4. CASE UNCHANGED vars
  BY <1>4 DEF vars, FlagsOK
<1> QED BY <1>1, <1>2, <1>3, <1>4 DEF Next, stopped

\* ... because only parents change when an entry is overwritten.
LEMMA OverwriteTyped ==
    ASSUME TreeInv, FlagsOK, NEW t \in Threads, overwrite(t), FlagsOK'
    PROVE  Typed'
<1>1. TypeOK
  BY TreeTyped DEF Typed
<1>2. /\ Len(entity') = Len(entity) /\ TreeOK' /\ UniqueNames' /\ Ids' = Ids
      /\ \A e \in Ids : entity'[e].kind = entity[e].kind
  BY OverwriteFacts DEF Ids
<1>3. Len(entity') \in Nat
  BY <1>2, SequenceBasics DEF TreeOK
<1>4. \A e \in Ids' : /\ entity'[e].kind \in {"dir", "file", "link"}
                      /\ entity'[e].parent \in 0 .. Len(entity')
  BY <1>2, <1>3 DEF TreeOK, EntityOK, Ids
<1>5. /\ pc' = pc /\ dir' = dir /\ items' = items /\ at' = at
      /\ entry' = entry /\ browse' = browse /\ issued' = issued
  BY DEF overwrite, localVars
<1>6. \A u \in Threads : It(u)' = It(u)
  BY <1>5 DEF It
<1>7. TypeOK'
  BY <1>1, <1>2, <1>4, <1>5, <1>6 DEF TypeOK, FlagsOK, None
<1> QED BY <1>2, <1>7 DEF Typed

LEMMA TypedNext ==
    ASSUME NothingOverwritten => TreeInv, FlagsOK, Typed, SanitizedStays,
           [Next]_vars, FlagsOK'
    PROVE  Typed'
<1>1. CASE NothingOverwritten'
  <2>1. NothingOverwritten /\ (Work \/ UNCHANGED treeVars)
    BY <1>1, Moves
  <2>2. TreeInv'
    BY <2>1, TreeNext
  <2>3. TreeInv /\ FlagsOK => Typed
    BY TreeTyped
  <2> QED BY <2>2, <2>3, TreeTyped, PTL
<1>2. ASSUME NEW t \in Threads, overwrite(t) PROVE Typed'
  <2>1. NothingOverwritten
    BY <1>2 DEF overwrite, NothingOverwritten
  <2> QED BY <1>2, <2>1, OverwriteTyped
<1>3. CASE UNCHANGED vars
  BY <1>3 DEF vars, treeVars, localVars, Typed, TypeOK, TreeOK, UniqueNames,
     EntityOK, Sequence, Ids, It, None
<1>4. CASE Next /\ ~ NothingOverwritten'
  <2>1. Work => NothingOverwritten'
    BY WorkRuns DEF Running, NothingOverwritten
  <2>2. \A t : has_child_test(t) => NothingOverwritten'
    BY DEF has_child_test, Running, NothingOverwritten
  <2>3. \A w, d : readdir_crashes(w, d) => NothingOverwritten'
    BY DEF readdir_crashes, NothingOverwritten
  <2> QED BY <1>2, <1>3, <1>4, <2>1, <2>2, <2>3 DEF Next, stopped
<1> QED BY <1>1, <1>3, <1>4

LEMMA TypedInvariant ==
    ASSUME SanitizedStays PROVE Spec => []Typed
<1> DEFINE T == NothingOverwritten => TreeInv
<1>1. Init => FlagsOK
  BY DEF Init, FlagsOK
<1>2. Init => Typed
  BY <1>1, TreeInit, TreeTyped
<1>3. FlagsOK /\ [Next]_vars => FlagsOK'
  BY FlagsNext
<1>4. T /\ FlagsOK /\ Typed /\ [Next]_vars /\ FlagsOK' => Typed'
  BY TypedNext
<1> QED BY <1>1, <1>2, <1>3, <1>4, TreeInvariant, PTL DEF Spec

\* The links of a list are made with their target known, unless libspotify
\* has no link string, and what a thread is about to add or to point somewhere
\* exists, in whatever order the threads take their steps.
THEOREM TypeCorrect ==
    ASSUME SanitizedStays PROVE Spec => []TypeOK
<1>1. Typed => TypeOK
  BY DEF Typed
<1> QED BY <1>1, TypedInvariant, PTL

\* No directory ever has two entries of one name, and an entity is younger
\* than its directory: the way up from any entity ends, also when an entry
\* has just been overwritten.
THEOREM TreeIsOrdered ==
    ASSUME SanitizedStays PROVE Spec => [](TreeOK /\ UniqueNames)
<1>1. Typed => TreeOK /\ UniqueNames
  BY DEF Typed
<1> QED BY <1>1, TypedInvariant, PTL

-----------------------------------------------------------------------------
(* One thread.                                                             *)

\* FUSE takes one request at a time, and nothing is searched for.
OneThread == Queries = {} /\ \A v, w \in Workers : v = w

\* The name that a thread has found free is still free.
StillFree ==
    /\ issued = {} /\ pc["session"] = "idle"
    /\ \A t \in Threads : pc[t] \notin Making
    /\ \A t \in cleared : pc[t] \in AddPlaces /\ InThePlace(t) = None

\* There is only the thread that adds, so nobody takes the name.
LEMMA FreeWork ==
    ASSUME OneThread, TreeInv, SanitizedStays, cleared \subseteq Threads, StillFree, Work
    PROVE  StillFree'
<1>1. pc \in [Threads -> Places] /\ "session" \notin cleared
  BY DEF TreeInv, LocalsOK, StillFree, AddPlaces
<1>2. ASSUME NEW w \in Threads, ThreadStep(w), w # "session", issued' = {},
             pc'[w] \notin Making, cleared' \subseteq cleared, w \notin cleared'
      PROVE  StillFree'
  <2>1. \A u \in Threads : u # w => u = "session" /\ pc'[u] = pc[u]
    BY <1>2 DEF OneThread, Threads, ThreadStep, OthersKept
  <2>2. cleared' = {}
    BY <1>1, <1>2, <2>1
  <2>3. pc'["session"] = "idle"
    BY <1>2, <2>1 DEF StillFree, Threads
  <2> QED BY <1>2, <2>1, <2>2, <2>3 DEF StillFree, Making
<1>3. \A w \in Workers : w \in Threads /\ w # "session"
  BY TreeAssumption DEF Threads
<1>4. ASSUME NEW w \in Workers, NEW d \in Ids, spfs_readdir(w, d) PROVE StillFree'
  <2>1. pc[w] = "idle" /\ cleared' = cleared /\ issued' = issued
    BY <1>4 DEF spfs_readdir
  <2>2. PICK list : Fill(w, d, list)
    BY <1>4 DEF spfs_readdir
  <2>3. pc'[w] \in {"reply", "browse", "test"}
    BY <1>1, <1>3, <2>2 DEF Fill, Proceed, Goto
  <2>4. w \notin cleared
    BY <2>1 DEF StillFree, AddPlaces
  <2> QED BY <1>2, <1>3, <1>4, <2>1, <2>3, <2>4, ReaddirStep DEF StillFree, Making
<1>5. ASSUME NEW t \in Threads, ItemStep(t) PROVE StillFree'
  <2>1. ThreadStep(t)
    BY <1>5, ItemStepKeeps
  <2>2. t # "session" /\ issued' = issued
    <3>1. pc[t] # "idle"
      BY <1>5 DEF ItemStep, browse_dir_known, browse_dir_create, browse_dir_add,
         browse_dir_fails, entry_known, entry_create, entry_add_link, entry_add,
         spfs_entity_link_set_target, reply
    <3>2. issued' = issued
      BY <1>5 DEF ItemStep, browse_dir_known, browse_dir_create, browse_dir_add,
         browse_dir_fails, entry_known, entry_create, entry_add_link, entry_add,
         spfs_entity_link_set_target, reply, NextItem
    <3> QED BY <3>1, <3>2 DEF StillFree
  <2>3. pc'[t] \notin Making
    <3>1. PICK l : Goto(t, l) /\ l \notin Making
      BY <1>5, AfterBrowseFacts DEF ItemStep, browse_dir_known, browse_dir_create,
         browse_dir_add, browse_dir_fails, entry_known, entry_create,
         entry_add_link, entry_add, spfs_entity_link_set_target, reply,
         NextItem, Proceed, Making
    <3> QED BY <1>1, <3>1 DEF Goto
  <2>4. cleared' \subseteq cleared /\ t \notin cleared'
    <3>1. CASE browse_dir_add(t) \/ entry_add_link(t) \/ entry_add(t)
      BY <3>1 DEF browse_dir_add, entry_add_link, entry_add,
         spfs_entity_dir_add_child
    <3>2. CASE \/ browse_dir_known(t) \/ browse_dir_create(t)
               \/ browse_dir_fails(t) \/ entry_known(t) \/ entry_create(t)
               \/ spfs_entity_link_set_target(t) \/ reply(t)
      BY <3>2 DEF browse_dir_known, browse_dir_create, browse_dir_fails,
         entry_known, entry_create, spfs_entity_link_set_target, reply,
         StillFree, AddPlaces
    <3> QED BY <1>5, <3>1, <3>2 DEF ItemStep
  <2> QED BY <1>2, <2>1, <2>2, <2>3, <2>4 DEF StillFree
<1>6. ASSUME NEW w \in Workers, search_dir_search(w) \/ search_dir_add(w)
      PROVE  FALSE
  BY <1>3, <1>6 DEF search_dir_search, search_dir_add, StillFree, Making
<1> QED BY <1>4, <1>5, <1>6 DEF Work, OneThread, StillFree

LEMMA FreeTest ==
    ASSUME TreeInv, FlagsOK, StillFree, NEW t \in Threads, has_child_test(t)
    PROVE  StillFree'
<1>1. /\ pc[t] \in AddPlaces /\ ~ Refused(t) /\ cleared' = cleared \cup {t}
      /\ UNCHANGED treeVars
  BY DEF has_child_test
<1>2. InThePlace(t) = None
  BY <1>1, AddingFacts
  DEF Refused, spfs_entity_dir_get_child, InThePlace
<1>3. \A u : InThePlace(u)' = InThePlace(u)
  BY <1>1 DEF treeVars, localVars, InThePlace, Child, Ids, Into, Adding, It, None
<1>4. pc' = pc /\ issued' = issued
  BY <1>1 DEF treeVars
<1> QED BY <1>1, <1>2, <1>3, <1>4 DEF StillFree, None

\* With one thread an entry that is in a directory stays the one found there:
\* the name is still free when spfs_entity_dir_add_child inserts, so nothing
\* is overwritten, and nothing else changes a parent.
THEOREM EntriesStay ==
    ASSUME SanitizedStays, OneThread PROVE Spec => EntriesAreForEver
<1> DEFINE J == NothingOverwritten /\ TreeInv /\ FlagsOK /\ StillFree
           A == \A d, e \in Ids : entity[e].parent = d =>
                    Child(d, entity[e].name)' = Child(d, entity[e].name)
<1>1. Init => J
  BY TreeInit DEF Init, NothingOverwritten, FlagsOK, StillFree, Making, Threads
<1>2. ASSUME J, [Next]_vars PROVE NothingOverwritten' /\ StillFree'
  <2>1. CASE Work
    BY <1>2, <2>1, WorkRuns, FreeWork
    DEF Running, NothingOverwritten, FlagsOK
  <2>2. ASSUME NEW t \in Threads, has_child_test(t)
        PROVE  NothingOverwritten' /\ StillFree'
    BY <1>2, <2>2, FreeTest DEF has_child_test, Running, NothingOverwritten
  <2>3. ASSUME NEW t \in Threads, overwrite(t) PROVE FALSE
    BY <1>2, <2>3 DEF overwrite, StillFree
  <2>4. ASSUME NEW w, NEW d, readdir_crashes(w, d)
        PROVE  NothingOverwritten' /\ UNCHANGED <<treeVars, cleared>>
    BY <2>4 DEF readdir_crashes, NothingOverwritten
  <2>5. UNCHANGED vars => NothingOverwritten' /\ UNCHANGED <<treeVars, cleared>>
    BY <1>2 DEF vars, NothingOverwritten
  <2>6. ASSUME UNCHANGED <<treeVars, cleared>> PROVE StillFree'
    <3>1. \A u : InThePlace(u)' = InThePlace(u)
      <4>1. /\ entity' = entity /\ pc' = pc /\ dir' = dir /\ items' = items
            /\ at' = at /\ entry' = entry /\ browse' = browse
        BY <2>6 DEF treeVars, localVars
      <4> QED BY <4>1 DEF InThePlace, Child, Ids, Into, Adding, It, None
    <3>2. pc' = pc /\ issued' = issued /\ cleared' = cleared
      BY <2>6 DEF treeVars
    <3> QED BY <1>2, <3>1, <3>2 DEF StillFree, None
  <2> QED BY <1>2, <2>1, <2>2, <2>3, <2>4, <2>5, <2>6 DEF Next, stopped
<1>3. J /\ [Next]_vars => J'
  BY <1>2, Moves, TreeNext, FlagsNext
<1>4. J /\ [Next]_vars => [A]_vars
  <2> SUFFICES ASSUME J, Next PROVE A
    OBVIOUS
  <2>1. Work \/ UNCHANGED treeVars
    BY <1>2, Moves
  <2>2. CASE Work
    <3>1. PICK t \in Threads : ThreadStep(t)
      BY <2>2, SomeThreadStep
    <3>2. EntriesKept
      BY <3>1, EntriesAfter DEF TreeInv, ThreadStep
    <3> QED BY <3>2 DEF EntriesKept
  <2>3. CASE UNCHANGED treeVars
    BY <2>3 DEF treeVars, Child, Ids, None
  <2> QED BY <2>1, <2>2, <2>3
<1> QED BY <1>1, <1>3, <1>4, PTL DEF Spec, EntriesAreForEver

-----------------------------------------------------------------------------
(* Entries are in directories: whoever fills one, fills a directory.       *)

ParentsAreDirs ==
    \A e \in Ids : entity[e].parent # None => entity[entity[e].parent].kind = "dir"

DirsInv ==
    /\ ParentsAreDirs
    /\ \A e \in 1 .. 9 : entity[e].kind = "dir"
    /\ \A t \in Threads : /\ dir[t] # None => entity[dir[t]].kind = "dir"
                          /\ pc[t] \in Making => entity[entry[t]].kind = "dir"
    /\ \A d \in issued : entity[d].kind = "dir"

\* What a step does to them: it takes up directories only.
EntersDirs ==
    \A e \in Ids' : entity'[e].parent # None =>
        \/ e \in Ids /\ entity'[e].parent = entity[e].parent
        \/ entity'[entity'[e].parent].kind = "dir"

TakesDirs(t) ==
    /\ dir'[t] \in {None, dir[t]} \/ (dir'[t] \in Ids /\ entity[dir'[t]].kind = "dir")
    /\ pc'[t] \in Making =>
          \/ pc[t] \in Making /\ entry'[t] = entry[t]
          \/ entity'[entry'[t]].kind = "dir"
    /\ \A d \in issued' : d \in issued \/ (d \in Ids /\ entity[d].kind = "dir")

LEMMA DirsKept ==
    ASSUME TreeInv, DirsInv, NEW t \in Threads, ThreadStep(t),
           EntersDirs, TakesDirs(t)
    PROVE  DirsInv'
<1>1. TreeOK /\ UniqueNames /\ TreeStep /\ LocalsOK /\ OthersKept(t)
  BY DEF TreeInv, ThreadStep
<1>2. \A e \in Ids : entity'[e].kind = entity[e].kind
  BY <1>1, TreeAfter DEF TreeKeeps
<1>3. /\ Len(entity) \in Nat /\ Len(entity) >= 9 /\ Len(entity') \in Nat
      /\ Len(entity) <= Len(entity') /\ \A e \in Ids : e \in Ids'
  BY <1>1, IdsGrow DEF TreeOK
<1>4. ParentsAreDirs'
  <2> SUFFICES ASSUME NEW e \in Ids', entity'[e].parent # None
               PROVE  entity'[entity'[e].parent].kind = "dir"
    BY DEF ParentsAreDirs, None
  <2>1. ASSUME e \in Ids, entity'[e].parent = entity[e].parent
        PROVE  entity'[entity'[e].parent].kind = "dir"
    <3>1. entity[e].parent \in Ids
      BY <1>1, <1>3, <2>1 DEF TreeOK, EntityOK, Ids, None
    <3>2. entity[entity[e].parent].kind = "dir"
      BY <2>1 DEF DirsInv, ParentsAreDirs
    <3> QED BY <1>2, <2>1, <3>1, <3>2
  <2> QED BY <2>1 DEF EntersDirs
<1>5. \A e \in 1 .. 9 : entity'[e].kind = "dir"
  <2>1. \A e \in 1 .. 9 : e \in Ids
    BY <1>3 DEF Ids
  <2>2. \A e \in 1 .. 9 : entity[e].kind = "dir"
    BY DEF DirsInv
  <2> QED BY <1>2, <2>1, <2>2, Zenon
<1>6. ASSUME NEW u \in Threads, dir'[u] # None
      PROVE  entity'[dir'[u]].kind = "dir"
  <2>1. CASE dir'[u] = dir[u]
    <3>1. dir[u] \in Ids
      BY <1>3, <1>6, <2>1 DEF TreeInv, ThreadOK, Ids, None
    <3> QED BY <1>2, <1>6, <2>1, <3>1 DEF DirsInv
  <2>2. CASE dir'[u] # dir[u]
    <3>1. u = t
      BY <1>1, <2>2 DEF OthersKept
    <3> QED BY <1>2, <1>6, <2>2, <3>1 DEF TakesDirs
  <2> QED BY <2>1, <2>2
<1>7. ASSUME NEW u \in Threads, pc'[u] \in Making
      PROVE  entity'[entry'[u]].kind = "dir"
  <2>1. CASE pc[u] \in Making /\ entry'[u] = entry[u]
    <3>1. entry[u] \in Ids
      BY <1>3, <2>1 DEF TreeInv, ThreadOK, Ids, None
    <3> QED BY <1>2, <2>1, <3>1 DEF DirsInv
  <2>2. CASE ~ (pc[u] \in Making /\ entry'[u] = entry[u])
    <3>1. u = t
      BY <1>1, <1>7, <2>2 DEF OthersKept
    <3> QED BY <1>7, <2>2, <3>1 DEF TakesDirs
  <2> QED BY <2>1, <2>2
<1>8. \A d \in issued' : entity'[d].kind = "dir"
  BY <1>2 DEF TreeInv, IssuedOK, DirsInv, TakesDirs
<1> QED BY <1>4, <1>5, <1>6, <1>7, <1>8 DEF DirsInv, None

\* The tree stays as it is, but for targets, or grows.
LEMMA EntersNone ==
    ASSUME TreeInv,
           \/ entity' = entity
           \/ Grows
           \/ \E c : Retargets(c)
    PROVE  EntersDirs
<1>1. TreeOK
  BY DEF TreeInv
<1>2. CASE entity' = entity
  BY <1>2 DEF EntersDirs, Ids
<1>3. CASE Grows
  <2>1. \A e \in Ids : entity'[e] = entity[e]
    BY <1>3 DEF Grows
  <2>2. \A e \in Ids' \ Ids : entity'[e].parent # None =>
                                  entity'[entity'[e].parent].kind = "dir"
    BY <1>3 DEF Grows
  <2> QED BY <2>1, <2>2 DEF EntersDirs
<1>4. ASSUME NEW c, Retargets(c) PROVE EntersDirs
  <2>1. c \in Ids /\ Len(entity') = Len(entity)
        /\ \A e \in Ids : entity'[e].parent = entity[e].parent
    BY <1>1, <1>4, RetargetsFacts DEF Retargets
  <2> QED BY <2>1 DEF EntersDirs, Ids
<1> QED BY <1>2, <1>3, <1>4

\* What spfs_entity_dir_add_child adds is added to the directory it is given.
LEMMA EntersOne ==
    ASSUME TreeInv, NEW p \in Ids, NEW c \in Ids, entity[p].kind = "dir",
           NEW t, TreeStep, Adds(t, p, c)
    PROVE  EntersDirs
<1>1. TreeOK /\ UniqueNames
  BY DEF TreeInv
<1>2. entity'[p].kind = "dir"
  BY <1>1, TreeAfter DEF TreeKeeps
<1>3. CASE entity' = entity
  BY <1>3, EntersNone
<1>4. CASE entity' = [entity EXCEPT ![c].parent = p]
  <2> DEFINE x == [entity[c] EXCEPT !.parent = p]
  <2>1. entity' = [entity EXCEPT ![c] = x]
    BY <1>4
  <2>2. x.parent = p
    BY <1>1 DEF TreeOK, EntityOK, EntityFields
  <2> HIDE DEF x
  <2>3. /\ Len(entity') = Len(entity)
        /\ \A e \in Ids : entity'[e] = IF e = c THEN x ELSE entity[e]
    BY <1>1, <2>1, EntityExcept DEF TreeOK
  <2>4. Ids' = Ids
    BY <2>3 DEF Ids
  <2> QED BY <1>2, <2>2, <2>3, <2>4 DEF EntersDirs
<1> QED BY <1>3, <1>4
        DEF Adds, spfs_entity_dir_add_child, add_refused, Parented

\* The place of a thread after its step.
LEMMA Going ==
    ASSUME TreeInv, NEW t \in Threads, NEW l, Goto(t, l) PROVE pc'[t] = l
BY DEF TreeInv, LocalsOK, Goto

\* Steps that keep to the directory the thread is at.
LEMMA SameDirs ==
    ASSUME TreeInv, NEW t \in Threads, dir' = dir, issued' = issued,
           NEW l, Goto(t, l), l \notin Making
    PROVE  TakesDirs(t)
BY Going DEF TakesDirs

LEMMA ProceedsPlainly ==
    ASSUME TreeInv, NEW t \in Threads, NEW list, NEW k, Proceed(t, list, k)
    PROVE  pc'[t] \notin Making
<1>1. PICK l : Goto(t, l) /\ l \in {"reply", "browse", "test"}
  BY DEF Proceed
<1> QED BY <1>1, Going DEF Making

LEMMA NextItemDirs ==
    ASSUME TreeInv, NEW t \in Threads, NextItem(t)
    PROVE  TakesDirs(t)
BY ProceedsPlainly DEF NextItem, TakesDirs

LEMMA FillDirs ==
    ASSUME TreeInv, NEW t \in Threads, NEW d \in Ids, NEW list,
           Fill(t, d, list), entity[d].kind = "dir",
           \A x \in issued' : x \in issued
    PROVE  TakesDirs(t)
<1>1. dir'[t] = d /\ pc'[t] \notin Making
  BY ProceedsPlainly DEF Fill, TreeInv, LocalsOK
<1> QED BY <1>1 DEF TakesDirs

\* The three that add an entity, and those that create one.
LEMMA BrowseAddDirs ==
    ASSUME TreeInv, DirsInv, NEW t \in Threads, browse_dir_add(t), TreeStep
    PROVE  EntersDirs
<1> DEFINE p == BrowseDir[Class[It(t).res]]
           c == browse[t]
<1>1. /\ pc[t] = "browse_add" /\ Adds(t, p, c)
      /\ pc[t] \in Working
  BY DEF browse_dir_add, Working, Adds, Into, Adding
<1>2. Len(entity) \in Nat /\ Len(entity) >= 9 /\ ThreadOK(t)
  BY AtThread
<1>3. It(t).kind \in LinkKinds /\ c \in Ids
  BY <1>1, <1>2 DEF ThreadOK, Ids, None
<1>4. It(t).res \in Resources
  BY <1>1, <1>3, ItemAt DEF ItemOK
<1>5. p \in 1 .. 9
  <2>1. Class[It(t).res] \in {"tracks", "artists", "albums"}
    BY <1>4, TreeAssumption
  <2> QED BY <2>1 DEF BrowseDir
<1>6. p \in Ids /\ entity[p].kind = "dir"
  <2> HIDE DEF p
  <2>1. p \in Ids
    BY <1>2, <1>5 DEF Ids
  <2>2. entity[p].kind = "dir"
    BY <1>5 DEF DirsInv
  <2> QED BY <2>1, <2>2
<1> HIDE DEF p, c
<1> QED BY <1>1, <1>3, <1>6, EntersOne

LEMMA EntryAddDirs ==
    ASSUME TreeInv, DirsInv, NEW t \in Threads,
           entry_add_link(t) \/ entry_add(t), TreeStep
    PROVE  EntersDirs
<1>1. /\ pc[t] = "add" /\ Adds(t, dir[t], entry[t])
      /\ pc[t] \in Working
  BY DEF entry_add_link, entry_add, Working, Adds, Into, Adding
<1>2. Len(entity) \in Nat /\ ThreadOK(t)
  BY AtThread
<1>3. entry[t] \in Ids
  BY <1>1, <1>2 DEF ThreadOK, Ids, None
<1>4. dir[t] \in Ids /\ dir[t] # None
  BY <1>1, <1>2, ItemAt DEF ThreadOK
<1>5. entity[dir[t]].kind = "dir"
  BY <1>4 DEF DirsInv
<1> QED BY <1>1, <1>3, <1>4, <1>5, EntersOne

LEMMA SearchAddDirs ==
    ASSUME TreeInv, DirsInv, NEW w \in Threads, search_dir_add(w), TreeStep
    PROVE  EntersDirs /\ TakesDirs(w)
<1>1. /\ pc[w] = "mkdir_add" /\ Adds(w, SearchDir, entry[w])
      /\ Goto(w, "idle") /\ dir' = dir /\ issued' = issued
  BY DEF search_dir_add, Adds, Into, Adding
<1>2. Len(entity) \in Nat /\ Len(entity) >= 9 /\ ThreadOK(w)
  BY AtThread
<1>3. entry[w] \in Ids
  BY <1>1, <1>2 DEF ThreadOK, Making, Ids, None
<1>4. SearchDir \in Ids /\ entity[SearchDir].kind = "dir"
  BY <1>2 DEF SearchDir, Ids, DirsInv
<1>5. EntersDirs
  BY <1>1, <1>3, <1>4, EntersOne
<1>6. TakesDirs(w)
  BY <1>1, SameDirs DEF Making
<1> QED BY <1>5, <1>6

LEMMA BrowseCreateDirs ==
    ASSUME TreeInv, NEW t \in Threads, browse_dir_create(t)
    PROVE  EntersDirs
<1> DEFINE r == It(t).res
           id == Len(entity) + 1
           new == NewBrowseDir(r, id)
<1>1. pc[t] = "browse" /\ entity' = entity \o new /\ pc[t] \in Working
  BY DEF browse_dir_create, Working
<1>2. It(t).kind \in LinkKinds /\ TreeOK
  BY <1>1, AtThread DEF ThreadOK
<1>3. r \in Resources
  BY <1>1, <1>2, ItemAt DEF ItemOK
<1> HIDE DEF r
<1>4. BrowseEntities(new, r, id)
  BY <1>3, NewBrowseDirFacts
<1> HIDE DEF new
<1>5. Grows
  BY <1>1, <1>2, <1>3, <1>4, GrowBrowse
<1> QED BY <1>5, EntersNone

LEMMA EntryCreateDirs ==
    ASSUME TreeInv, SanitizedStays, NEW t \in Threads, entry_create(t)
    PROVE  EntersDirs
<1> DEFINE x == NewEntry(It(t))
<1>1. pc[t] \in Working /\ entity' = Append(entity, x)
  BY DEF entry_create, Working
<1>2. TreeOK /\ NewOK(x)
  BY <1>1, ItemAt, NewEntryFacts DEF TreeInv
<1> HIDE DEF x
<1>3. Grows
  BY <1>1, <1>2, GrowOne
<1> QED BY <1>3, EntersNone

LEMMA SearchCreateDirs ==
    ASSUME TreeInv, NEW w \in Threads, NEW q \in Queries, search_dir_create(w, q)
    PROVE  EntersDirs /\ TakesDirs(w)
<1> DEFINE x == Dir(Sanitize(q), None, "results", q)
           id == Len(entity) + 1
<1>1. /\ entity' = Append(entity, x) /\ entry' = [entry EXCEPT ![w] = id]
      /\ dir' = dir /\ issued' = issued
  BY DEF search_dir_create
<1>2. TreeOK /\ NewOK(x) /\ x.kind = "dir"
  BY NewDirOK DEF TreeInv, NewNamed, Dir
<1> HIDE DEF x
<1>3. Grows /\ entity'[id] = x
  BY <1>1, <1>2, GrowOne
<1>4. EntersDirs
  BY <1>3, EntersNone
<1>5. entry'[w] = id
  BY <1>1 DEF TreeInv, LocalsOK
<1>6. TakesDirs(w)
  BY <1>1, <1>2, <1>3, <1>5 DEF TakesDirs
<1> QED BY <1>4, <1>6

LEMMA SearchIssueDirs ==
    ASSUME TreeInv, DirsInv, NEW w \in Threads, search_dir_search(w)
    PROVE  EntersDirs /\ TakesDirs(w)
<1>1. /\ pc[w] = "mkdir_search" /\ entity' = entity
      /\ issued' = issued \cup {entry[w]} /\ dir' = dir /\ entry' = entry
  BY DEF search_dir_search, localVars
<1>2. pc[w] \in Making /\ Len(entity) \in Nat /\ ThreadOK(w)
  BY <1>1, AtThread DEF Making
<1>3. entry[w] \in Ids /\ entity[entry[w]].kind = "dir"
  BY <1>2 DEF ThreadOK, Ids, None, DirsInv
<1>4. TakesDirs(w)
  BY <1>1, <1>2, <1>3 DEF TakesDirs
<1> QED BY <1>1, <1>4, EntersNone

\* Every step of a thread at its items.
LEMMA ItemStepDirs ==
    ASSUME TreeInv, DirsInv, SanitizedStays, NEW t \in Threads, ItemStep(t)
    PROVE  EntersDirs /\ TakesDirs(t)
<1>1. TreeStep
  BY ItemStepKeeps DEF ThreadStep
<1>2. AfterBrowse(t) \notin Making
  BY DEF AfterBrowse, Making
<1>3. CASE browse_dir_known(t) \/ browse_dir_fails(t)
  <2>1. /\ entity' = entity /\ dir' = dir /\ issued' = issued
        /\ Goto(t, AfterBrowse(t))
    BY <1>3 DEF browse_dir_known, browse_dir_fails
  <2> QED BY <1>2, <2>1, EntersNone, SameDirs
<1>4. CASE browse_dir_create(t)
  <2>1. dir' = dir /\ issued' = issued /\ Goto(t, "browse_add")
    BY <1>4 DEF browse_dir_create
  <2>2. "browse_add" \notin Making
    BY DEF Making
  <2> QED BY <1>4, <2>1, <2>2, BrowseCreateDirs, SameDirs
<1>5. CASE browse_dir_add(t)
  <2>1. dir' = dir /\ issued' = issued /\ Goto(t, AfterBrowse(t))
    BY <1>5 DEF browse_dir_add, localVars
  <2> QED BY <1>1, <1>2, <1>5, <2>1, BrowseAddDirs, SameDirs
<1>6. CASE entry_known(t)
  <2>1. entity' = entity /\ NextItem(t)
    BY <1>6 DEF entry_known
  <2> QED BY <2>1, EntersNone, NextItemDirs
<1>7. CASE entry_create(t)
  <2>1. PICK l : Goto(t, l) /\ l \in {"browse", "add"}
    BY <1>7 DEF entry_create
  <2>2. dir' = dir /\ issued' = issued /\ l \notin Making
    BY <1>7, <2>1 DEF entry_create, Making
  <2> QED BY <1>7, <2>1, <2>2, EntryCreateDirs, SameDirs
<1>8. CASE entry_add_link(t)
  <2>1. dir' = dir /\ issued' = issued /\ Goto(t, "target")
    BY <1>8 DEF entry_add_link, localVars
  <2>2. "target" \notin Making
    BY DEF Making
  <2> QED BY <1>1, <1>8, <2>1, <2>2, EntryAddDirs, SameDirs
<1>9. CASE entry_add(t)
  <2>1. NextItem(t)
    BY <1>9 DEF entry_add
  <2> QED BY <1>1, <1>9, <2>1, EntryAddDirs, NextItemDirs
<1>10. CASE spfs_entity_link_set_target(t)
  <2>1. pc[t] = "target" /\ NextItem(t) /\ entity' = Targeted(t)
    BY <1>10 DEF spfs_entity_link_set_target
  <2>2. entry[t] \in Ids
    BY <2>1, AtThread DEF ThreadOK, Ids, None
  <2>3. entity' = entity \/ Retargets(entry[t])
    BY <2>1, <2>2 DEF Targeted, Retargets
  <2> QED BY <2>1, <2>3, EntersNone, NextItemDirs
<1>11. CASE reply(t)
  <2>1. /\ entity' = entity /\ dir' = [dir EXCEPT ![t] = None]
        /\ issued' = issued /\ Goto(t, "idle")
    BY <1>11 DEF reply
  <2>2. dir'[t] = None /\ pc'[t] = "idle"
    BY <2>1, Going DEF TreeInv, LocalsOK
  <2>3. TakesDirs(t)
    BY <2>1, <2>2 DEF TakesDirs, Making
  <2> QED BY <2>1, <2>3, EntersNone
<1> QED BY <1>3, <1>4, <1>5, <1>6, <1>7, <1>8, <1>9, <1>10, <1>11 DEF ItemStep

LEMMA DirsNext ==
    ASSUME TreeInv, DirsInv, SanitizedStays, Work \/ UNCHANGED treeVars
    PROVE  DirsInv'
<1>1. ASSUME NEW w \in Workers, NEW d \in Ids, spfs_readdir(w, d)
      PROVE  DirsInv'
  <2>1. PICK list : Fill(w, d, list)
    BY <1>1 DEF spfs_readdir
  <2>2. /\ entity' = entity /\ issued' = issued /\ entity[d].kind = "dir"
        /\ w \in Threads
    BY <1>1 DEF spfs_readdir, Threads
  <2>3. ThreadStep(w) /\ EntersDirs /\ TakesDirs(w)
    BY <1>1, <2>1, <2>2, ReaddirStep, EntersNone, FillDirs
  <2> QED BY <2>2, <2>3, DirsKept
<1>2. ASSUME NEW w \in Workers,
             \/ \E q \in Queries : search_dir_create(w, q)
             \/ search_dir_search(w) \/ search_dir_add(w)
      PROVE  DirsInv'
  <2>1. w \in Threads
    BY DEF Threads
  <2>2. ThreadStep(w)
    BY <1>2, CreateSearchStep, IssueSearchStep, AddSearchStep
  <2>3. TreeStep
    BY <2>2 DEF ThreadStep
  <2>4. EntersDirs /\ TakesDirs(w)
    BY <1>2, <2>1, <2>3, SearchCreateDirs, SearchIssueDirs, SearchAddDirs
  <2> QED BY <2>1, <2>2, <2>4, DirsKept
<1>3. ASSUME NEW d \in issued, track_search_complete_cb(d)
      PROVE  DirsInv'
  <2>1. PICK list : Fill("session", d, list)
    BY <1>3 DEF track_search_complete_cb
  <2>2. /\ entity' = entity /\ issued' = issued \ {d} /\ "session" \in Threads
        /\ d \in Ids /\ entity[d].kind = "dir"
    BY <1>3 DEF track_search_complete_cb, Threads, DirsInv, TreeInv, IssuedOK
  <2>3. EntersDirs /\ TakesDirs("session")
    BY <2>1, <2>2, EntersNone, FillDirs
  <2>4. ThreadStep("session")
    BY <1>3, CallbackStep
  <2> QED BY <2>2, <2>3, <2>4, DirsKept
<1>4. ASSUME NEW t \in Threads, ItemStep(t) PROVE DirsInv'
  BY <1>4, ItemStepKeeps, ItemStepDirs, DirsKept
<1>5. CASE UNCHANGED treeVars
  BY <1>5 DEF treeVars, localVars, DirsInv, ParentsAreDirs, Ids, None
<1> QED BY <1>1, <1>2, <1>3, <1>4, <1>5 DEF Work

LEMMA DirsInit ==
    ASSUME Init PROVE DirsInv
<1>1. Len(entity) = 9
  BY InitialEntities
<1>2. /\ DirIs(entity[1], "", 0, "")
      /\ DirIs(entity[2], "browse", 1, "")
      /\ DirIs(entity[3], "tracks", 2, "")
      /\ DirIs(entity[4], "artists", 2, "")
      /\ DirIs(entity[5], "albums", 2, "")
      /\ DirIs(entity[6], "search", 1, "search")
      /\ DirIs(entity[7], "playlists", 1, "")
      /\ DirIs(entity[8], "meta", 7, "meta_lists")
      /\ DirIs(entity[9], "music", 7, "music_lists")
  BY InitialEntities
<1>3. \A e \in 1 .. 9 : e \in {1, 2, 3, 4, 5, 6, 7, 8, 9}
  OBVIOUS
<1>4. \A e \in 1 .. 9 : entity[e].kind = "dir"
  BY <1>2, <1>3, ZenonT(60) DEF DirIs
<1>5. ParentsAreDirs
  <2>1. \A e \in Ids : entity[e].parent \in 0 .. 9
    BY <1>1, TreeInit DEF TreeInv, TreeOK, EntityOK, Ids
  <2> QED BY <1>4, <2>1 DEF ParentsAreDirs, None
<1>6. /\ pc = [t \in Threads |-> "idle"] /\ dir = [t \in Threads |-> None]
      /\ issued = {}
  BY DEF Init
<1> QED BY <1>4, <1>5, <1>6 DEF DirsInv, Making

LEMMA DirsInvariant ==
    ASSUME SanitizedStays
    PROVE  Spec => [](NothingOverwritten => TreeInv /\ DirsInv)
<1> DEFINE T == NothingOverwritten => TreeInv
           D == NothingOverwritten => DirsInv
<1>1. Init => D
  BY DirsInit
<1>2. T /\ D /\ [Next]_vars => D'
  BY DirsNext, Moves
<1>3. T /\ D => (NothingOverwritten => TreeInv /\ DirsInv)
  OBVIOUS
<1> QED BY <1>1, <1>2, <1>3, TreeInvariant, PTL DEF Spec

-----------------------------------------------------------------------------
(* The way up from an entity, and the way down along its path.             *)

Names == {entity[e].name : e \in Ids}

\* Where the way up goes on, if it does.
Above == [e \in Ids |-> IF e = Root THEN None ELSE entity[e].parent]

LEMMA AboveFacts ==
    ASSUME TreeOK
    PROVE  /\ Len(entity) \in Nat /\ Ids = 1 .. Len(entity)
           /\ Above \in [Ids -> Nat]
           /\ \A e \in Ids : Above[e] < e /\ (Above[e] # None => Above[e] \in Ids)
<1>1. Len(entity) \in Nat /\ Ids = 1 .. Len(entity)
  BY SequenceBasics DEF TreeOK, Ids
<1>2. ASSUME NEW e \in Ids
      PROVE  /\ Above[e] \in Nat /\ Above[e] < e
             /\ Above[e] # None => Above[e] \in Ids
  <2>1. entity[e].parent \in Nat /\ entity[e].parent < e
    BY DEF TreeOK, EntityOK
  <2>2. Above[e] = IF e = Root THEN None ELSE entity[e].parent
    BY DEF Above
  <2>3. Above[e] \in Nat /\ Above[e] < e
    BY <1>1, <2>1, <2>2 DEF None
  <2> QED BY <1>1, <2>3 DEF None
<1>3. Above \in [Ids -> Nat]
  BY <1>2 DEF Above
<1> QED BY <1>1, <1>2, <1>3

\* The recursive function within spfs_entity_get_full_path.
Upward(f) ==
    f = [n \in Ids |->
            IF n = Root THEN <<>>
            ELSE IF entity[n].parent = None THEN <<entity[n].name>>
            ELSE Append(f[entity[n].parent], entity[n].name)]

LEMMA UpwardExists ==
    ASSUME TreeOK PROVE \E f : Upward(f)
<1>1. PICK n \in Nat : n = Len(entity) /\ Ids = 1 .. n
  BY AboveFacts
<1>2. WayUp(Above, n)
  BY <1>1, AboveFacts DEF WayUp
<1> DEFINE name(i) == entity[i].name
           first == [i \in 1 .. n |-> IF i = Root THEN <<>> ELSE <<name(i)>>]
           step == [i \in 1 .. n |-> [s \in Seq(Names) |-> Append(s, name(i))]]
<1>3. \A i \in 1 .. n : name(i) \in Names
  BY <1>1 DEF Names
<1> HIDE DEF name
<1>4. first \in [1 .. n -> Seq(Names)]
  BY <1>3
<1>5. step \in Steps(n, Seq(Names))
  BY <1>3 DEF Steps
<1>6. PICK f : Ascends(f, n, Seq(Names), Above, first, step)
  <2> HIDE DEF first, step
  <2> QED BY <1>2, <1>4, <1>5, Ascent
<1>7. /\ f \in [1 .. n -> Seq(Names)]
      /\ \A i \in 1 .. n :
            f[i] = IF Above[i] = 0 THEN first[i] ELSE step[i][f[Above[i]]]
  BY <1>6 DEF Ascends
<1>8. ASSUME NEW i \in Ids
      PROVE  f[i] = IF i = Root THEN <<>>
                    ELSE IF entity[i].parent = None THEN <<entity[i].name>>
                    ELSE Append(f[entity[i].parent], entity[i].name)
  <2>1. Above[i] = IF i = Root THEN 0 ELSE entity[i].parent
    BY DEF Above, None
  <2>2. name(i) = entity[i].name
    BY DEF name
  <2>3. CASE Above[i] = 0
    <3>1. f[i] = IF i = Root THEN <<>> ELSE <<name(i)>>
      BY <1>1, <1>7, <2>3
    <3> QED BY <2>1, <2>2, <2>3, <3>1 DEF None
  <2>4. CASE Above[i] # 0
    <3>1. i # Root /\ entity[i].parent # None /\ Above[i] = entity[i].parent
      BY <2>1, <2>4 DEF None
    <3>2. Above[i] \in 1 .. n /\ i \in 1 .. n
      BY <1>1, <2>4, AboveFacts DEF None
    <3>3. f[Above[i]] \in Seq(Names)
      BY <1>7, <3>2, <1>7
    <3>4. f[i] = step[i][f[Above[i]]]
      <4> HIDE DEF first, step
      <4> QED BY <1>7, <2>4, <3>2
    <3>5. f[i] = Append(f[Above[i]], name(i))
      BY <3>2, <3>3, <3>4
    <3> QED BY <2>2, <3>1, <3>5
  <2> QED BY <2>3, <2>4
<1>9. Upward(f)
  <2>1. f = [i \in Ids |-> f[i]]
    BY <1>7, <1>1
  <2> QED BY <1>8, <2>1 DEF Upward
<1> QED BY <1>9

LEMMA FullPathIs ==
    ASSUME TreeOK, NEW e \in Ids
    PROVE  spfs_entity_get_full_path(e)
               = IF e = Root THEN <<>>
                 ELSE IF entity[e].parent = None THEN <<entity[e].name>>
                 ELSE Append(spfs_entity_get_full_path(entity[e].parent),
                             entity[e].name)
<1> DEFINE f == CHOOSE g : Upward(g)
<1>1. \A x : spfs_entity_get_full_path(x) = f[x]
  BY DEF spfs_entity_get_full_path, Upward
<1>2. Upward(f)
  BY UpwardExists
<1> HIDE DEF f
<1>3. f[e] = IF e = Root THEN <<>>
             ELSE IF entity[e].parent = None THEN <<entity[e].name>>
             ELSE Append(f[entity[e].parent], entity[e].name)
  BY <1>2 DEF Upward
<1> QED BY <1>1, <1>3

\* The recursive function within Reachable.
Connected(f) ==
    f = [n \in Ids |->
            n = Root \/ (entity[n].parent # None /\ f[entity[n].parent])]

LEMMA ConnectedExists ==
    ASSUME TreeOK PROVE \E f : Connected(f)
<1>1. PICK n \in Nat : n = Len(entity) /\ Ids = 1 .. n
  BY AboveFacts
<1>2. WayUp(Above, n)
  BY <1>1, AboveFacts DEF WayUp
<1> DEFINE first == [i \in 1 .. n |-> i = Root]
           step == [i \in 1 .. n |-> [b \in BOOLEAN |-> b]]
<1>3. first \in [1 .. n -> BOOLEAN]
  OBVIOUS
<1>4. step \in Steps(n, BOOLEAN)
  BY DEF Steps
<1>5. PICK f : Ascends(f, n, BOOLEAN, Above, first, step)
  <2> HIDE DEF first, step
  <2> QED BY <1>2, <1>3, <1>4, Ascent
<1>6. /\ f \in [1 .. n -> BOOLEAN]
      /\ \A i \in 1 .. n :
            f[i] = IF Above[i] = 0 THEN first[i] ELSE step[i][f[Above[i]]]
  BY <1>5 DEF Ascends
<1>7. ASSUME NEW i \in Ids
      PROVE  f[i] = (i = Root \/ (entity[i].parent # None /\ f[entity[i].parent]))
  <2>1. Above[i] = IF i = Root THEN 0 ELSE entity[i].parent
    BY DEF Above, None
  <2>2. CASE Above[i] = 0
    <3>1. f[i] = (i = Root)
      BY <1>6, <1>1, <2>2
    <3> QED BY <2>1, <2>2, <3>1 DEF None
  <2>3. CASE Above[i] # 0
    <3>1. i # Root /\ entity[i].parent # None /\ Above[i] = entity[i].parent
      BY <2>1, <2>3 DEF None
    <3>2. Above[i] \in 1 .. n /\ i \in 1 .. n
      BY <1>1, <2>3, AboveFacts DEF None
    <3>3. f[Above[i]] \in BOOLEAN
      BY <1>6, <3>2
    <3>4. f[i] = step[i][f[Above[i]]]
      <4> HIDE DEF first, step
      <4> QED BY <1>6, <2>3, <3>2
    <3>5. f[i] = f[Above[i]]
      BY <3>2, <3>3, <3>4
    <3> QED BY <3>1, <3>3, <3>5
  <2> QED BY <2>2, <2>3
<1>8. Connected(f)
  <2>1. f = [i \in Ids |-> f[i]]
    BY <1>6, <1>1
  <2> QED BY <1>7, <2>1 DEF Connected
<1> QED BY <1>8

LEMMA ReachableIs ==
    ASSUME TreeOK, NEW e \in Ids, Reachable(e), e # Root
    PROVE  entity[e].parent \in Ids /\ Reachable(entity[e].parent)
<1> DEFINE f == CHOOSE g : Connected(g)
<1>1. \A x : Reachable(x) <=> f[x]
  BY DEF Reachable, Connected
<1>2. Connected(f)
  BY ConnectedExists
<1> HIDE DEF f
<1>3. f[e] = (e = Root \/ (entity[e].parent # None /\ f[entity[e].parent]))
  BY <1>2 DEF Connected
<1>4. entity[e].parent # None /\ f[entity[e].parent]
  BY <1>1, <1>3
<1>5. entity[e].parent \in Ids
  BY <1>4, AboveFacts DEF Above
<1> QED BY <1>1, <1>4, <1>5

\* The recursive function within FindPathFrom.
Walks(f, from, path) ==
    f = [k \in 0 .. Len(path) |->
            IF k = 0 THEN from ELSE NextOnPath(f[k - 1], path, k)]

LEMMA WalkExists ==
    ASSUME TreeOK, NEW from \in {None} \cup Ids, NEW path, Len(path) \in Nat
    PROVE  \E f : Walks(f, from, path)
<1>1. PICK n \in Nat : n = Len(path)
  OBVIOUS
<1> DEFINE T == 0 .. Len(entity)
           step == [k \in 1 .. n |-> [d \in T |-> NextOnPath(d, path, k)]]
<1>2. from \in T
  BY AboveFacts DEF None
<1>3. step \in Steps(n, T)
  <2>1. ASSUME NEW k \in 1 .. n, NEW d \in T
        PROVE  NextOnPath(d, path, k) \in T
    <3>1. None \in T
      BY AboveFacts DEF None
    <3>2. Child(d, path[k]) \in T
      BY ChildFound DEF TreeOK
    <3> QED BY <3>1, <3>2 DEF NextOnPath
  <2> HIDE DEF T
  <2> QED BY <2>1 DEF Steps
<1>4. PICK f : Iterates(f, n, T, from, step)
  <2> HIDE DEF step, T
  <2> QED BY <1>2, <1>3, Recursion
<1>5. /\ f \in [0 .. n -> T] /\ f[0] = from
      /\ \A k \in 1 .. n : f[k] = step[k][f[k - 1]]
  BY <1>4 DEF Iterates
<1>6. ASSUME NEW k \in 0 .. n
      PROVE  f[k] = IF k = 0 THEN from ELSE NextOnPath(f[k - 1], path, k)
  <2>1. CASE k = 0
    BY <1>5, <2>1
  <2>2. CASE k # 0
    <3>1. k \in 1 .. n /\ k - 1 \in 0 .. n
      BY <2>2
    <3>2. f[k - 1] \in T /\ f[k] = step[k][f[k - 1]]
      BY <1>5, <3>1
    <3> HIDE DEF T
    <3> QED BY <2>2, <3>1, <3>2
  <2> QED BY <2>1, <2>2
<1> HIDE DEF step
<1>7. Walks(f, from, path)
  BY <1>1, <1>5, <1>6 DEF Walks
<1> QED BY <1>7

LEMMA FindPathIs ==
    ASSUME TreeOK, NEW from \in {None} \cup Ids, NEW path, Len(path) \in Nat
    PROVE  \E f : /\ FindPathFrom(from, path) = f[Len(path)] /\ f[0] = from
                  /\ \A k \in 1 .. Len(path) :
                        f[k] = NextOnPath(f[k - 1], path, k)
<1> DEFINE f == CHOOSE g : Walks(g, from, path)
<1>1. FindPathFrom(from, path) = f[Len(path)]
  BY DEF FindPathFrom, Walks
<1>2. Walks(f, from, path)
  BY WalkExists
<1> HIDE DEF f
<1>3. \A k \in 0 .. Len(path) :
          f[k] = IF k = 0 THEN from ELSE NextOnPath(f[k - 1], path, k)
  BY <1>2 DEF Walks
<1>4. f[0] = from
  BY <1>3
<1>5. ASSUME NEW k \in 1 .. Len(path)
      PROVE  f[k] = NextOnPath(f[k - 1], path, k)
  <2>1. k \in 0 .. Len(path) /\ k # 0
    OBVIOUS
  <2> QED BY <1>3, <2>1
<1> QED BY <1>1, <1>4, <1>5

\* In a directory there is one entity of a name: the one that is looked up.
LEMMA ChildIs ==
    ASSUME TreeOK, UniqueNames, NEW e \in Ids, entity[e].parent # None
    PROVE  Child(entity[e].parent, entity[e].name) = e
<1> DEFINE found == {x \in Ids : /\ entity[x].parent = entity[e].parent
                                 /\ entity[x].name = entity[e].name}
<1>1. found = {e}
  BY DEF UniqueNames
<1>2. Child(entity[e].parent, entity[e].name)
          = IF found = {} THEN None ELSE CHOOSE x \in found : TRUE
  BY DEF Child
<1> QED BY <1>1, <1>2

LEMMA PathTyped ==
    ASSUME TreeOK, NEW e \in Ids
    PROVE  spfs_entity_get_full_path(e) \in Seq(Names)
<1> DEFINE S == {m \in Nat : \A x \in Ids :
                    x <= m => spfs_entity_get_full_path(x) \in Seq(Names)}
<1>1. 0 \in S
  BY AboveFacts
<1>2. ASSUME NEW m \in Nat, m \in S PROVE m + 1 \in S
  <2>1. SUFFICES ASSUME NEW x \in Ids, x <= m + 1
                 PROVE  spfs_entity_get_full_path(x) \in Seq(Names)
    OBVIOUS
  <2>2. entity[x].name \in Names
    BY DEF Names
  <2>3. CASE x = Root \/ entity[x].parent = None
    <3>1. <<>> \in Seq(Names) /\ <<entity[x].name>> \in Seq(Names)
      BY <2>2
    <3>2. spfs_entity_get_full_path(x) \in {<<>>, <<entity[x].name>>}
      BY <2>3, FullPathIs
    <3> QED BY <3>1, <3>2
  <2>4. CASE x # Root /\ entity[x].parent # None
    <3>1. PICK p \in Ids : p = entity[x].parent /\ p < x
      BY <2>4, AboveFacts DEF Above
    <3>2. p <= m
      BY <2>1, <3>1, AboveFacts
    <3>3. spfs_entity_get_full_path(p) \in Seq(Names)
      BY <1>2, <3>2
    <3>4. spfs_entity_get_full_path(x)
              = Append(spfs_entity_get_full_path(p), entity[x].name)
      BY <2>4, <3>1, FullPathIs
    <3> QED BY <2>2, <3>3, <3>4
  <2> QED BY <2>3, <2>4
<1>3. Nat \subseteq S
  <2> HIDE DEF S
  <2> QED BY <1>1, <1>2, SetInduction
<1>4. e \in Nat /\ e <= e
  BY AboveFacts
<1>5. e \in S
  <2> HIDE DEF S
  <2> QED BY <1>3, <1>4
<1> QED BY <1>4, <1>5

\* The path of an entity in the tree is that of its directory and its name.
LEMMA PathOfEntry ==
    ASSUME TreeOK, NEW e \in Ids, Reachable(e), e # Root
    PROVE  \E p \in Ids, s \in Seq(Names), n \in Nat :
              /\ p = entity[e].parent /\ p < e /\ p # None /\ Reachable(p)
              /\ s = spfs_entity_get_full_path(p) /\ n = Len(s)
              /\ spfs_entity_get_full_path(e) = Append(s, entity[e].name)
<1>1. entity[e].parent \in Ids /\ Reachable(entity[e].parent)
  BY ReachableIs
<1>2. PICK p \in Ids : p = entity[e].parent /\ Reachable(p)
  BY <1>1
<1>3. p # None
  BY <1>2, AboveFacts DEF None
<1>4. p < e
  BY <1>2, AboveFacts DEF Above
<1>5. spfs_entity_get_full_path(e)
          = Append(spfs_entity_get_full_path(p), entity[e].name)
  BY <1>2, <1>3, FullPathIs
<1>6. PICK s \in Seq(Names) : s = spfs_entity_get_full_path(p)
  BY PathTyped
<1>7. Len(s) \in Nat
  OBVIOUS
<1> QED BY <1>2, <1>3, <1>4, <1>5, <1>6, <1>7

\* f holds where a path leads, element by element.
Downward(f, path) ==
    f[0] = Root /\ \A k \in 1 .. Len(path) : f[k] = NextOnPath(f[k - 1], path, k)

StartsWith(path, s) == \A k \in 1 .. Len(s) : path[k] = s[k]

\* One element further: from a directory to its entry.
LEMMA OneFurther ==
    ASSUME TreeOK, UniqueNames, ParentsAreDirs,
           NEW e \in Ids, entity[e].parent \in Ids,
           NEW path, NEW k, path[k] = entity[e].name,
           k # Len(path) \/ entity[e].name # entity[entity[e].parent].name
    PROVE  NextOnPath(entity[e].parent, path, k) = e
<1>1. entity[e].parent # None
  BY AboveFacts DEF None
<1>2. entity[entity[e].parent].kind = "dir"
  BY <1>1 DEF ParentsAreDirs
<1>3. Child(entity[e].parent, entity[e].name) = e
  BY <1>1, ChildIs
<1> QED BY <1>1, <1>2, <1>3 DEF NextOnPath

\* Within a longer path, the path of an entity leads to it.
LEMMA WayDown ==
    ASSUME TreeOK, UniqueNames, ParentsAreDirs, NEW path \in Seq(Names),
           NEW f, Downward(f, path), NEW e \in Ids, Reachable(e),
           NEW s \in Seq(Names), s = spfs_entity_get_full_path(e),
           Len(s) < Len(path), StartsWith(path, s)
    PROVE  f[Len(s)] = e
<1> DEFINE Leading(x) ==
               \A u \in Seq(Names) :
                  /\ u = spfs_entity_get_full_path(x)
                  /\ Len(u) < Len(path) /\ StartsWith(path, u)
                  => f[Len(u)] = x
           S == {m \in Nat : \A x \in Ids : x <= m /\ Reachable(x) => Leading(x)}
<1>1. 0 \in S
  BY AboveFacts
<1>2. ASSUME NEW m \in Nat, m \in S PROVE m + 1 \in S
  <2>1. SUFFICES ASSUME NEW x \in Ids, x <= m + 1, Reachable(x)
                 PROVE  Leading(x)
    <3>1. m + 1 \in Nat
      OBVIOUS
    <3> HIDE DEF Leading
    <3> QED BY <3>1
  <2>2. SUFFICES ASSUME NEW u \in Seq(Names), u = spfs_entity_get_full_path(x),
                        Len(u) < Len(path), StartsWith(path, u)
                 PROVE  f[Len(u)] = x
    OBVIOUS
  <2>3. CASE x = Root
    <3>1. u = <<>>
      BY <2>2, <2>3, FullPathIs
    <3>2. Len(u) = 0
      BY <3>1
    <3> QED BY <2>3, <3>2 DEF Downward
  <2>4. CASE x # Root
    <3>1. PICK p \in Ids, v \in Seq(Names), n \in Nat :
              /\ p = entity[x].parent /\ p < x /\ p # None /\ Reachable(p)
              /\ v = spfs_entity_get_full_path(p) /\ n = Len(v)
              /\ spfs_entity_get_full_path(x) = Append(v, entity[x].name)
      BY <2>1, <2>4, PathOfEntry
    <3>2. entity[x].name \in Names
      BY DEF Names
    <3>3. /\ Len(u) = n + 1 /\ u[n + 1] = entity[x].name
          /\ \A k \in 1 .. n : u[k] = v[k]
      BY <2>2, <3>1, <3>2, AppendProperties
    <3>4. \A k \in 1 .. n + 1 : path[k] = u[k]
      BY <2>2, <3>3 DEF StartsWith
    <3>5. StartsWith(path, v) /\ Len(v) < Len(path)
      <4>1. \A k \in 1 .. n : k \in 1 .. n + 1
        OBVIOUS
      <4>2. \A k \in 1 .. n : path[k] = v[k]
        BY <3>3, <3>4, <4>1
      <4>3. n < Len(path)
        BY <2>2, <3>3, LenProperties
      <4> QED BY <3>1, <4>2, <4>3 DEF StartsWith
    <3>6. p <= m
      BY <2>1, <3>1, AboveFacts
    <3>7. Leading(p)
      <4> HIDE DEF Leading
      <4> QED BY <1>2, <3>1, <3>6
    <3>8. f[n] = p
      BY <3>1, <3>5, <3>7
    <3>9. path[n + 1] = entity[x].name /\ n + 1 # Len(path)
      <4>1. n + 1 \in 1 .. n + 1
        OBVIOUS
      <4> QED BY <2>2, <3>3, <3>4, <4>1
    <3>10. f[n + 1] = NextOnPath(f[n], path, n + 1)
      <4>1. n + 1 \in 1 .. Len(path) /\ (n + 1) - 1 = n
        BY <2>2, <3>1, <3>3
      <4> QED BY <4>1 DEF Downward
    <3>11. NextOnPath(p, path, n + 1) = x
      BY <3>1, <3>9, OneFurther
    <3> QED BY <3>3, <3>8, <3>10, <3>11
  <2> QED BY <2>3, <2>4
<1>3. Nat \subseteq S
  <2> HIDE DEF S
  <2> QED BY <1>1, <1>2, SetInduction
<1>4. e \in Nat /\ e <= e
  BY AboveFacts
<1>5. Leading(e)
  <2> HIDE DEF Leading
  <2> QED BY <1>3, <1>4
<1> QED BY <1>5

LEMMA EntityFound ==
    ASSUME TreeOK, UniqueNames, ParentsAreDirs, NEW e \in Ids, Reachable(e)
    PROVE  spfs_entity_find_path(spfs_entity_get_full_path(e))
               = IF e # Root /\ entity[e].name = entity[entity[e].parent].name
                 THEN entity[e].parent ELSE e
<1>1. PICK path \in Seq(Names) : path = spfs_entity_get_full_path(e)
  BY PathTyped
<1>2. Len(path) \in Nat /\ Root \in Ids
  BY AboveFacts DEF TreeOK, Root
<1>3. PICK f : /\ FindPathFrom(Root, path) = f[Len(path)] /\ f[0] = Root
               /\ \A k \in 1 .. Len(path) :
                     f[k] = NextOnPath(f[k - 1], path, k)
  BY <1>2, FindPathIs
<1>4. Downward(f, path)
  BY <1>3 DEF Downward
<1>5. spfs_entity_find_path(path) = f[Len(path)]
  BY <1>3 DEF spfs_entity_find_path
<1>6. CASE e = Root
  <2>1. path = <<>>
    BY <1>1, <1>6, FullPathIs
  <2>2. Len(path) = 0
    BY <2>1
  <2> QED BY <1>1, <1>3, <1>5, <1>6, <2>2
<1>7. CASE e # Root
  <2>1. PICK p \in Ids, s \in Seq(Names), n \in Nat :
            /\ p = entity[e].parent /\ p < e /\ p # None /\ Reachable(p)
            /\ s = spfs_entity_get_full_path(p) /\ n = Len(s)
            /\ spfs_entity_get_full_path(e) = Append(s, entity[e].name)
    BY <1>7, PathOfEntry
  <2>2. entity[e].name \in Names
    BY DEF Names
  <2>3. /\ Len(path) = n + 1 /\ path[n + 1] = entity[e].name
        /\ \A k \in 1 .. n : path[k] = s[k]
    BY <1>1, <2>1, <2>2, AppendProperties
  <2>4. StartsWith(path, s) /\ Len(s) < Len(path)
    BY <2>1, <2>3 DEF StartsWith
  <2>5. f[n] = p
    BY <1>4, <2>1, <2>4, WayDown
  <2>6. f[n + 1] = NextOnPath(p, path, n + 1)
    <3>1. n + 1 \in 1 .. Len(path) /\ (n + 1) - 1 = n
      BY <2>3
    <3> QED BY <1>4, <2>5, <3>1 DEF Downward
  <2>7. ASSUME entity[e].name = entity[p].name PROVE f[n + 1] = p
    BY <2>1, <2>3, <2>6, <2>7 DEF NextOnPath
  <2>8. ASSUME entity[e].name # entity[p].name PROVE f[n + 1] = e
    BY <2>1, <2>3, <2>6, <2>8, OneFurther
  <2> QED BY <1>1, <1>5, <1>7, <2>1, <2>3, <2>7, <2>8
<1> QED BY <1>6, <1>7

\* Whatever is in the tree is found under its own path, however many threads
\* add to it, until two insert one name: spfs_entity_dir_add_child gives only
\* an entity that has no parent yet, and to a directory that has no entry of
\* the name when it refuses or inserts, so that spfs_entity_find_path takes
\* each step of the way up back down.
THEOREM FoundByItsPath ==
    ASSUME SanitizedStays PROVE Spec => []FoundByPath
<1>1. (NothingOverwritten => TreeInv /\ DirsInv) => FoundByPath
  BY EntityFound DEF TreeInv, DirsInv, FoundByPath
<1> QED BY <1>1, DirsInvariant, PTL

=============================================================================
