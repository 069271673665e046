---------------------------- MODULE CredentialsFile ----------------------------
(***************************************************************************)
(* merge-credentials.mjs: the edits of .credentials.yaml, line by line,    *)
(* against what the file means as YAML.                                    *)
(*                                                                         *)
(* A line is its depth of indentation, its key and its value; "text" is a  *)
(* comment, a continued value or a key of DSH's own records, "blank" an    *)
(* empty line.  Of a value it matters whether it is missing, {}, a string  *)
(* whose quote the next lines close, a scalar without quotes, or a string. *)
(* The files are those DSH and the script write, and those of the old flat *)
(* layout, with empty lines and comments between their parts.              *)
(***************************************************************************)
EXTENDS Naturals, Sequences, SequencesExt, FiniteSets, FiniteSetsExt

CONSTANTS Key    \* names of credentials

VARIABLES file, said

vars == <<file, said>>

Line(d, n, v) == [depth |-> d, name |-> n, val |-> v]
Blank == Line(0, "blank", "none")
VersionLine == Line(0, "version", "1")
Refs(v) == Line(0, "refs", v)
IsEntry(l) == l.name \notin {"blank", "text"}

-----------------------------------------------------------------------------
(* The files.                                                              *)

Entry(d, k, v) == IF v = "open" THEN <<Line(d, k, v), Line(d + 1, "text", "none")>>
                  ELSE <<Line(d, k, v)>>
Entries(d, V) == {FlattenSeq([i \in DOMAIN s |-> Entry(d, s[i], f[i])]) :
                    s \in {t \in SeqOf(Key, 2) : IsInjective(t)}, f \in [1 .. 2 -> V]}
Refss == {<<Refs("{}")>>} \cup {<<Refs("none")>> \o e : e \in Entries(1, {"open", "string"}) \ {<<>>}}
Records == <<Line(0, "records", "none"), Line(1, "text", "none"), Line(2, "created", "1")>>
Comment == <<Line(0, "text", "none")>>
Parts == {<<>>, Comment, <<Blank>>, Records}

Files == {p \o <<VersionLine>> \o q \o r \o t : p \in {<<>>, Comment}, q, t \in Parts,
                                           r \in Refss \cup {<<>>}}
           \cup {p \o e \o t : p \in {<<>>, Comment, <<VersionLine>>}, t \in Parts,
                               e \in Entries(0, {"bare", "string"})}

(* What a file says: the lines of its refs, and all others but version and *)
(* the empty ones.                                                         *)
First(s, i, P(_)) == Min({j \in i .. Len(s) : P(s[j])} \cup {Len(s) + 1})
IsRefs(l) == l.depth = 0 /\ l.name = "refs" /\ l.val \in {"none", "{}"}
Header(s) == First(s, 1, IsRefs)
Region(s) == Header(s) + 1 .. First(s, Header(s) + 1, LAMBDA l : l.depth = 0 /\ l.name # "blank") - 1
IsFlat(l) == l.depth = 0 /\ IsEntry(l) /\ l.name # "version" /\ l.val # "none"
Lines(s) == IF Header(s) <= Len(s) THEN {i \in Region(s) : IsEntry(s[i])}
            ELSE {i \in DOMAIN s : IsFlat(s[i])}
String(v) == IF v = "bare" THEN "string" ELSE v
Says(s) == [k \in {s[i].name : i \in Lines(s)} |->
              String(s[CHOOSE i \in Lines(s) : s[i].name = k].val)]
Value(s, k) == IF k \in DOMAIN Says(s) THEN Says(s)[k] ELSE "none"
Rest(s) == LET in == {Header(s)} \cup (IF Header(s) <= Len(s) THEN Region(s) ELSE Lines(s)) IN
           SelectSeq([i \in DOMAIN s |-> IF i \in in THEN Blank ELSE s[i]],
                     LAMBDA l : l \notin {Blank, VersionLine})

(* DSH loads it: every value is a string, what it continues is continued,  *)
(* and no key or part is there twice.                                      *)
Loads(s) ==
  LET R == Region(s) IN
  /\ Cardinality({i \in DOMAIN s : s[i] = VersionLine}) = 1
  /\ Cardinality({i \in DOMAIN s : s[i].depth = 0 /\ s[i].name = "refs"}) = 1
  /\ \A i \in DOMAIN s : IsFlat(s[i]) => i = Header(s)
  /\ (s[Header(s)].val = "{}") <=> (Lines(s) = {})
  /\ \A i \in Lines(s) :
       /\ s[i].depth = 1 /\ s[i].val \in {"open", "string", "new"}
       /\ (s[i].val = "open") <=> (i + 1 \in R /\ s[i + 1].name = "text")
       /\ \A j \in Lines(s) : s[j].name = s[i].name => i = j
  /\ \A i \in R : s[i].name = "text" => i - 1 \in Lines(s)

-----------------------------------------------------------------------------
(* The script.                                                             *)

(* findRefsBlock: the block ends at an empty line too.                     *)
End(s) == First(s, Header(s) + 1, LAMBDA l : l.name = "blank" \/ l.depth = 0)
Block(s) == Header(s) + 1 .. End(s) - 1
Depth(s) == IF Block(s) = {} THEN 1 ELSE s[Header(s) + 1].depth
Found(s, k) == {i \in Block(s) : s[i].name = k}

(* entryExtent.                                                            *)
Extent(s, i) == Min({End(s), First(s, i + 1, LAMBDA l : l.name = "blank" \/ l.depth <= s[i].depth)})

(* normalizeBlockEntries: entries that are not inside another.             *)
Quoted(v) == CASE v = "none" -> "empty" [] v = "bare" -> "string" [] OTHER -> v
Normalized(s) ==
  [i \in DOMAIN s |->
     IF /\ i \in Block(s) /\ IsEntry(s[i]) /\ s[i].val # "open"
        /\ \A j \in Block(s) : j < i /\ IsEntry(s[j]) => Extent(s, j) <= i
     THEN [s[i] EXCEPT !.val = Quoted(@)] ELSE s[i]]

(* assertWellFormed.                                                       *)
WellFormed(s) ==
  LET R == {i \in Region(s) : s[i].name # "blank"}
      top == {i \in R : IsEntry(s[i]) /\ s[i].depth = s[Min(R)].depth}
      continues(i) == \E j \in top : /\ j < i /\ s[j].val = "open"
                                     /\ \A m \in j + 1 .. i : m \in R /\ s[m].depth > s[j].depth
  IN /\ Header(s) <= Len(s)
     /\ \A i \in R : i \in top \/ continues(i)
     /\ \A i, j \in top : s[i].name = s[j].name => i = j

(* ensureVersionLine: after the comments at the top.                       *)
WithVersion(s) ==
  IF \E i \in DOMAIN s : s[i].depth = 0 /\ s[i].name = "version" THEN s
  ELSE InsertAt(s, First(s, 1, LAMBDA l : l.name # "blank" /\ l.name # "text"), VersionLine)

Cut(s, i, j) == SubSeq(s, 1, i - 1) \o SubSeq(s, j, Len(s))
Put(s, i, t) == SubSeq(s, 1, i - 1) \o t \o SubSeq(s, i, Len(s))

(* A block for a file without one, of its flat entries.                    *)
WithBlock(s) ==
  LET flat == {i \in DOMAIN s : IsFlat(s[i])}
      kept == [i \in DOMAIN s |-> IF i \in flat THEN Blank ELSE s[i]]
      moved == [i \in 1 .. Cardinality(flat) |->
                  LET l == s[SetToSortSeq(flat, <)[i]] IN Line(1, l.name, Quoted(l.val))]
      first == Min(flat)
  IN IF Header(s) <= Len(s) THEN s
     ELSE IF flat = {}
     THEN InsertAt(s, First(s, 1, LAMBDA l : l.name = "version") + 1, Refs("none"))
     ELSE SubSeq(s, 1, first - 1) \o <<Refs("none")>> \o moved
            \o FoldLeft(LAMBDA t, i : IF i \in flat THEN t ELSE Append(t, s[i]), <<>>,
                        [i \in 1 .. Len(s) - first |-> first + i])

(* Mutant: the value is replaced on its first line only.                   *)
SetFirstLine(s, k) ==
  LET t == Normalized(WithBlock(WithVersion(s)))
      b == IF Header(t) <= Len(t) THEN [t EXCEPT ![Header(t)] = Refs("none")] ELSE t
      new == <<Line(Depth(b), k, "new")>>
  IN IF Found(b, k) = {} THEN Put(b, End(b), new)
     ELSE LET i == Min(Found(b, k)) IN Put(Cut(b, i, i + 1), i, new)

Set(s, k) ==
  LET t == Normalized(WithBlock(WithVersion(s)))
      b == [t EXCEPT ![Header(t)] = Refs("none")]
      new == <<Line(Depth(b), k, "new")>>
  IN IF Found(b, k) = {} THEN Put(b, End(b), new)
     ELSE LET i == Min(Found(b, k)) IN Put(Cut(b, i, Extent(b, i)), i, new)

Del(s, k) ==
  LET t == WithVersion(s) i == Min(Found(t, k)) u == Cut(t, i, Extent(t, i)) IN
  IF \E j \in Block(u) : IsEntry(u[j]) THEN Normalized(u)
  ELSE [u EXCEPT ![Header(u)] = Refs("{}")]

(* Without a block, the line of a flat entry is cut.                       *)
DelFlat(s, k) ==
  LET t == WithVersion(s) i == Min({j \in DOMAIN t : IsFlat(t[j]) /\ t[j].name = k}) IN
  Cut(t, i, i + 1)

HasBlock(s) == Header(s) <= Len(s)
FlatKey(s, k) == \E i \in DOMAIN s : IsFlat(s[i]) /\ s[i].name = k

-----------------------------------------------------------------------------
Init == file \in Files /\ said = <<"none">>

(* writeLines.                                                             *)
Write(s, what, k) == IF WellFormed(s) THEN file' = s /\ said' = <<what, k>>
                     ELSE said' = <<"refused", k>> /\ UNCHANGED file

SetKey(k) == Write(Set(file, k), "written", k)
DelKey(k) == \/ HasBlock(file) /\ Found(file, k) # {} /\ Write(Del(file, k), "deleted", k)
             \/ ~HasBlock(file) /\ FlatKey(file, k) /\ Write(DelFlat(file, k), "deleted", k)
             \/ /\ IF HasBlock(file) THEN Found(file, k) = {} ELSE ~FlatKey(file, k)
                /\ said' = <<"absent", k>> /\ UNCHANGED file

Next == \E k \in Key : SetKey(k) \/ DelKey(k)

Spec == Init /\ [][Next]_vars

-----------------------------------------------------------------------------
TypeOK == said[1] \in {"none", "written", "deleted", "absent", "refused"}

(* After an edit of a file, DSH loads it, the key has its new value or is  *)
(* gone, all other keys and all other lines are what they were, in their   *)
(* order (merge-credentials.mjs:11).  Only an absent key is called absent, *)
(* and a file that is in order is never refused (merge-credentials.mjs:169)*)
EditRight ==
  /\ said'[1] = "refused" => ~Loads(file)
  /\ \A k \in Key :
       /\ said' \in {<<"written", k>>, <<"deleted", k>>} =>
            /\ Loads(file') /\ Rest(file') = Rest(file)
            /\ \A n \in Key \ {k} : Value(file', n) = Value(file, n)
       /\ said' = <<"written", k>> => Value(file', k) = "new"
       /\ said' \in {<<"deleted", k>>, <<"absent", k>>} => Value(file', k) = "none"
EditsRight == [][EditRight]_vars
=============================================================================
