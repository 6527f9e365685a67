-------------------------------- MODULE Paths ---------------------------------
(***************************************************************************)
(* The path functions of src/fs.c on POSIX, as a caller uses them who      *)
(* keeps one path in a buffer and joins to it, normalizes it and goes up.  *)
(* A path is absolute or not, has a sequence of components and may end     *)
(* with a separator.  Paths with repeated separators are left out: none of *)
(* these functions makes one of paths that have none.                      *)
(***************************************************************************)
EXTENDS Integers, Sequences, FiniteSets, SequencesExt

CONSTANTS
  Names,     \* ordinary components, one byte long each
  BufSize,   \* buf_size of every call
  MaxDepth   \* entries of comp_ends, 256 in the code

ASSUME PathsAssumption == BufSize \in Nat \ {0, 1} /\ MaxDepth \in Nat \ {0}

Relative(comps) == [abs |-> FALSE, comps |-> comps, slash |-> FALSE]
Root == [abs |-> TRUE, comps |-> <<>>, slash |-> FALSE]
Dot  == Relative(<<".">>)

VARIABLES
  path,    \* what the buffer holds
  normal   \* TRUE iff the last call was normalize_path
pvars == <<path, normal>>

\* strlen: the components, of which only ".." has two bytes, one separator
\* between two, one in front of an absolute path, one at the end.
Parents(comps) == {k \in DOMAIN comps : comps[k] = ".."}

Length(p) ==
  LET One(b) == IF b THEN 1 ELSE 0
  IN  Len(p.comps) + Cardinality(Parents(p.comps))
        + (IF p.comps = <<>> THEN 0 ELSE Len(p.comps) - 1) + One(p.abs) + One(p.slash)

Fits(p) == Length(p) + 1 <= BufSize

-----------------------------------------------------------------------------
(* cpr_path_join and cpr_path_dirname                                      *)

\* An absolute part replaces the base; an empty one adds no separator.
join(base, part) ==
  IF part.abs THEN part
  ELSE [abs   |-> base.abs,
        comps |-> base.comps \o part.comps,
        slash |-> IF part.comps = <<>> THEN base.slash ELSE part.slash]

\* The buffer path_join asks for, its terminator included.
\* Mutant: forgets the separator it will write.
Bug_needed(base, part) ==
  IF part.abs THEN Length(part) + 1 ELSE Length(base) + Length(part) + 1

need_sep(base, part) == base.comps # <<>> /\ ~base.slash /\ part.comps # <<>>
needed(base, part) ==
  IF part.abs THEN Length(part) + 1
  ELSE Length(base) + (IF need_sep(base, part) THEN 1 ELSE 0) + Length(part) + 1

\* Everything before the last separator, which may be one at the end.
dirname(p) ==
  IF p.slash THEN [p EXCEPT !.slash = FALSE]
  ELSE IF Len(p.comps) > 1 THEN [p EXCEPT !.comps = Front(@)]
  ELSE IF p.abs THEN Root ELSE Dot

-----------------------------------------------------------------------------
(* cpr_normalize_path.  The text written so far is a sequence of           *)
(* components; an entry of comp_ends is a place in it to go back to.       *)

Remember(ends, place) == IF Len(ends) < MaxDepth THEN Append(ends, place) ELSE ends

\* Mutant: the place remembered is behind the component.
Bug_name(st, c) ==
  [text |-> Append(st.text, c), comp_ends |-> Remember(st.comp_ends, Len(st.text) + 1)]

name(st, c) ==
  [text |-> Append(st.text, c), comp_ends |-> Remember(st.comp_ends, Len(st.text))]

\* Mutant: the parent of the root is kept.
Bug_dotdot(st, abs) ==
  IF st.comp_ends # <<>>
  THEN [text |-> SubSeq(st.text, 1, Last(st.comp_ends)), comp_ends |-> Front(st.comp_ends)]
  ELSE [text |-> Append(st.text, ".."),
        comp_ends |-> Remember(st.comp_ends, Len(st.text) + 1)]

\* Goes back to the last place; if there is none, a relative path keeps the
\* ".." and remembers the place behind it.
dotdot(st, abs) ==
  IF st.comp_ends # <<>>
  THEN [text |-> SubSeq(st.text, 1, Last(st.comp_ends)), comp_ends |-> Front(st.comp_ends)]
  ELSE IF abs THEN st
  ELSE [text |-> Append(st.text, ".."),
        comp_ends |-> Remember(st.comp_ends, Len(st.text) + 1)]

component(st, c, abs) ==
  IF c = "." THEN st ELSE IF c = ".." THEN dotdot(st, abs) ELSE name(st, c)

\* What has become of the first k components.
Normalized(comps, abs) ==
  LET st[k \in 0 .. Len(comps)] ==
        IF k = 0 THEN [text |-> <<>>, comp_ends |-> <<>>]
        ELSE component(st[k - 1], comps[k], abs)
  IN  st

normalize(p) ==
  LET end == Normalized(p.comps, p.abs)[Len(p.comps)]
  IN  IF end.text = <<>> /\ ~p.abs THEN Dot
      ELSE [abs |-> p.abs, comps |-> end.text, slash |-> FALSE]

\* The least buffer that normalize_path accepts: the empty path grows to ".".
min_out(p) == IF Length(p) = 0 THEN 2 ELSE Length(p) + 1

-----------------------------------------------------------------------------
(* The caller.  A call whose result has no room changes nothing.           *)

Parts ==
  {Root, Relative(<<>>)}
  \cup [abs : {FALSE}, comps : {<<c>> : c \in Names \cup {".", ".."}}, slash : BOOLEAN]

PathsInit == path = Relative(<<>>) /\ normal = FALSE

path_join(part) ==
  /\ needed(path, part) <= BufSize
  /\ path' = join(path, part) /\ normal' = FALSE

path_dirname ==
  /\ Fits(dirname(path))
  /\ path' = dirname(path) /\ normal' = FALSE

normalize_path ==
  /\ min_out(path) <= BufSize
  /\ path' = normalize(path) /\ normal' = TRUE

PathsNext == normalize_path \/ path_dirname \/ \E part \in Parts : path_join(part)

PathsSpec == PathsInit /\ [][PathsNext]_pvars

-----------------------------------------------------------------------------
(* Properties *)

\* What a path names where there are no links: how far up from where it
\* starts, and then which names down.
Walk(m, c, abs) ==
  IF c = "." THEN m
  ELSE IF c # ".." THEN [m EXCEPT !.down = Append(@, c)]
  ELSE IF m.down # <<>> THEN [m EXCEPT !.down = Front(@)]
  ELSE IF abs THEN m
  ELSE [m EXCEPT !.up = @ + 1]
Walked(comps, abs) ==
  LET m[k \in 0 .. Len(comps)] ==
        IF k = 0 THEN [abs |-> abs, up |-> 0, down |-> <<>>]
        ELSE Walk(m[k - 1], comps[k], abs)
  IN  m
Meaning(p) == Walked(p.comps, p.abs)[Len(p.comps)]

\* fs.h 49 says that normalizing "Resolves `.` and `..` components": the
\* result names what the path named.
NormalizeKeepsMeaning == [][normalize_path => Meaning(path') = Meaning(path)]_pvars

\* It does so for paths that lead up by no more than one level and are not
\* deeper than comp_ends (fs.c 222-241).
Ordinary(p) == Meaning(p).up <= 1 /\ Len(p.comps) <= MaxDepth
NormalizeKeepsOrdinaryMeaning ==
  [][normalize_path /\ Ordinary(path) => Meaning(path') = Meaning(path)]_pvars

\* After normalize_path nothing is left to resolve (fs.c 214-253): no ".", no
\* "..", but at the front of a relative path, and no separator at the end.
NormalForm ==
  normal =>
    /\ ~path.slash
    /\ path = Dot \/ \A k \in 1 .. Len(path.comps) :
         /\ path.comps[k] # "."
         /\ path.comps[k] = ".." => ~path.abs /\ \A j \in 1 .. k : path.comps[j] = ".."

\* Each function compares sizes before it writes (fs.c 103, 116, 136, 150,
\* 171), normalize_path with the size of its argument: the result fits, be it
\* longer than the argument or not, and with the separator join adds.
ResultFits == Fits(path)

\* What holds of the buffer after any sequence of calls that share it.
ResultsFitAndAreNormal == ResultFits /\ NormalForm
=============================================================================
