----------------------------- MODULE DoxyIndex -----------------------------
(* The objects of doxyxml (doxyxml/base.py, doxyxml/doxyindex.py) over the   *)
(* directory doxygen has written: each is read from its file the first time  *)
(* it is asked for something, and remembers what it found.                   *)
EXTENDS DoxygenText, Integers, FiniteSets

VARIABLES
  dir,             \* [index |-> File, file |-> [refids -> File]]
  root,            \* the compounds of the index, once it is read
  obj,             \* compounds read so far: obj[refid]
  top              \* _members of the DoxyIndex

(* A File is [state, node], state "missing", "malformed" (not XML) or "ok".  *)
(* A name is the sequence of its parts between underscores.  A member is     *)
(* [cls, name, refid, data]: refid names a compound, data is the memberdef   *)
(* of any other member.                                                      *)
New == [parsed |-> FALSE, error |-> FALSE, members |-> <<>>, data |-> NoObject]

name(o) == FlattenSeq(Field(o, "name").text)
IsHeader(n) == n # <<>> /\ Last(n) = ".h"

\* get_cls: the class that can parse a compound of the index or a memberdef.
Kinds == {"function", "class", "file", "namespace", "group", "friend"}
OtherKinds ==
  {"variable", "struct", "union", "define", "typedef", "enum", "dir", "page"}
get_cls(mem) == LET kind == mem.attrs.kind
                IN IF kind \in Kinds THEN kind
                   ELSE IF kind \in OtherKinds THEN "other" ELSE "None"

\* convert_mem: an object that no class can parse is printed, and None returned.
convert_mem(mem, refid) ==
  [cls |-> get_cls(mem), name |-> name(mem), refid |-> refid, data |-> mem]

----------------------------------------------------------------------------
(* One file *)

\* The compounddef of a file, for which build does not raise.
retrieved(refid) ==
  Field(Build("DoxygenType", dir.file[refid].node), "compounddef")
compounddef(refid) == obj[refid].data

\* description of a field that may be None.
Described(o, n) == Field(o, n) # NoObject
Text(o, n) == description(Field(o, n))
set_descriptions_raises(o) ==
  \E n \in {"briefdescription", "detaileddescription"} :
    Described(o, n) /\ Unreadable(Field(o, n))

memberdefs(c) ==
  LET secs == List(c, "sectiondef")
  IN FlattenSeq([s \in DOMAIN secs |-> List(secs[s], "memberdef")])

\* process_memberdefs: of the memberdefs of all sections, the first of a name.
process_memberdefs(c) ==
  LET all == memberdefs(c)
      First(i) == \A j \in 1..(i - 1) : name(all[j]) # name(all[i])
      uniques == SelectSeq([i \in DOMAIN all |-> i], First)
  IN [k \in DOMAIN uniques |-> convert_mem(all[uniques[k]], <<>>)]
\* retrieve_data notes only an error of the XML parser.
retrieve_data_raises(refid) ==
  \/ dir.file[refid].state = "missing"
  \/ dir.file[refid].state = "ok" /\ Fails("DoxygenType", dir.file[refid].node)
Malformed(refid) == dir.file[refid].state = "malformed"

\* The rest of _parse, which needs a compounddef.
Unusable(refid) ==
  LET c == retrieved(refid) IN c = NoObject \/ set_descriptions_raises(c)

\* DoxyClass asks for the error before it uses what it has retrieved, DoxyFile after.
FileRaises(refid) ==
  retrieve_data_raises(refid) \/ Malformed(refid) \/ Unusable(refid)
\* What a bug would do: use what was retrieved before asking for the error.
ClassRaisesUnread(refid) == FileRaises(refid)
ClassRaises(refid) ==
  retrieve_data_raises(refid) \/ (~Malformed(refid) /\ Unusable(refid))

\* _parse: parsed is set first, so that it stays set when the rest raises.
Parse(refid, raises) ==
  obj' = [obj EXCEPT ![refid] =
            IF raises \/ Malformed(refid)
            THEN [New EXCEPT !.parsed = TRUE, !.error = Malformed(refid)]
            ELSE [New EXCEPT !.parsed = TRUE, !.data = retrieved(refid),
                             !.members = process_memberdefs(retrieved(refid))]]

----------------------------------------------------------------------------
(* Members by category and name *)

in_category(members, cat) ==
  LET InCat(m) == m.cls = cat IN SelectSeq(members, InCat)

get_member(members, n, cat) ==
  CHOOSE m \in Range(in_category(members, cat)) : m.name = n
NoSuchMember(members, n, cat) ==
  \A k \in DOMAIN in_category(members, cat) : in_category(members, cat)[k].name # n
Duplicate(members, n, cat) ==
  \E k, l \in DOMAIN in_category(members, cat) :
    k < l /\ in_category(members, cat)[k].name = n /\ in_category(members, cat)[l].name = n
get_member_raises(members, n, cat) ==
  NoSuchMember(members, n, cat) \/ Duplicate(members, n, cat)
============================================================================
