------------------------------ MODULE SwigDoc ------------------------------
(* swig_doc.py: from the XML doxygen wrote of the headers, the docstrings of *)
(* the Python bindings.  A program of one thread; what makes it worth a      *)
(* model is that every file is read lazily, in the middle of something else, *)
(* and that an exception may come from any of these reads.                   *)
EXTENDS DoxyIndex

CONSTANT Directories          \* the directories doxygen may have written

VARIABLES
  pc,              \* the part of the program
  i,               \* its loop: the next compound, member or block
  blocks,          \* the members that are blocks
  makeFuncs,       \* names of the make functions dealt with
  out              \* entries: [name, text, params]

vars == <<dir, root, obj, top, pc, i, blocks, makeFuncs, out>>

Init ==
  /\ dir \in Directories
  /\ obj = [r \in DOMAIN dir.file |-> New]
  /\ root = <<>> /\ top = <<>> /\ blocks = <<>> /\ makeFuncs = {} /\ out = <<>>
  /\ pc = "open" /\ i = 1

\* An exception nobody catches.
Die == pc' = "died" /\ UNCHANGED <<dir, root, obj, top, i, blocks, makeFuncs, out>>

----------------------------------------------------------------------------
(* DoxyIndex._parse, the first time the index is asked for its members *)

refid(mem) == mem.attrs.refid

\* index.parse: no exception is caught here.
OpenIndex ==
  /\ pc = "open"
  /\ IF dir.index.state = "ok" /\ ~Fails("IndexDoxygenType", dir.index.node)
     THEN /\ root' = List(Build("IndexDoxygenType", dir.index.node), "compound")
          /\ pc' = "index"
          /\ UNCHANGED <<dir, obj, top, i, blocks, makeFuncs, out>>
     ELSE Die

\* A header's members are asked for at once: check_parsed of the file.
ParseFile ==
  /\ pc = "index" /\ i <= Len(root)
  /\ LET mem == root[i]
     IN /\ get_cls(mem) = "file" /\ IsHeader(name(mem)) /\ ~obj[refid(mem)].parsed
        /\ Parse(refid(mem), FileRaises(refid(mem)))
        /\ pc' = IF FileRaises(refid(mem)) THEN "died" ELSE "index"
  /\ UNCHANGED <<dir, root, top, i, blocks, makeFuncs, out>>

AddCompound ==
  /\ pc = "index" /\ i <= Len(root)
  /\ LET mem == root[i]
         own == <<convert_mem(mem, refid(mem))>>
     IN \/ /\ get_cls(mem) = "None"                  \* the second get_cls raises
           /\ Die
        \/ /\ get_cls(mem) = "file" /\ IsHeader(name(mem)) /\ obj[refid(mem)].parsed
           /\ top' = top \o obj[refid(mem)].members \o own
           /\ i' = i + 1
           /\ UNCHANGED <<dir, root, obj, pc, blocks, makeFuncs, out>>
        \/ /\ get_cls(mem) = "file" /\ ~IsHeader(name(mem))
           /\ i' = i + 1
           /\ UNCHANGED <<dir, root, obj, top, pc, blocks, makeFuncs, out>>
        \/ /\ get_cls(mem) \notin {"None", "file"}
           /\ top' = top \o own
           /\ i' = i + 1
           /\ UNCHANGED <<dir, root, obj, pc, blocks, makeFuncs, out>>

----------------------------------------------------------------------------
(* di.in_category(Block) *)

make_name(n) == <<Head(n), "make">> \o Tail(n)

\* item.error() of a class reads its file.
ParseClass ==
  /\ pc = "blocks" /\ i <= Len(top)
  /\ top[i].cls = "class" /\ ~obj[top[i].refid].parsed
  /\ Parse(top[i].refid, ClassRaises(top[i].refid))
  /\ pc' = IF ClassRaises(top[i].refid) THEN "died" ELSE "blocks"
  /\ UNCHANGED <<dir, root, top, i, blocks, makeFuncs, out>>

\* Block.includes: a class without error, with its make function for a friend;
\* has_member lets Duplicate through.
IncludesRaises(m) ==
  /\ m.cls = "class"
  /\ ~obj[m.refid].error
  /\ Duplicate(obj[m.refid].members, make_name(m.name), "friend")
includes(m) ==
  /\ m.cls = "class"
  /\ ~obj[m.refid].error
  /\ ~NoSuchMember(obj[m.refid].members, make_name(m.name), "friend")

FindBlock ==
  /\ pc = "blocks" /\ i <= Len(top)
  /\ top[i].cls = "class" => obj[top[i].refid].parsed
  /\ IF IncludesRaises(top[i]) THEN Die
     ELSE /\ blocks' = IF includes(top[i]) THEN Append(blocks, top[i]) ELSE blocks
          /\ i' = i + 1
          /\ UNCHANGED <<dir, root, obj, top, pc, makeFuncs, out>>

----------------------------------------------------------------------------
(* Entries *)

\* combine_descriptions needs both descriptions to be there.
Describable(o) == Described(o, "briefdescription") /\ Described(o, "detaileddescription")
Join(a, b) == IF a = <<>> THEN b ELSE IF b = <<>> THEN a ELSE a \o <<Break>> \o b
combine_descriptions(o) ==
  Join(Text(o, "briefdescription"), Text(o, "detaileddescription"))

\* make_entry: nothing for an operator, or when there is nothing to say.
IsOperator(n) == "operator " \in Range(n)
make_entry(n, text) ==
  IF IsOperator(n) \/ text = <<>> THEN <<>>
  ELSE <<[name |-> n, text |-> text, params |-> <<>>]>>

\* make_func_entry: the signature is always there.
Params(f) == LET ps == List(f, "param")
             IN [k \in DOMAIN ps |-> FlattenSeq(Field(ps[k], "declname").text)]
make_func_entry(n, text, params) ==
  IF IsOperator(n) THEN <<>>
  ELSE <<[name |-> n, text |-> text, params |-> params]>>
FuncRaises(f) ==
  set_descriptions_raises(f.data) \/ (~IsOperator(f.name) /\ ~Describable(f.data))

\* make_class_entry: the class, then its functions.
make_class_entry(k, text) ==
  LET funcs == in_category(obj[k.refid].members, "function")
  IN make_entry(k.name, text) \o
     FlattenSeq([n \in DOMAIN funcs |->
       make_func_entry(k.name \o <<"::">> \o funcs[n].name,
                       combine_descriptions(funcs[n].data), Params(funcs[n].data))])
ClassFuncsRaise(k) ==
  \E f \in Range(in_category(obj[k.refid].members, "function")) : FuncRaises(f)

\* make_block_entry: get_member of the make function or of the constructor may
\* raise; that of the header too, except when there is none.
header(n) == Append(n, ".h")
BlockRaises(b) ==
  \/ get_member_raises(top, make_name(b.name), "function")
  \/ ~Describable(compounddef(b.refid))
  \/ FuncRaises(get_member(top, make_name(b.name), "function"))
  \/ Duplicate(top, header(b.name), "file")
  \/ /\ ~NoSuchMember(top, header(b.name), "file")
     /\ ~Describable(compounddef(get_member(top, header(b.name), "file").refid))
  \/ ClassFuncsRaise(b)
  \/ get_member_raises(obj[b.refid].members, b.name, "function")
super_description(b) ==
  LET make == get_member(top, make_name(b.name), "function")
      file_desc == IF NoSuchMember(top, header(b.name), "file") THEN <<>>
                   ELSE combine_descriptions(compounddef(get_member(top, header(b.name), "file").refid))
  IN Join(Join(combine_descriptions(compounddef(b.refid)), combine_descriptions(make.data)),
          file_desc)
make_block_entry(b) ==
  LET creator == get_member(obj[b.refid].members, b.name, "function")
  IN make_class_entry(b, super_description(b)) \o
     make_func_entry(make_name(b.name), super_description(b), Params(creator.data))

----------------------------------------------------------------------------
(* make_swig_interface_file *)

BlockEntry ==
  /\ pc = "entries" /\ i <= Len(blocks)
  /\ IF BlockRaises(blocks[i]) THEN Die
     ELSE /\ makeFuncs' = makeFuncs \union {make_name(blocks[i].name)}
          /\ out' = out \o make_block_entry(blocks[i])
          /\ i' = i + 1
          /\ UNCHANGED <<dir, root, obj, top, pc, blocks>>

\* What a bug would do: leave the make functions among the functions.
FuncsLeftAll == in_category(top, "function")
funcs_left == LET Left(m) == m.name \notin makeFuncs
              IN SelectSeq(in_category(top, "function"), Left)
FuncEntry ==
  /\ pc = "funcs" /\ i <= Len(funcs_left)
  /\ LET f == funcs_left[i]
     IN IF FuncRaises(f) THEN Die
        ELSE /\ out' = out \o
                  make_func_entry(f.name, combine_descriptions(f.data), Params(f.data))
             /\ i' = i + 1
             /\ UNCHANGED <<dir, root, obj, top, pc, blocks, makeFuncs>>

klasses == LET Left(m) == \A b \in Range(blocks) : m.name # b.name
           IN SelectSeq(in_category(top, "class"), Left)
\* A class that could not be read says so, and the next one is tried.
ClassEntry ==
  /\ pc = "classes" /\ i <= Len(klasses)
  /\ LET k == klasses[i]
     IN IF obj[k.refid].error
        THEN i' = i + 1 /\ UNCHANGED <<dir, root, obj, top, pc, blocks, makeFuncs, out>>
        ELSE IF ~Describable(compounddef(k.refid)) \/ ClassFuncsRaise(k) THEN Die
        ELSE /\ out' = out \o make_class_entry(k, combine_descriptions(compounddef(k.refid)))
             /\ i' = i + 1
             /\ UNCHANGED <<dir, root, obj, top, pc, blocks, makeFuncs>>

\* The loops follow one another; the file is written after the last.
NextPart ==
  /\ \/ pc = "index" /\ i > Len(root) /\ pc' = "blocks"
     \/ pc = "blocks" /\ i > Len(top) /\ pc' = "entries"
     \/ pc = "entries" /\ i > Len(blocks) /\ pc' = "funcs"
     \/ pc = "funcs" /\ i > Len(funcs_left) /\ pc' = "classes"
     \/ pc = "classes" /\ i > Len(klasses) /\ pc' = "written"
  /\ i' = 1
  /\ UNCHANGED <<dir, root, obj, top, blocks, makeFuncs, out>>

Ended == pc \in {"written", "died"} /\ UNCHANGED vars

Next ==
  \/ OpenIndex \/ ParseFile \/ AddCompound \/ ParseClass \/ FindBlock
  \/ BlockEntry \/ FuncEntry \/ ClassEntry \/ NextPart
  \/ Ended

Spec == Init /\ [][Next]_vars

----------------------------------------------------------------------------
(* Properties *)

\* The compounds of the index that are read, by the class that reads them.
Headers == {mem \in Range(root) : get_cls(mem) = "file" /\ IsHeader(name(mem))}
Classes == {mem \in Range(root) : get_cls(mem) = "class"}
Functions(mem) ==
  {m \in Range(memberdefs(retrieved(refid(mem)))) : get_cls(m) = "function"}
Friends(mem) ==
  {m \in Range(memberdefs(retrieved(refid(mem)))) : get_cls(m) = "friend"}
Readable(mem) == dir.file[refid(mem)].state = "ok"
\* XML of another shape: a number or a text that is none, or no compounddef.
Misshapen(mem) ==
  /\ Readable(mem)
  /\ \/ Fails("DoxygenType", dir.file[refid(mem)].node)
     \/ retrieved(refid(mem)) = NoObject
     \/ ~Describable(retrieved(refid(mem)))
     \/ \E f \in Functions(mem) : ~Describable(f)
Blocks == {k \in Classes :
  Readable(k) /\ \E m \in Friends(k) : name(m) = make_name(name(k))}
\* process_memberdefs keeps the first member of a name, of whatever kind.
Alone(mem) ==
  {f \in Functions(mem) : \A m \in Range(memberdefs(retrieved(refid(mem)))) :
                            name(m) = name(f) => get_cls(m) = "function"}

\* The program gives up only for a reason in the files: an index it cannot read
\* or a kind of compound it does not know, a header that cannot be read at all,
\* a class whose file is missing or is XML of another shape, a description that
\* is not there, or a block without its one make function, its constructor and
\* its one header, or for which a member of another kind has the name of the first
\* or of the second.
\* A class whose file is not XML costs only its own entries, and no text of a
\* description is too much for the reader.
GivesUpOnlyFor ==
  pc = "died" =>
    \/ dir.index.state # "ok" \/ Fails("IndexDoxygenType", dir.index.node)
    \/ \E mem \in Range(root) : get_cls(mem) = "None"
    \/ \E h \in Headers : ~Readable(h) \/ Misshapen(h)
    \/ \E k \in Classes : dir.file[refid(k)].state = "missing" \/ Misshapen(k)
    \/ \E b \in Blocks :
         \/ Cardinality({h \in Headers : \E f \in Functions(h) :
                            name(f) = make_name(name(b))}) # 1
         \/ \E h \in Headers : \E f \in Functions(h) \ Alone(h) :
              name(f) = make_name(name(b))
         \/ \A f \in Alone(b) : name(f) # name(b)
         \/ Cardinality({h \in Headers : name(h) = header(name(b))}) > 1

\* When the file is written it has one entry for every function of a header,
\* also for those the entry of a block has dealt with, and for every function of
\* a class that can be read: none twice, and none left out because it was
\* declared in two sections or because another file could not be read.  Operators
\* have no entry, nor is one promised to a function that shares its name with a
\* member of another kind: process_memberdefs keeps the first of them.
EveryFunctionOnce ==
  pc = "written" =>
    LET Entries(n) == Cardinality({e \in DOMAIN out : out[e].name = n})
        Documented(mem) == {f \in Alone(mem) : ~IsOperator(name(f))}
        Declaring(n) == {h \in Headers : \E f \in Documented(h) : name(f) = n}
    IN /\ \A h \in Headers : \A f \in Documented(h) :
            Entries(name(f)) = Cardinality(Declaring(name(f)))
       /\ \A k \in Classes : Readable(k) =>
            \A f \in Documented(k) : Entries(name(k) \o <<"::">> \o name(f)) = 1

\* The leaves of some nodes in the order of the file, each under its path.
RECURSIVE Leaves(_, _)
Leaves(nodes, path) ==
  LET n == Head(nodes)
  IN IF nodes = <<>> THEN <<>>
     ELSE (IF IsText(n) THEN <<[path |-> path, word |-> n.word]>>
                        ELSE Leaves(n.kids, Append(path, n.tag)))
          \o Leaves(Tail(nodes), path)

\* Where text is shown: in sections one inside the other, with internal parts
\* between them, in their titles and paragraphs, and in references there; an
\* internal part has no title, and that of a sect3 no sect4.
Sections == <<"sect1", "sect2", "sect3", "sect4">>
IsOutline(path) ==
  LET Named(tag) == tag # "internal"
      sects == SelectSeq(path, Named)
  IN /\ IsPrefix(sects, Sections)
     /\ \A k \in 1..(Len(path) - 1) : path[k] = "internal" => path[k + 1] # "internal"
     /\ ~ \E k \in 1..(Len(path) - 2) : SubSeq(path, k, k + 2) = <<"sect3", "internal", "sect4">>
Shown(path) ==
  LET up(n) == SubSeq(path, 1, Len(path) - n)
  IN \/ IsOutline(path)
     \/ Last(path) = "para" /\ IsOutline(up(1))
     \/ Last(path) = "title" /\ IsOutline(up(1))
        /\ (Len(path) > 1 => path[Len(path) - 1] # "internal")
     \/ Len(path) > 1 /\ SubSeq(path, Len(path) - 1, Len(path)) = <<"para", "ref">>
        /\ IsOutline(up(2))

\* The docstring of a class that is no block is the text of its two descriptions
\* that is shown, every word once and in the order of the file: what a
\* description is read into, and read out of, loses nothing else.
DescriptionNodes(mem) ==
  LET All(node) == {node.kids[k] : k \in DOMAIN node.kids}
      defs == {d \in All(dir.file[refid(mem)].node) : d.tag = "compounddef"}
      Of(n) == {c \in UNION {All(d) : d \in defs} : c.tag = n}
      The(found) == CHOOSE node \in found : TRUE
  IN <<The(Of("briefdescription")), The(Of("detaileddescription"))>>
WordsInOrder ==
  LET Word(w) == w # Break
      IsShown(l) == Shown(l.path)
      Legible(node) == LET ls == SelectSeq(Leaves(node.kids, <<>>), IsShown)
                       IN [k \in DOMAIN ls |-> ls[k].word]
  IN pc = "written" =>
       \A k \in Classes \ Blocks : Readable(k) =>
         LET nodes == DescriptionNodes(k)
             text == Legible(nodes[1]) \o Legible(nodes[2])
             mine == {e \in Range(out) : e.name = name(k)}
         IN IF text = <<>> THEN mine = {}
            ELSE \E e \in mine : SelectSeq(e.text, Word) = text
============================================================================
