----------------------------- MODULE MCSwigDoc -----------------------------
(* Directories for SwigDoc: what doxygen may write for two headers and two   *)
(* classes, and the descriptions of one class.                               *)
EXTENDS SwigDoc

El(tag, kids) == [tag |-> tag, attrs |-> <<>>, kids |-> kids]
ElKind(tag, kind, kids) == [El(tag, kids) EXCEPT !.attrs = [kind |-> kind]]
Word(w) == [tag |-> "#text", word |-> w]
Named(n) == El("name", <<Word(n)>>)
Say(w) == <<El("briefdescription", <<>>),
            El("detaileddescription", <<El("para", <<Word(w)>>)>>)>>
Quiet == <<El("briefdescription", <<>>), El("detaileddescription", <<>>)>>

Func(n, w) == ElKind("memberdef", "function",
  <<Named(n), El("param", <<El("declname", <<Word(<<"x">>)>>)>>)>> \o Say(w))
Other(kind, n) == ElKind("memberdef", kind, <<Named(n)>> \o Quiet)

File(secs, said) ==
  [state |-> "ok",
   node |-> El("doxygen",
     <<El("compounddef", [s \in DOMAIN secs |-> El("sectiondef", secs[s])] \o said)>>)]
NoFile == [state |-> "missing", node |-> Word(<<>>)]
NotXml == [state |-> "malformed", node |-> Word(<<>>)]
NoCompound == [state |-> "ok", node |-> El("doxygen", <<>>)]
BadLine == File(<< <<ElKind("memberdef", "function",
  <<Named(<<"f">>), [El("location", <<>>) EXCEPT !.attrs = [line |-> Bad]]>> \o Say(<<9>>))>> >>,
  Quiet)
Markup == File(<< <<ElKind("memberdef", "function",
  <<Named(<<"f">>), El("definition", <<El("ref", <<>>)>>)>> \o Say(<<9>>))>> >>, Quiet)

Compound(kind, n, r) ==
  [tag |-> "compound", attrs |-> [kind |-> kind, refid |-> r], kids |-> <<Named(n)>>]
Index(mems) == [state |-> "ok", node |-> El("doxygenindex", mems)]

----------------------------------------------------------------------------
BlockName == <<"b", "one">>
Make == Func(<<"b", "make", "one">>, <<1>>)
Free == Func(<<"free">>, <<2>>)

\* The header of the block, a second header, the block and another class.
HeadersOfBlock ==
  {File(<< <<Make, Free>> >>, Say(<<3>>)), File(<< <<Make>>, <<Make, Free>> >>, Quiet),
   File(<< <<Other("typedef", <<"free">>), Make, Free, Func(<<"free">>, <<7>>)>> >>, Quiet),
   File(<< <<Other("typedef", <<"b", "make", "one">>), Make, Free>> >>, Quiet),
   File(<< <<Free, Other("slot", <<"s">>)>> >>, Quiet), NotXml, BadLine, NoCompound}
OtherHeaders == {File(<< <<Func(<<"more">>, <<4>>)>> >>, Quiet), File(<< <<Free>> >>, Quiet),
                 File(<< <<Make>> >>, Quiet)}
BlockFiles ==
  {File(<< <<Other("friend", <<"b", "make", "one">>), Func(BlockName, <<5>>), Func(<<"work">>, <<6>>)>> >>, Say(<<8>>)),
   File(<< <<Other("friend", <<"b", "make", "one">>), Func(<<"work">>, <<6>>)>> >>, Say(<<8>>)),
   File(<< <<Other("friend", <<"b", "make", "one">>), Other("friend", BlockName), Func(BlockName, <<5>>)>> >>, Quiet),
   File(<< <<Func(BlockName, <<5>>), Func(BlockName, <<5>>)>> >>, Say(<<8>>)), NotXml, Markup, NoFile}
ClassFiles ==
  {File(<< <<Func(<<"get">>, <<9>>)>>, <<Func(<<"get">>, <<9>>), Func(<<"operator ">>, <<9>>)>> >>, Say(<<8>>)),
   File(<<>>, Quiet), File(<<>>, <<>>), NotXml, NoCompound, NoFile}
Extras == {"namespace", "page", "example"}

Projects ==
  {[index |-> Index(<<Compound("class", BlockName, "one"), Compound("file", <<"b", "one", ".h">>, "h1"),
                      Compound(extra, <<"e">>, "e"), Compound("file", <<"b", "one", ".cc">>, "cc"),
                      Compound("class", <<"c">>, "c"), Compound("file", second, "h2")>>),
    file |-> [one |-> b, h1 |-> h, c |-> k, h2 |-> g, cc |-> NoFile, e |-> NoFile]] :
     b \in BlockFiles, h \in HeadersOfBlock, k \in ClassFiles, g \in OtherHeaders, extra \in Extras,
     second \in {<<"d", ".h">>, <<"b", "one", ".h">>}}
NoProject == {[index |-> x, file |-> [e |-> NoFile]] : x \in {NoFile, NotXml}}

----------------------------------------------------------------------------
\* Descriptions: paragraphs of up to two pieces, and sections down to the
\* deepest, with a title, a paragraph and text in each; every word is different.
Piece(k, w) == IF k = "#text" THEN Word(w) ELSE El(k, <<Word(w)>>)
Pieces == {"#text", "ref", "bold", "simplesect", "parameterlist"}
Para(w, ks) == El("para", [n \in DOMAIN ks |-> Piece(ks[n], <<w, n>>)])
Paras(w) == {Para(w, ks) : ks \in UNION {[1..n -> Pieces] : n \in 0..2}}
Around(tag, w, inner) ==
  El(tag, <<Word(<<w, 0>>), El("title", <<Word(<<w, 1>>)>>), Para(w, <<"#text", "ref">>)>> \o inner)
Outlines ==
  UNION {[1..n -> {"sect1", "sect2", "sect3", "sect4", "internal"}] : n \in 0..2} \union
  {<<"sect1", "sect2", "sect3", "sect4">>, <<"sect1", "sect2", "sect3", "sect4", "internal">>,
   <<"sect1", "internal", "sect2", "internal", "sect3">>, <<"sect1", "sect2", "sect3", "internal">>,
   <<"sect1", "sect2", "sect3", "internal", "sect4">>, <<"sect1", "sect2", "internal", "sect3", "sect4">>}
Nest(tags) ==
  LET f[n \in 0..Len(tags)] ==          \* from the innermost outwards
        IF n = 0 THEN <<>> ELSE LET d == Len(tags) - n + 1 IN <<Around(tags[d], d, f[n - 1])>>
  IN f[Len(tags)]
Said(brief, detail) ==
  <<El("briefdescription", brief), El("detaileddescription", detail)>>
OfClass(said) ==
  [index |-> Index(<<Compound("class", <<"c">>, "c")>>), file |-> [c |-> File(<<>>, said)]]
Descriptions ==
  {OfClass(Said(<<p>>, <<q>>)) : p \in Paras(11), q \in Paras(12)} \union
  {OfClass(Said(<<>>, Nest(tags))) : tags \in Outlines}

Written == Projects \union NoProject \union Descriptions
============================================================================
