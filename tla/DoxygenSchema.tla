--------------------------- MODULE DoxygenSchema ---------------------------
(* The classes the files of doxygen are read into, of doxyxml/generated:     *)
(* compoundsuper.py and compound.py for the file of a compound, indexsuper.py *)
(* and index.py for index.xml.  A class is what its method build does with a *)
(* node: the attributes it converts to integers, what becomes of the text in *)
(* it, and which of its child elements are kept, as what.  Only the classes  *)
(* a file can reach are here; any other child element is passed over.        *)

\* A class: integer attributes; "content" keeps text with the elements around
\* it in content_, "value" only in valueOf_, "none" drops it; child elements.
Class(ints, text, kids) == [ints |-> ints, text |-> text, kids |-> kids]

\* What becomes of a child: it replaces the field, it is appended to a list, or
\* it is appended to content_ (an object of the class), or it is text alone.
One(cls) == [how |-> "one", cls |-> cls]
Many(cls) == [how |-> "many", cls |-> cls]
Item(cls) == [how |-> "item", cls |-> cls]
String == [how |-> "string", cls |-> "str"]
Strings == [how |-> "strings", cls |-> "str"]
InlineText == [how |-> "inline", cls |-> "str"]
NoChildren == <<>>

----------------------------------------------------------------------------
(* compoundsuper.py *)

DoxygenType == Class({}, "none",
  [compounddef |-> One("compounddefType")])

compounddefType == Class({}, "none",
  [compoundname |-> String, title |-> One("docTitleType"),
   basecompoundref |-> Many("compoundRefType"),
   derivedcompoundref |-> Many("compoundRefType"), includes |-> Many("incType"),
   includedby |-> Many("incType"), incdepgraph |-> One("graphType"),
   invincdepgraph |-> One("graphType"), innerdir |-> Many("refType"),
   innerfile |-> Many("refType"), innerclass |-> Many("refType"),
   innernamespace |-> Many("refType"), innerpage |-> Many("refType"),
   innergroup |-> Many("refType"),
   templateparamlist |-> One("templateparamlistType"),
   sectiondef |-> Many("sectiondefType"),
   briefdescription |-> One("descriptionType"),
   detaileddescription |-> One("descriptionType"),
   inheritancegraph |-> One("graphType"), collaborationgraph |-> One("graphType"),
   programlisting |-> One("listingType"), location |-> One("locationType"),
   listofallmembers |-> One("listofallmembersType")])

listofallmembersType == Class({}, "none",
  [member |-> Many("memberRefType")])

memberRefType == Class({}, "none",
  [scope |-> String, name |-> String])

compoundRefType == Class({}, "content", NoChildren)

reimplementType == Class({}, "content", NoChildren)

incType == Class({}, "content", NoChildren)

refType == Class({}, "content", NoChildren)

sectiondefType == Class({}, "none",
  [header |-> String, description |-> One("descriptionType"),
   memberdef |-> Many("memberdefType")])

memberdefType == Class({}, "none",
  [templateparamlist |-> One("templateparamlistType"),
   type |-> One("linkedTextType"), definition |-> String, argsstring |-> String,
   name |-> String, read |-> String, write |-> String, bitfield |-> String,
   reimplements |-> Many("reimplementType"),
   reimplementedby |-> Many("reimplementType"), param |-> Many("paramType"),
   enumvalue |-> Many("enumvalueType"), initializer |-> One("linkedTextType"),
   exceptions |-> One("linkedTextType"),
   briefdescription |-> One("descriptionType"),
   detaileddescription |-> One("descriptionType"),
   inbodydescription |-> One("descriptionType"), location |-> One("locationType"),
   references |-> Many("referenceType"), referencedby |-> Many("referenceType")])

descriptionType == Class({}, "content",
  [title |-> Item("docTitleType"), para |-> Item("docParaType"),
   sect1 |-> Item("docSect1Type"), internal |-> Item("docInternalType")])

enumvalueType == Class({}, "content",
  [name |-> InlineText, initializer |-> Item("linkedTextType"),
   briefdescription |-> Item("descriptionType"),
   detaileddescription |-> Item("descriptionType")])

templateparamlistType == Class({}, "none",
  [param |-> Many("paramType")])

paramType == Class({}, "none",
  [type |-> One("linkedTextType"), declname |-> String, defname |-> String,
   array |-> String, defval |-> One("linkedTextType"),
   briefdescription |-> One("descriptionType")])

linkedTextType == Class({}, "content",
  [ref |-> Item("docRefTextType")])

graphType == Class({}, "none",
  [node |-> Many("nodeType")])

nodeType == Class({}, "none",
  [label |-> String, link |-> One("linkType"),
   childnode |-> Many("childnodeType")])

childnodeType == Class({}, "none",
  [edgelabel |-> Strings])

linkType == Class({}, "value", NoChildren)

listingType == Class({}, "none",
  [codeline |-> Many("codelineType")])

codelineType == Class({"lineno"}, "none",
  [highlight |-> Many("highlightType")])

highlightType == Class({}, "content",
  [sp |-> InlineText, ref |-> Item("docRefTextType")])

referenceType == Class({"endline", "startline"}, "content", NoChildren)

locationType == Class({"bodystart", "line", "bodyend"}, "value", NoChildren)

docSect1Type == Class({}, "content",
  [title |-> Item("docTitleType"), para |-> Item("docParaType"),
   sect2 |-> Item("docSect2Type"), internal |-> Item("docInternalS1Type")])

docSect2Type == Class({}, "content",
  [title |-> Item("docTitleType"), para |-> Item("docParaType"),
   sect3 |-> Item("docSect3Type"), internal |-> Item("docInternalS2Type")])

docSect3Type == Class({}, "content",
  [title |-> Item("docTitleType"), para |-> Item("docParaType"),
   sect4 |-> Item("docSect4Type"), internal |-> Item("docInternalS3Type")])

docSect4Type == Class({}, "content",
  [title |-> Item("docTitleType"), para |-> Item("docParaType"),
   internal |-> Item("docInternalS4Type")])

docInternalType == Class({}, "content",
  [para |-> Item("docParaType"), sect1 |-> Item("docSect1Type")])

docInternalS1Type == Class({}, "content",
  [para |-> Item("docParaType"), sect2 |-> Item("docSect2Type")])

docInternalS2Type == Class({}, "content",
  [para |-> Item("docParaType"), sect3 |-> Item("docSect3Type")])

docInternalS3Type == Class({}, "content",
  [para |-> Item("docParaType"), sect3 |-> Item("docSect4Type")])

docInternalS4Type == Class({}, "content",
  [para |-> Item("docParaType")])

docTitleType == Class({}, "content", NoChildren)

\* What a bug would do: no case for a reference, as for other markup.
ParaWithoutRef == Class({}, "content",
  [parameterlist |-> Many("docParamListType"), simplesect |-> Many("docSimpleSectType")])

docParaType == Class({}, "content",
  [ref |-> Item("docRefTextType"), parameterlist |-> Many("docParamListType"),
   simplesect |-> Many("docSimpleSectType")])

docSimpleSectType == Class({}, "none",
  [title |-> One("docTitleType"), para |-> Many("docParaType")])

docRefTextType == Class({}, "content", NoChildren)

docParamListType == Class({}, "none",
  [parameteritem |-> Many("docParamListItem")])

docParamListItem == Class({}, "none",
  [parameternamelist |-> Many("docParamNameList"),
   parameterdescription |-> One("descriptionType")])

docParamNameList == Class({}, "none",
  [parametername |-> Many("docParamName")])

docParamName == Class({}, "content",
  [ref |-> Item("docRefTextType")])

----------------------------------------------------------------------------
(* indexsuper.py; its DoxygenType has the name of the other one *)

IndexDoxygenType == Class({}, "none", [compound |-> Many("CompoundType")])

CompoundType == Class({}, "none", [name |-> String, member |-> Many("MemberType")])

MemberType == Class({}, "none", [name |-> String])

----------------------------------------------------------------------------
\* Every class under its name.
Schema ==
  [DoxygenType |-> DoxygenType, compounddefType |-> compounddefType,
   listofallmembersType |-> listofallmembersType,
   memberRefType |-> memberRefType, compoundRefType |-> compoundRefType,
   reimplementType |-> reimplementType, incType |-> incType,
   refType |-> refType, sectiondefType |-> sectiondefType,
   memberdefType |-> memberdefType, descriptionType |-> descriptionType,
   enumvalueType |-> enumvalueType,
   templateparamlistType |-> templateparamlistType, paramType |-> paramType,
   linkedTextType |-> linkedTextType, graphType |-> graphType,
   nodeType |-> nodeType, childnodeType |-> childnodeType,
   linkType |-> linkType, listingType |-> listingType,
   codelineType |-> codelineType, highlightType |-> highlightType,
   referenceType |-> referenceType, locationType |-> locationType,
   docSect1Type |-> docSect1Type, docSect2Type |-> docSect2Type,
   docSect3Type |-> docSect3Type, docSect4Type |-> docSect4Type,
   docInternalType |-> docInternalType,
   docInternalS1Type |-> docInternalS1Type,
   docInternalS2Type |-> docInternalS2Type,
   docInternalS3Type |-> docInternalS3Type,
   docInternalS4Type |-> docInternalS4Type, docTitleType |-> docTitleType,
   docParaType |-> docParaType, docSimpleSectType |-> docSimpleSectType,
   docRefTextType |-> docRefTextType, docParamListType |-> docParamListType,
   docParamListItem |-> docParamListItem,
   docParamNameList |-> docParamNameList, docParamName |-> docParamName,
   IndexDoxygenType |-> IndexDoxygenType, CompoundType |-> CompoundType,
   MemberType |-> MemberType]
============================================================================
