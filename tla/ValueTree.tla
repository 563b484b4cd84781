----------------------------- MODULE ValueTree -----------------------------
(***************************************************************************)
(* Trees of attributes with values: JSON and YAML documents, directories   *)
(* and overlays, their lookups, the values fetched from them, their        *)
(* traversal, the JSON stream parser and the visitor that builds objects.  *)
(* A tree is a record: an "obj" of named members m, an "arr" of elements   *)
(* m, or a scalar whose kind is k and whose text is v.                     *)
(***************************************************************************)
EXTENDS Integers, Sequences, SequencesExt, FiniteSets

Scalar(kind, text) == [k |-> kind, v |-> text, m |-> <<>>]

Arr(elems) == [k |-> "arr", v |-> "", m |-> [i \in DOMAIN elems |-> [name |-> "", val |-> elems[i]]]]

Obj(members) == [k |-> "obj", v |-> "", m |-> members]

Missing == [k |-> "missing", v |-> "", m |-> <<>>]

Container(t) == t.k \in {"obj", "arr"}

\* The numbers of the samples: their sign and the bits of their magnitude.
Numbers ==
    LET Of(neg, bits) == [neg |-> neg, bits |-> bits]
    IN  [t \in {"0", "1", "2", "-1", "300", "70000", "big"} |->
           CASE t = "-1" -> Of(TRUE, 1) [] t = "0" -> Of(FALSE, 0) [] t = "1" -> Of(FALSE, 1) [] t = "2" -> Of(FALSE, 2)
             [] t = "300" -> Of(FALSE, 9) [] t = "70000" -> Of(FALSE, 17) [] t = "big" -> Of(FALSE, 40)]

\* from_string<span_size_t>() of an entry of a path.
IndexOf(entry) == CASE entry = "0" -> 0 [] entry = "1" -> 1 [] entry = "2" -> 2 [] OTHER -> -1

IndexName(i) == <<"0", "1", "2", "3", "4", "5">>[i + 1]

EntryName(t, i) == IF t.m[i].name = "" THEN IndexName(i - 1) ELSE t.m[i].name

-----------------------------------------------------------------------------
(* rapidjson nodes: type, counts and nested attributes.                    *)

ScalarType(t) ==
    CASE t.k = "bool" -> "bool"
      [] t.k = "int" /\ Numbers[t.v].bits < 32 -> "int32"
      [] t.k = "int" -> "int64"
      [] t.k = "real" -> "float"
      [] t.k = "str" -> "string"
      [] OTHER -> "unknown"

CanonicalType(t) ==
    CASE t.k = "obj" -> "composite"
      [] t.k = "arr" ->
           LET types == {ScalarType(t.m[i].val) : i \in DOMAIN t.m}
           IN  IF Cardinality(types) = 1 THEN CHOOSE x \in types : TRUE ELSE "composite"
      [] OTHER -> ScalarType(t)

NestedCount(t) == IF Container(t) THEN Len(t.m) ELSE 0

ValueCount(t) == CASE t.k = "arr" -> Len(t.m) [] t.k \in {"null", "missing"} -> 0 [] OTHER -> 1

NestedAt(t, index) ==
    IF Container(t) /\ index < Len(t.m) THEN t.m[index + 1] ELSE [name |-> "", val |-> Missing]

FindMember(t, name) ==
    IF t.k = "obj" /\ \E i \in DOMAIN t.m : t.m[i].name = name
    THEN t.m[CHOOSE i \in DOMAIN t.m : t.m[i].name = name /\ \A j \in 1..(i - 1) : t.m[j].name # name]
    ELSE [name |-> "", val |-> Missing]

NestedNamed(t, name) ==
    LET found == FindMember(t, name)
    IN  IF found.val # Missing \/ IndexOf(name) < 0 THEN found ELSE NestedAt(t, IndexOf(name))

\* One entry of a path: the first tagged member, the member, or the element.
FindStep(at, entry, tags) ==
    LET tagged == {i \in DOMAIN tags : FindMember(at.val, entry \o "@" \o tags[i]).val # Missing}
        first == CHOOSE i \in tagged : \A j \in tagged : i <= j
    IN  CASE at.val.k = "obj" /\ tagged # {} -> FindMember(at.val, entry \o "@" \o tags[first])
          [] at.val.k = "obj" -> FindMember(at.val, entry)
          [] at.val.k = "arr" /\ IndexOf(entry) \in 0..(Len(at.val.m) - 1) ->
               [name |-> at.name, val |-> at.val.m[IndexOf(entry) + 1].val]
          [] OTHER -> [name |-> "", val |-> Missing]

Find(t, path, tags) ==
    FoldLeft(LAMBDA at, entry : FindStep(at, entry, tags), [name |-> "", val |-> t], path)

-----------------------------------------------------------------------------
(* Conversions; the result is the text of the value, None when there is none. *)

None == "none"

Bits == [bool |-> 1, byte |-> 8, int16 |-> 15, int32 |-> 31, int64 |-> 63, uint16 |-> 16, uint32 |-> 32, uint64 |-> 64]

SignedTypes == {"int16", "int32", "int64"}

FitsIn(text, type) ==
    /\ text \in DOMAIN Numbers
    /\ Numbers[text].bits <= Bits[type]
    /\ Numbers[text].neg => type \in SignedTypes

BoolOf(text) == CASE text \in {"1", "true", "yes"} -> "true" [] text \in {"0", "false", "no"} -> "false" [] OTHER -> None

FromString(text, type) ==
    CASE type = "string" -> text
      [] type = "bool" -> BoolOf(text)
      [] type \in {"float", "duration"} -> IF text \in DOMAIN Numbers \cup {"1.5"} THEN text ELSE None
      [] OTHER -> IF FitsIn(text, type) THEN text ELSE None

ConvertBool(t) ==
    CASE t.k = "bool" -> t.v
      [] t.k = "int" /\ FitsIn(t.v, "bool") -> BoolOf(t.v)
      [] t.k = "str" -> BoolOf(t.v)
      [] OTHER -> None

ConvertTribool(t) == IF ConvertBool(t) = None /\ t.k = "null" THEN "indeterminate" ELSE ConvertBool(t)

ConvertInt(t, type) ==
    CASE t.k = "int" /\ FitsIn(t.v, type) -> t.v
      [] t.k = "str" -> FromString(t.v, type)
      [] OTHER -> None

ConvertReal(t, type) ==
    CASE t.k \in {"real", "int"} -> t.v
      [] t.k = "str" -> FromString(t.v, type)
      [] OTHER -> None

Convert(t, type) ==
    CASE type = "string" -> IF t.k = "str" THEN t.v ELSE None
      [] type = "bool" -> ConvertBool(t)
      [] type = "tribool" -> ConvertTribool(t)
      [] type \in {"float", "duration"} -> ConvertReal(t, type)
      [] OTHER -> ConvertInt(t, type)

\* do_fetch_values: the elements from offset on, up to the first that does not convert.
FetchValues(t, offset, room, type) ==
    LET n == CHOOSE k \in 0..room :
                /\ offset + k <= Len(t.m)
                /\ \A i \in 1..k : Convert(t.m[offset + i].val, type) # None
                /\ \/ k = room
                   \/ offset + k = Len(t.m)
                   \/ Convert(t.m[offset + k + 1].val, type) = None
    IN  CASE t.k = "arr" /\ offset <= Len(t.m) -> [i \in 1..n |-> Convert(t.m[offset + i].val, type)]
          [] t.k = "arr" -> <<>>
          [] room > 0 /\ Convert(t, type) # None -> <<Convert(t, type)>>
          [] OTHER -> <<>>

FetchChars(t, offset, room) ==
    IF t.k = "str" /\ offset < Len(t.v)
    THEN SubSeq(t.v, offset + 1, IF offset + room < Len(t.v) THEN offset + room ELSE Len(t.v))
    ELSE ""

\* converted_value: an enumerator is fetched as its name and then looked up.
FetchEnum(t, names) ==
    LET text == FetchValues(t, 0, 1, "string") IN IF text # <<>> /\ text[1] \in names THEN text[1] ELSE None

\* rapidyaml: every scalar is text, a sequence skips what does not convert.
YamlType(t) == IF Container(t) THEN "composite" ELSE IF t = Missing THEN "unknown" ELSE "string"

YamlValueCount(t) == CASE t.k = "arr" -> Len(t.m) [] t.k \in {"obj", "missing"} -> 0 [] OTHER -> 1

YamlFetch(t, offset, room, type) ==
    LET leaves == SelectSeq(t.m, LAMBDA e : ~Container(e.val))
        rest == [i \in 1..(IF offset < Len(leaves) THEN Len(leaves) - offset ELSE 0) |-> FromString(leaves[offset + i].val.v, type)]
        good == SelectSeq(rest, LAMBDA v : v # None)
    IN  CASE t.k = "arr" -> SubSeq(good, 1, IF room < Len(good) THEN room ELSE Len(good))
          [] t.k \notin {"obj", "missing"} /\ room > 0 /\ FromString(t.v, type) # None -> <<FromString(t.v, type)>>
          [] OTHER -> <<>>

\* An index past the end of a sequence is an error ryml aborts on.
Aborted == Scalar("abort", "")

YamlFind(t, path, tags) ==
    FoldLeft(LAMBDA at, entry :
               CASE at.val.k = "arr" /\ IndexOf(entry) >= Len(at.val.m) -> [name |-> "", val |-> Aborted]
                 [] at.val.k = "abort" -> at
                 [] at.val.k = "arr" /\ IndexOf(entry) >= 0 -> NestedAt(at.val, IndexOf(entry))
                 [] OTHER -> FindStep(at, entry, tags),
             [name |-> "", val |-> t], path)

-----------------------------------------------------------------------------
(* The file system: a directory is an object, a file a scalar with text.   *)

RECURSIVE PathsOf(_)
PathsOf(t) ==
    {<<>>} \cup UNION {{<<EntryName(t, i)>> \o p : p \in PathsOf(t.m[i].val)} : i \in DOMAIN t.m}

FsFind(exists, path, tags) ==
    LET Append1(spath, entry) ==
            LET tagged == {i \in DOMAIN tags : Append(spath, entry \o "@" \o tags[i]) \in exists}
                first == CHOOSE i \in tagged : \A j \in tagged : i <= j
            IN  IF tagged # {} THEN Append(spath, entry \o "@" \o tags[first]) ELSE Append(spath, entry)
        found == FoldLeft(Append1, <<>>, path)
    IN  IF found \in exists THEN <<found>> ELSE <<>>

FsValueCount(t) == IF t.k = "str" THEN Len(t.v) ELSE 0

FsFetch(t, offset, room) == FetchChars(t, offset, room)

-----------------------------------------------------------------------------
(* Overlays: the first tree that has a path says what is there.            *)

FindSource(overlays, path) ==
    LET has == {i \in DOMAIN overlays : Find(overlays[i], path, <<>>).val # Missing}
    IN  IF has = {} THEN Missing
        ELSE Find(overlays[CHOOSE i \in has : \A j \in has : i <= j], path, <<>>).val

\* _scan: the names below a path in any of the trees, unnamed ones by position.
OverlayNames(overlays, path) ==
    UNION {LET found == Find(overlays[i], path, <<>>).val
           IN  {EntryName(found, c) : c \in 1..NestedCount(found)} :
             i \in DOMAIN overlays}

AddOverlay(overlays, t) == <<t>> \o overlays

\* A path followed from the root of the overlay with nested(name).
RECURSIVE OverlayReach(_, _, _)
OverlayReach(overlays, at, path) ==
    IF path = <<>> THEN <<at>>
    ELSE IF Head(path) \in OverlayNames(overlays, at)
         THEN OverlayReach(overlays, Append(at, Head(path)), Tail(path))
         ELSE <<>>

-----------------------------------------------------------------------------
(* compound::traverse with a handler that gets every attribute and its path *)
(* and does not enter the stops.                                            *)

RECURSIVE StackLoop(_, _, _, _, _)
StackLoop(atr, pos, path, out, stops) ==
    LET top == Last(atr)
        child == NestedAt(top, Last(pos))
        here == Append(path, IF child.name # "" THEN child.name ELSE IndexName(Last(pos)))
        seen == Append(out, [path |-> here, val |-> child.val])
        Bump(p) == [p EXCEPT ![Len(p)] = @ + 1]
    IN  IF Last(pos) < NestedCount(top)
        THEN IF here \notin stops THEN StackLoop(Append(atr, child.val), Append(pos, 0), here, seen, stops)
                            ELSE StackLoop(atr, Bump(pos), path, seen, stops)
        ELSE IF Len(pos) = 1 THEN out
             ELSE StackLoop(Front(atr), Bump(Front(pos)), Front(path), out, stops)

Traverse(t, stops) == StackLoop(<<t>>, <<0>>, <<>>, <<>>, stops)

\* compound::_traverse: the calls a visitor gets.
Ev(call, name, values) == [e |-> call, n |-> name, vs |-> values]

BoolLimit == 256

\* The forwarding functions: several strings are forwarded as empty views.
Forwarded(t) ==
    LET type == CanonicalType(t)
        count == ValueCount(t)
        all == FetchValues(t, 0, count, IF type \in {"int32", "int64"} THEN "int64" ELSE type)
    IN  CASE count = 0 \/ type \in {"composite", "unknown"} -> <<>>
          [] type = "bool" /\ count > BoolLimit -> <<>>
          [] type = "string" /\ count > 1 -> <<Ev("consume", "string", [i \in 1..count |-> ""])>>
          [] OTHER -> <<Ev("consume", type, all)>>

RECURSIVE VisitorCalls(_)
VisitorCalls(t) ==
    LET n == NestedCount(t)
        Named(i) == t.m[i].name # ""
        Child(i) ==
            (IF i > 1 THEN <<>> ELSE IF Named(i) THEN <<Ev("begin_struct", "", <<>>)>> ELSE <<Ev("begin_list", "", <<>>)>>)
            \o (IF Named(i) THEN <<Ev("begin_attribute", t.m[i].name, <<>>)>> ELSE <<>>)
            \o VisitorCalls(t.m[i].val)
            \o (IF Named(i) THEN <<Ev("finish_attribute", t.m[i].name, <<>>)>> ELSE <<>>)
            \o (IF i < n THEN <<>> ELSE IF Named(i) THEN <<Ev("finish_struct", "", <<>>)>> ELSE <<Ev("finish_list", "", <<>>)>>)
    IN  FlattenSeq([i \in 1..n |-> Child(i)]) \o Forwarded(t)

TraverseCalls(t) == <<Ev("begin", "", <<>>)>> \o VisitorCalls(t) \o <<Ev("finish", "", <<>>)>>

\* make_url_str: the parts of a locator in the order they are written.
UrlParts(t) ==
    LET Text(name) == FetchValues(NestedNamed(t, name).val, 0, 1, "string")
        Part(pre, name, post) == IF Text(name) # <<>> THEN <<pre, Text(name)[1], post>> ELSE <<>>
        port == FetchValues(NestedNamed(t, "port").val, 0, 1, "uint16")
        args == SelectSeq(NestedNamed(t, "args").val.m, LAMBDA a : FetchValues(a.val, 0, 1, "string") # <<>>)
        login == IF Text("login") # <<>> THEN Text("login") \o Part(":", "password", "") \o <<"@">> ELSE <<>>
    IN  Part("", "scheme", "://")
        \o (IF Text("domain") # <<>> THEN login \o Text("domain") ELSE <<>>)
        \o (IF port # <<>> THEN <<":", port[1]>> ELSE <<>>)
        \o Part("", "path", "")
        \o FlattenSeq([i \in DOMAIN args |-> <<IF i = 1 THEN "?" ELSE "&", args[i].name, "=", FetchValues(args[i].val, 0, 1, "string")[1]>>])
        \o Part("#", "fragment", "")

-----------------------------------------------------------------------------
(* compound_interface: what each kind of compound answers for an attribute.  *)

JsonView(t) ==
    [type |-> CanonicalType(t), nested |-> NestedCount(t), values |-> ValueCount(t), immutable |-> TRUE,
     preview |-> IF t.k = "str" THEN <<t.v>> ELSE <<>>]

YamlView(t) ==
    [type |-> YamlType(t), nested |-> NestedCount(t), values |-> YamlValueCount(t), immutable |-> TRUE,
     preview |-> IF Container(t) THEN <<>> ELSE <<t.v>>]

FsView(t) ==
    [type |-> "byte", nested |-> NestedCount(t), values |-> FsValueCount(t), immutable |-> FALSE, preview |-> <<>>]

EmptyView == [type |-> "byte", nested |-> 0, values |-> 0, immutable |-> TRUE, preview |-> <<>>]

\* What compound answers when it, or the attribute, is empty.
NoView == [type |-> "unknown", nested |-> 0, values |-> 0, immutable |-> FALSE, preview |-> <<>>]

OverlayView(overlays, path) ==
    LET source == FindSource(overlays, path)
    IN  [(IF source = Missing THEN NoView ELSE JsonView(source))
           EXCEPT !.nested = Cardinality(OverlayNames(overlays, path))]

\* compound: every question is asked only of a compound and an attribute that
\* are there.  A compound is a record of its kind and its tree.
NoCompound == [kind |-> "none", t |-> Missing]

Asked(c, a, answer, default) == IF c # NoCompound /\ a # Missing THEN answer ELSE default

View(c, a) ==
    Asked(c, a,
          CASE c.kind = "json" -> JsonView(a) [] c.kind = "yaml" -> YamlView(a)
            [] c.kind = "filesystem" -> FsView(a) [] OTHER -> EmptyView,
          NoView)

\* structure(), from_json_text() and the others: text that does not parse
\* makes an empty compound.
MakeCompound(kind, t) == IF t = Missing THEN NoCompound ELSE [kind |-> kind, t |-> t]

StructureOf(c) == IF c.kind \in {"json", "yaml", "filesystem"} THEN c.t ELSE Missing

\* nested() by index or by name; a YAML map is only searched by name.
NestedOf(c, a, how) ==
    Asked(c, a,
          CASE c.kind = "empty" -> Missing
            [] how.by = "index" /\ c.kind = "yaml" /\ how.index >= NestedCount(a) -> Aborted
            [] how.by = "index" -> NestedAt(a, how.index).val
            [] c.kind = "json" -> NestedNamed(a, how.name).val
            [] OTHER -> FindMember(a, how.name).val,
          Missing)

FindIn(c, a, path, tags) ==
    Asked(c, a,
          CASE c.kind = "empty" -> Missing
            [] c.kind = "yaml" -> YamlFind(a, path, tags).val
            [] c.kind = "filesystem" ->
                 LET found == FsFind(PathsOf(a), path, tags) IN IF found = <<>> THEN Missing ELSE Find(a, found[1], <<>>).val
            [] OTHER -> Find(a, path, tags).val,
          Missing)

\* The attribute meant by a name, a path or an attribute itself.
Meant(c, how) ==
    CASE how.by = "attribute" -> how.attr
      [] how.by = "name" -> NestedOf(c, StructureOf(c), how)
      [] how.by = "path" -> FindIn(c, StructureOf(c), how.path, <<>>)

\* The fetch_values of every type of value end in the do_fetch_values of the kind.
DoFetch(c, a, offset, room, type) ==
    CASE c.kind = "json" -> FetchValues(a, offset, room, type)
      [] c.kind = "yaml" -> YamlFetch(a, offset, room, type)
      [] c.kind = "filesystem" /\ type = "string" /\ room = 1 /\ a.k = "str" -> <<FetchChars(a, offset, Len(a.v))>>
      [] c.kind = "filesystem" /\ room = 1 /\ a.k = "str" /\ offset = 0 ->
           IF FromString(a.v, type) = None THEN <<>> ELSE <<FromString(a.v, type)>>
      [] OTHER -> <<>>

Fetched(c, how, offset, room, type) == Asked(c, Meant(c, how), DoFetch(c, Meant(c, how), offset, room, type), <<>>)

\* fetch_value and get: one value, or none.
Get(c, how, offset, type) ==
    LET one == Fetched(c, how, offset, 1, type) IN IF one = <<>> THEN None ELSE one[1]

\* compound_attribute: a compound and one of its attributes, asked together.
CompoundAttribute(a) == [by |-> "attribute", attr |-> a]

\* get_url: a locator is the text, or made from parts.
Url(c, how) == IF Get(c, how, 0, "string") # None THEN <<Get(c, how, 0, "string")>> ELSE UrlParts(Meant(c, how))

-----------------------------------------------------------------------------
(* rapidjson_progressive_stream: the rest of earlier blocks and the current  *)
(* one, as positions in the document.                                        *)

Available(s) == Len(s.prev) + Len(s.cur) - s.offs

NextBlock(s, block) == [s EXCEPT !.cur = block]

Advance(s) ==
    LET drop == s.offs >= Len(s.prev)
        rest == IF drop THEN SubSeq(s.cur, s.offs - Len(s.prev) + 1, Len(s.cur)) ELSE s.cur
    IN  [s EXCEPT !.prev = IF drop THEN rest ELSE @ \o rest, !.cur = <<>>, !.offs = IF drop THEN 0 ELSE @]

Unused(s) == SubSeq(s.prev \o s.cur, s.offs + 1, Len(s.prev) + Len(s.cur))

-----------------------------------------------------------------------------
(* json_value_tree_stream_parser.  A token has a kind k, a text v and its    *)
(* length n; the reader takes one token from the stream at a time.           *)

CacheLimit == 2

Caches == <<"float", "uint", "int">>

StreamBegin ==
    [prev |-> <<>>, cur |-> <<>>, offs |-> 0, next |-> 1, out |-> <<Ev("begin", "", <<>>)>>, attrs |-> <<>>, lists |-> <<>>,
     cache |-> [c \in {"float", "uint", "int"} |-> <<>>], old |-> "none", flushed |-> FALSE, unparsed |-> FALSE,
     complete |-> FALSE, error |-> FALSE, more |-> TRUE]

Emit(s, ev) == [s EXCEPT !.out = Append(@, ev), !.flushed = FALSE]

\* A call to the visitor that does not clear _just_flushed.
Tell(s, ev) == [s EXCEPT !.out = Append(@, ev)]

FlushCache(s, c, type) ==
    IF (s.old # type /\ s.cache[c] # <<>>) \/ (s.old = c /\ Len(s.cache[c]) >= CacheLimit)
    THEN [Emit(s, Ev("consume", c, s.cache[c])) EXCEPT !.cache[c] = <<>>]
    ELSE s

FlushPrevious(s, type) ==
    [FoldLeft(LAMBDA r, c : FlushCache(r, c, type), s, Caches) EXCEPT !.old = type]

PushNumber(s, tok) ==
    IF s.lists = <<>> \/ ~Last(s.lists)
    THEN Emit(s, Ev("consume", tok.k, <<tok.v>>))
    ELSE LET f == FlushPrevious(s, tok.k) IN [f EXCEPT !.cache[tok.k] = Append(@, tok.v)]

OtherValue(s, tok) == Emit(FlushPrevious(s, "other"), Ev("consume", tok.k, <<tok.v>>))

StartObject(s) ==
    Tell([s EXCEPT !.attrs = Append(@, ""), !.lists = Append(@, FALSE)], Ev("begin_struct", "", <<>>))

FinishAttr(s) ==
    IF Last(s.attrs) # "" THEN Tell(s, Ev("finish_attribute", Last(s.attrs), <<>>)) ELSE s

Key(s, tok) ==
    Tell([FinishAttr(s) EXCEPT !.attrs[Len(s.attrs)] = tok.v], Ev("begin_attribute", tok.v, <<>>))

EndObject(s) ==
    LET f == FinishAttr(s)
    IN  Tell([f EXCEPT !.attrs = Front(@), !.lists = Front(@), !.unparsed = @ \/ Len(s.lists) = 1],
             Ev("finish_struct", "", <<>>))

StartArray(s) == Tell([s EXCEPT !.lists = Append(@, TRUE)], Ev("begin_list", "", <<>>))

EndArray(s) ==
    [Tell(FlushPrevious(s, "none"), Ev("finish_list", "", <<>>))
       EXCEPT !.lists = Front(@), !.unparsed = @ \/ Len(s.lists) = 1]

Handle(s, tok) ==
    CASE tok.k = "{" -> StartObject(s)
      [] tok.k = "}" -> EndObject(s)
      [] tok.k = "[" -> StartArray(s)
      [] tok.k = "]" -> EndArray(s)
      [] tok.k = "key" -> Key(s, tok)
      [] tok.k \in {"float", "uint", "int"} -> PushNumber(s, tok)
      [] OTHER -> OtherValue(s, tok)

\* IterativeParseNext: a token the stream does not hold to its end is an error.
ParseCurrent(s, doc) ==
    IF s.next > Len(doc) \/ Available(s) < doc[s.next].n
    THEN [s EXCEPT !.error = TRUE]
    ELSE LET h == Handle([s EXCEPT !.offs = @ + doc[s.next].n, !.next = @ + 1], doc[s.next])
         IN  [h EXCEPT !.complete = h.next > Len(doc)]

RECURSIVE ParseWhile(_, _, _)
ParseWhile(s, doc, least) ==
    IF Available(s) < least \/ s.error \/ s.complete THEN s ELSE ParseWhile(ParseCurrent(s, doc), doc, least)

Deliver(s, bytes) == Tell(s, Ev("unparsed_data", "", bytes))

TakeUnused(s) == [Deliver(s, Unused(s)) EXCEPT !.offs = Len(s.prev) + Len(s.cur), !.unparsed = TRUE]

ParseData(s, doc, least, block) ==
    IF s.unparsed
    THEN IF block # <<>> THEN Deliver(s, block) ELSE [s EXCEPT !.more = FALSE]
    ELSE LET p == ParseWhile(NextBlock(s, block), doc, least)
             u == IF p.complete THEN TakeUnused(p) ELSE p
             f == IF p.next > s.next /\ ~u.flushed THEN [Tell(u, Ev("flush", "", <<>>)) EXCEPT !.flushed = TRUE] ELSE u
         IN  IF p.complete /\ Unused(p) = <<>> THEN [p EXCEPT !.more = FALSE] ELSE Advance(f)

StreamFinish(s, doc) ==
    LET p == IF s.unparsed THEN s ELSE ParseWhile(s, doc, 0)
        u == IF ~s.unparsed /\ p.complete /\ Unused(p) # <<>> THEN TakeUnused(p) ELSE p
    IN  IF u.error THEN Tell(u, Ev("failed", "", <<>>))
        ELSE Tell(Tell(u, Ev("flush", "", <<>>)), Ev("finish", "", <<>>))

\* consume_data() of every block and finish() of the stream input.
StreamRun(doc, least, blocks) ==
    StreamFinish(FoldLeft(LAMBDA s, b : ParseData(s, doc, least, b), StreamBegin, blocks), doc)

-----------------------------------------------------------------------------
(* Visitors: the one that builds objects and the one that combines two.      *)

BuildBegin == [path |-> <<>>, on |-> TRUE, finished |-> FALSE, failed |-> FALSE, calls |-> <<>>]

Call(b, what, values) == [b EXCEPT !.calls = Append(@, [c |-> what, p |-> b.path, vs |-> values])]

LeaveEntry(b, name) ==
    IF b.path # <<>> /\ Last(b.path) = name THEN [b EXCEPT !.path = Front(@)] ELSE [b EXCEPT !.on = FALSE]

FailOnce(b) == IF b.failed THEN b ELSE [Call(b, "failed", <<>>) EXCEPT !.failed = TRUE]

BuildStep(b, ev) ==
    CASE ev.e = "begin" -> [Call(b, "begin", <<>>) EXCEPT !.path = <<>>, !.on = TRUE]
      [] ev.e = "consume" -> Call(b, "add", ev.vs)
      [] ev.e = "begin_struct" -> Call(b, "add_object", <<>>)
      [] ev.e = "finish_struct" -> Call(b, "finish_object", <<>>)
      [] ev.e = "begin_attribute" -> [b EXCEPT !.path = Append(@, ev.n)]
      [] ev.e = "finish_attribute" -> LeaveEntry(b, ev.n)
      [] ev.e = "begin_list" -> [b EXCEPT !.path = Append(@, "_")]
      [] ev.e = "finish_list" -> LeaveEntry(b, "_")
      [] ev.e = "unparsed_data" -> Call(b, "unparsed_data", ev.vs)
      [] ev.e = "finish" -> LET f == IF b.path # <<>> THEN FailOnce(b) ELSE b
                            IN  IF f.finished THEN f ELSE [Call(f, "finish", <<>>) EXCEPT !.finished = TRUE]
      [] ev.e = "failed" -> FailOnce(b)
      [] OTHER -> b

Build(calls) == FoldLeft(BuildStep, BuildBegin, calls)

\* combined_value_tree_visitor: every call goes to the left and then to the right.
Combined(left, right, calls) ==
    FoldLeft(LAMBDA lr, ev : <<BuildStep(lr[1], ev), BuildStep(lr[2], ev)>>, <<left, right>>, calls)

-----------------------------------------------------------------------------
(* valtree_deserializer_backend: the attributes entered and the errors.      *)

ReadBegin(t) == IF t = Missing THEN [at |-> <<>>, err |-> {"missing_member"}] ELSE [at |-> <<t>>, err |-> {}]

DoRead(r, count, type) ==
    IF r.at = <<>> THEN [got |-> <<>>, r |-> [r EXCEPT !.err = @ \cup {"backend_error"}]]
    ELSE LET got == FetchValues(Last(r.at), 0, count, type)
         IN  [got |-> got, r |-> IF Len(got) < count THEN [r EXCEPT !.err = @ \cup {"not_enough_data"}] ELSE r]

\* do_convert: read as the wider type, all of it, and narrowed.
DoConvert(r, count, wide, type) ==
    LET d == DoRead(r, count, wide)
        bad == {i \in DOMAIN d.got : FromString(d.got[i], type) = None}
    IN  IF Len(d.got) = count /\ bad # {} THEN [d EXCEPT !.r.err = @ \cup {"invalid_format"}] ELSE d

MembersCount(r) == IF r.at = <<>> THEN 0 ELSE NestedCount(Last(r.at))

BeginMember(r, name) ==
    IF r.at = <<>> THEN [r EXCEPT !.err = @ \cup {"backend_error"}]
    ELSE LET found == NestedNamed(Last(r.at), name).val
         IN  IF found = Missing THEN [r EXCEPT !.err = @ \cup {"missing_member"}] ELSE [r EXCEPT !.at = Append(@, found)]

FinishMember(r) == IF r.at = <<>> THEN [r EXCEPT !.err = @ \cup {"backend_error"}] ELSE [r EXCEPT !.at = Front(@)]

\* A struct of values of one type: what is read and what is left on the stack.
ReadStruct(t, names, type) ==
    FoldLeft(LAMBDA d, name :
               IF d.r.err # {} THEN d
               ELSE LET b == BeginMember(d.r, name)
                        g == DoRead(b, 1, type)
                    IN  IF b.err # {} THEN [d EXCEPT !.r = b]
                        ELSE [got |-> Append(d.got, g.got), r |-> FinishMember(g.r)],
             [got |-> <<>>,
              r |-> LET b == ReadBegin(t)
                    IN  CASE MembersCount(b) < Len(names) -> [b EXCEPT !.err = @ \cup {"missing_member"}]
                          [] MembersCount(b) > Len(names) -> [b EXCEPT !.err = @ \cup {"excess_member"}]
                          [] OTHER -> b], names)

-----------------------------------------------------------------------------
(* The laws of lookups, fetches, traversal, overlays and streams.            *)

\* Traversal visits every attribute below the root once, after its parent
\* and without what lies below a stop, under the path find() reaches it by.
TraversalLaws(t, stops) ==
    LET seen == Traverse(t, stops)
        Below(p) == \E q \in stops : IsStrictPrefix(q, p)
    IN  /\ {seen[i].path : i \in DOMAIN seen} = {p \in PathsOf(t) \ {<<>>} : ~Below(p)}
        /\ \A i, j \in DOMAIN seen : seen[i].path = seen[j].path => i = j
        /\ \A i, j \in DOMAIN seen : IsStrictPrefix(seen[i].path, seen[j].path) => i < j
        /\ \A i \in DOMAIN seen : Find(t, seen[i].path, <<>>).val = seen[i].val

\* A directory tree is searched like an object with the same names, tags too.
FsLaws(t, path, tags) ==
    LET found == FsFind(PathsOf(t), path, tags)
    IN  Find(t, path, tags).val = IF found = <<>> THEN Missing ELSE Find(t, found[1], <<>>).val

\* Values fetched piece by piece are the values fetched at once, and fit.
RECURSIVE Pieces(_, _, _, _)
Pieces(t, offset, room, type) ==
    LET got == FetchValues(t, offset, room, type)
    IN  IF Len(got) < room THEN got ELSE got \o Pieces(t, offset + room, room, type)

FetchLaws(t, room, type) ==
    /\ t.k = "arr" => Pieces(t, 0, room, type) = FetchValues(t, 0, Len(t.m), type)
    /\ \A i \in DOMAIN FetchValues(t, 0, room, type) :
         type \in DOMAIN Bits \ {"bool"} => FitsIn(FetchValues(t, 0, room, type)[i], type)
    /\ Len(FetchValues(t, 0, room, type)) <= ValueCount(t) + (IF t.k = "null" /\ type = "tribool" THEN 1 ELSE 0)
    /\ t.k = "str" => \A o \in 0..Len(t.v) : FetchChars(t, 0, o) \o FetchChars(t, o, Len(t.v)) = t.v

\* What a path leads to in an overlay is what its first tree with that path
\* has, and it is reached exactly when one of the trees has it.
OverlayLaws(overlays, t, path) ==
    /\ (OverlayReach(overlays, <<>>, path) # <<>>) <=> (path = <<>> \/ FindSource(overlays, path) # Missing)
    /\ \A n \in OverlayNames(overlays, path) : FindSource(overlays, Append(path, n)) # Missing
    /\ FindSource(AddOverlay(overlays, t), path)
         = IF Find(t, path, <<>>).val # Missing THEN Find(t, path, <<>>).val ELSE FindSource(overlays, path)

\* Asking a compound about what it does not have gives nothing; whichever
\* way an attribute is meant, what is fetched is what it has; a count of values
\* of a JSON or YAML array is what fetching their texts can return.
CompoundLaws(c, path, type) ==
    LET how == [by |-> "path", path |-> path]
        a == Meant(c, how)
    IN  /\ a = Missing => View(c, a) = NoView /\ Get(c, how, 0, type) = None /\ Url(c, how) = <<>>
        /\ Fetched(c, how, 0, 1, type) = Fetched(c, CompoundAttribute(a), 0, 1, type)
        /\ \A i \in 0..(View(c, StructureOf(c)).nested - 1) : NestedOf(c, StructureOf(c), [by |-> "index", index |-> i]) # Missing
        /\ NestedOf(c, StructureOf(c), [by |-> "index", index |-> View(c, StructureOf(c)).nested])
             = IF c.kind = "yaml" THEN Aborted ELSE Missing

\* The tokens of a tree, each with its length in the text.
RECURSIVE Tokens(_)
Tokens(t) ==
    LET Tok(k, v, n) == <<[k |-> k, v |-> v, n |-> n]>>
        Elem(i) == (IF t.k = "obj" THEN Tok("key", t.m[i].name, 3) ELSE <<>>) \o Tokens(t.m[i].val)
        Elems == FlattenSeq([i \in DOMAIN t.m |-> Elem(i)])
    IN  CASE t.k = "obj" -> Tok("{", "", 1) \o Elems \o Tok("}", "", 1)
          [] t.k = "arr" -> Tok("[", "", 1) \o Elems \o Tok("]", "", 1)
          [] t.k = "int" -> Tok(IF t.v = "-1" THEN "int" ELSE "uint", t.v, 2)
          [] t.k = "real" -> Tok("float", t.v, 3)
          [] OTHER -> Tok(t.k, t.v, 3)

\* The calls a tree stands for, without the kinds of its values.
RECURSIVE CallsOf(_)
CallsOf(t) ==
    LET Elem(i) ==
            IF t.k = "arr" THEN CallsOf(t.m[i].val)
            ELSE <<Ev("begin_attribute", t.m[i].name, <<>>)>> \o CallsOf(t.m[i].val) \o <<Ev("finish_attribute", t.m[i].name, <<>>)>>
        Elems == FlattenSeq([i \in DOMAIN t.m |-> Elem(i)])
    IN  CASE t.k = "obj" -> <<Ev("begin_struct", "", <<>>)>> \o Elems \o <<Ev("finish_struct", "", <<>>)>>
          [] t.k = "arr" -> <<Ev("begin_list", "", <<>>)>> \o Elems \o <<Ev("finish_list", "", <<>>)>>
          [] OTHER -> <<Ev("consume", "", <<t.v>>)>>

\* Without flushes and data left over, one call for each value, kinds removed.
Plainly(calls) ==
    FlattenSeq([i \in DOMAIN calls |->
      CASE calls[i].e \in {"begin", "finish", "flush", "unparsed_data"} -> <<>>
        [] calls[i].e = "consume" -> [j \in DOMAIN calls[i].vs |-> Ev("consume", "", <<calls[i].vs[j]>>)]
        [] OTHER -> <<calls[i]>>])

RECURSIVE MixesNumbers(_)
MixesNumbers(t) ==
    \/ t.k = "arr" /\ \E i, j \in DOMAIN t.m : t.m[i].val.k \in {"int", "real"} /\ Container(t.m[j].val)
    \/ \E i \in DOMAIN t.m : MixesNumbers(t.m[i].val)

\* However a document is cut into blocks, the visitor gets the calls of its
\* tree in order and, once, the bytes that follow it; the builder gets every
\* value under its path.  The document is an object or an array, and none of its
\* arrays mixes numbers and containers.
StreamLaws(t, blocks, least, extra) ==
    LET doc == Tokens(t)
        run == StreamRun(doc, least, blocks)
        left == SelectSeq(run.out, LAMBDA ev : ev.e = "unparsed_data")
        size == FoldLeft(LAMBDA a, tok : a + tok.n, 0, doc)
        b == Build(run.out)
    IN  Container(t) /\ ~MixesNumbers(t) =>
        /\ Plainly(run.out) = CallsOf(t)
        /\ run.out[1].e = "begin" /\ Last(run.out).e = "finish"
        /\ FlattenSeq([i \in DOMAIN left |-> left[i].vs]) = [i \in 1..extra |-> size + i]
        /\ b.path = <<>> /\ b.on /\ b.finished /\ ~b.failed
        /\ Combined(BuildBegin, BuildBegin, run.out) = <<b, b>>

RECURSIVE PlainTree(_)
PlainTree(t) ==
    /\ t.k \notin {"arr", "null"}
    /\ t.k = "obj" => t.m # <<>>
    /\ \A i \in DOMAIN t.m : PlainTree(t.m[i].val)

\* A document parsed into a tree and traversed makes the calls its stream makes.
BothWaysLaw(t) == PlainTree(t) => Plainly(TraverseCalls(t)) = CallsOf(t)

\* Reading a struct gives the members in the order asked for and leaves the
\* stack as it was; a missing or excess member is an error.
StructLaws(t, names, type) ==
    LET d == ReadStruct(t, names, type)
        Is(n) == FindMember(t, n).val
    IN  t.k = "obj" =>
        /\ d.r.at = <<t>>
        /\ (d.r.err = {}) <=> (/\ Len(t.m) = Len(names)
                               /\ \A i \in DOMAIN names : FetchValues(Is(names[i]), 0, 1, type) # <<>>)
        /\ d.r.err = {} => d.got = [i \in DOMAIN names |-> FetchValues(Is(names[i]), 0, 1, type)]

\* The login is written only in front of a domain, the password only after a login.
UrlLaws(t) ==
    LET parts == UrlParts(t)
        Has(n) == FetchValues(NestedNamed(t, n).val, 0, 1, "string") # <<>>
    IN  /\ (\E i \in DOMAIN parts : parts[i] = "@") <=> Has("domain") /\ Has("login")
        /\ Cardinality({i \in DOMAIN parts : parts[i] = "?"}) <= 1
=============================================================================
