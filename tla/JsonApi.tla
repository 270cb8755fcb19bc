------------------------------- MODULE JsonApi -------------------------------
(***************************************************************************)
(* libtulingApi/libjson.c as its callers see it: a client builds, edits,   *)
(* copies and deletes trees, any call may run out of memory, and texts     *)
(* arrive from the network to be parsed.  The client keeps to the rules a  *)
(* C caller has to: it makes no cycle, uses no node it gave away, and      *)
(* neither changes nor deletes what a reference still refers to.           *)
(***************************************************************************)
EXTENDS JsonText

CONSTANTS
  MaxLive,         \* nodes in use at the client's calls (bound)
  Names,           \* the names of members,
  ConstNames,      \*   and those the client keeps as constants
  Values,          \* what the client makes nodes of: tag, num, str, ref
  Failures,        \* the calls of malloc before the one that fails
  Docs,            \* texts the client parses into trees it goes on using
  Samples,         \* texts that arrive, whole or cut off, and are compared with one another
  TextTokens,      \* the tokens of other texts that arrive,
  TextLen,         \*   how many there are (bound),
  TreeLen,         \*   and up to how many what they denote is looked at, too (bound)
  Pieces,          \* the parts of a string that only gets converted,
  WordLen          \*   and how many there are (bound)

VARIABLES
  heap,
  roots,           \* the nodes the client holds and must delete
  lost,            \* nodes a call gave up without telling: nobody can delete them
  text,            \* a text that has arrived
  word             \* a string that has arrived, as a sequence of parts

vars == <<heap, roots, lost, text, word>>

Init ==
  /\ heap = EmptyHeap
  /\ roots = {} /\ lost = {}
  /\ text = <<>> /\ word = <<>>

\* The nodes deleted with i.
RECURSIVE Tree(_, _)
Tree(h, i) ==
  IF i = NIL THEN {}
  ELSE {i} \cup (IF h.node[i].ref THEN {}
                 ELSE UNION {Tree(h, c) : c \in ToSet(Children(h, i))})

\* The nodes that references held outside the set s reach.
Borrowed(s) ==
  UNION {UNION {Tree(heap, c) : c \in ToSet(Children(heap, i))} :
         i \in {j \in Live(heap) \ s : heap.node[j].ref}}

Own == UNION {Tree(heap, r) : r \in roots}
Kind(i, tag) == Is(heap, i, {tag}) /\ ~heap.node[i].ref
\* The containers that may be changed.
Containers(tag) == {i \in Own : Kind(i, tag) /\ Tree(heap, i) \cap Borrowed({}) = {}}
Arrays == Containers("Array")
Objects == Containers("Object")
\* Roots that can be given to the container a.
Gifts(a) == {r \in roots : a \notin Tree(heap, r)}

Room(n) == Cardinality(Live(heap)) + n <= MaxLive

\* The heap a call starts from: malloc may fail in it.
Starts == {[heap EXCEPT !.mem = m] : m \in Failures \cup {Plenty}}
Ends(h) == heap' = [h EXCEPT !.mem = Plenty]

Quiet == text = <<>> /\ word = <<>>

\* A new tree for the client, if the call made one.
Obtains(call) ==
  /\ Ends(call.h)
  /\ roots' = roots \cup ({call.r} \ {NIL})
  /\ UNCHANGED <<lost, text, word>>

-------------------------------------------------------------------------------
(* The client's calls *)

\* cJSON_Create<Type>
New(h, v) ==
  CASE v.tag = "Number" -> CreateNumber(h, v.num)
    [] v.tag = "String" /\ v.ref -> CreateStringReference(h, v.str)
    [] v.tag \in {"String", "Raw"} /\ ~v.ref -> CreateText(h, v.tag, v.str)
    [] v.tag \in {"True", "False"} -> CreateBool(h, v.tag = "True")
    [] OTHER -> Create(h, v.tag)

\* One node more than MaxLive, beside a flat array of strings: enough to insert or replace
\* between others.
Spare ==
  \E r \in roots :
    /\ Live(heap) = Tree(heap, r) /\ Is(heap, r, {"Array"})
    /\ \A i \in Tree(heap, r) \ {r} : Kind(i, "String") /\ heap.node[i].key = NoStr
    /\ Len(Children(heap, r)) = MaxLive - 1

NewValue ==
  /\ Quiet
  /\ \E h \in Starts, v \in Values :
       /\ Room(1) \/ (v.tag = "Array" /\ Spare)
       /\ Obtains(New(h, v))

NewArray ==
  /\ Quiet /\ Room(3)
  /\ \E h \in Starts, v \in {u \in Values : u.tag \in {"Number", "String"}} :
       Obtains(CreateArrayOf(h, <<v, v>>))

\* A reference to what is below a container.
NewReference ==
  /\ Quiet /\ Room(1)
  /\ \E i \in Arrays \cup Objects, h \in Starts :
       Obtains(CreateReference(h, heap.node[i].tag, heap.node[i].child))

\* A call that takes root r: added is whether it did.
Gives(r, added) ==
  /\ roots' = roots \ {r}
  /\ lost' = IF added THEN lost ELSE lost \cup {r}
  /\ UNCHANGED <<text, word>>

AddToArray ==
  /\ Quiet
  /\ \E a \in Arrays : \E i \in Gifts(a) :
       LET call == add_item_to_array(heap, a, i) IN Ends(call.h) /\ Gives(i, call.r)

\* Constant names are given while there is room for another node (bound).
AddToObject ==
  /\ Quiet
  /\ \E o \in Objects, name \in Names \cup {c \in ConstNames : Room(1)}, h \in Starts :
       \E i \in Gifts(o) :
         LET call == add_item_to_object(h, o, name, i, name \in ConstNames)
         IN  Ends(call.h) /\ Gives(i, call.r)

AddNew ==
  /\ Quiet /\ Room(1)
  /\ \E o \in Objects, name \in Names, h \in Starts, v \in Values :
       Ends(AddNewToObject(o, name, New(h, v)).h)
  /\ UNCHANGED <<roots, lost, text, word>>

\* The reference is lost when there is no memory for its name.
AddReference ==
  /\ Quiet /\ Room(1)
  /\ \E a \in Arrays \cup Objects, i \in Own, h \in Starts :
       /\ a \notin Tree(heap, i) /\ Is(heap, i, {"Array", "Object"})
       /\ \E name \in Names :
            LET after == IF Kind(a, "Array") THEN AddItemReferenceToArray(h, a, i)
                         ELSE AddItemReferenceToObject(h, a, name, i)
            IN  /\ Ends(after)
                /\ lost' = lost \cup (Live(after) \ (Live(h) \cup ToSet(Children(after, a))))
  /\ UNCHANGED <<roots, text, word>>

Detach ==
  /\ Quiet
  /\ \E a \in Arrays \cup Objects : \E i \in ToSet(Children(heap, a)) :
       Obtains(DetachItemViaPointer(heap, a, i))

\* cJSON_DetachItemFromObject and its case-sensitive form
DetachNamed ==
  /\ Quiet
  /\ \E o \in Objects, name \in Names \cup ConstNames, cs \in BOOLEAN :
       Obtains(DetachItemViaPointer(heap, o, get_object_item(heap, o, name, cs)))

\* cJSON_DeleteItemFromArray and cJSON_DeleteItemFromObject
DeleteItem ==
  /\ Quiet
  /\ \E a \in Arrays \cup Objects : \E i \in ToSet(Children(heap, a)) :
       /\ Tree(heap, i) \cap Borrowed(Tree(heap, i)) = {}
       /\ LET out == DetachItemViaPointer(heap, a, i) IN Ends(Delete(out.h, out.r))
  /\ UNCHANGED <<roots, lost, text, word>>

DeleteTree ==
  /\ Quiet
  /\ \E r \in roots :
       /\ Tree(heap, r) \cap Borrowed(Tree(heap, r)) = {}
       /\ Ends(Delete(heap, r))
       /\ roots' = roots \ {r}
  /\ UNCHANGED <<lost, text, word>>

Insert ==
  /\ Quiet
  /\ \E a \in Arrays, which \in 0..2 : \E i \in Gifts(a) :
       Ends(InsertItemInArray(heap, a, which, i)) /\ Gives(i, TRUE)

\* The replaced node must not be lent; the new one is lost if there was none to replace.
Replace ==
  /\ Quiet
  /\ \E a \in Arrays, which \in 0..2 : \E i \in Gifts(a) :
       LET old == get_array_item(heap, a, which)
           call == ReplaceItemViaPointer(heap, a, old, i)
       IN  /\ Tree(heap, old) \cap Borrowed(Tree(heap, old)) = {}
           /\ Ends(call.h) /\ Gives(i, call.r)

ReplaceNamed ==
  /\ Quiet
  /\ \E o \in Objects, name \in Names, cs \in BOOLEAN, h \in Starts : \E i \in Gifts(o) :
       LET old == get_object_item(heap, o, name, cs) IN
         /\ Tree(heap, old) \cap Borrowed(Tree(heap, old)) = {}
         /\ Ends(replace_item_in_object(h, o, name, i, cs).h)
         /\ Gives(i, old # NIL)

CopyTree ==
  /\ Quiet
  /\ \E i \in Own, recurse \in BOOLEAN, h \in Starts :
       /\ Room(IF recurse THEN Cardinality(Tree(heap, i)) ELSE 1)
       /\ ~heap.node[i].ref
       /\ Obtains(Duplicate(h, i, recurse))

ParseDoc ==
  LET Keeps(call) == Cardinality(Live(call.h)) <= MaxLive /\ Obtains(call)
  IN  Quiet /\ Room(1) /\ \E d \in Docs, h \in Starts : Keeps(Parse(h, d))

\* The samples, whole or cut off.
Arriving == UNION {{SubSeq(d, 1, n) : n \in DOMAIN d} : d \in Samples}

ReceiveText ==
  /\ Quiet /\ heap = EmptyHeap
  /\ text' \in Arriving \cup UNION {[1..n -> TextTokens] : n \in 1..TextLen}
  /\ UNCHANGED <<heap, roots, lost, word>>

ReceiveWord ==
  /\ Quiet /\ heap = EmptyHeap
  /\ word' \in UNION {[1..n -> Pieces] : n \in 1..WordLen}
  /\ UNCHANGED <<heap, roots, lost, text>>

Next ==
  \/ NewValue \/ NewArray \/ NewReference
  \/ AddToArray \/ AddToObject \/ AddNew \/ AddReference
  \/ Detach \/ DetachNamed \/ DeleteItem \/ DeleteTree
  \/ Insert \/ Replace \/ ReplaceNamed \/ CopyTree \/ ParseDoc
  \/ ReceiveText \/ ReceiveWord

Spec == Init /\ [][Next]_vars

-------------------------------------------------------------------------------
(* What the operations promise *)

\* The value a tree stands for; a name that is missing prints as an empty one.
RECURSIVE Value(_, _)
Value(h, i) ==
  LET n == h.node[i]
      c == Children(h, i)
      Name(s) == IF s = NoStr THEN <<>> ELSE s
  IN  [tag |-> n.tag, num |-> n.num, str |-> n.str,
       below |-> [k \in DOMAIN c |->
                   [name |-> IF n.tag = "Object" THEN Name(h.node[c[k]].key) ELSE <<>>,
                    value |-> Value(h, c[k])]]]

RECURSIVE Depth(_, _)
Depth(h, i) ==
  IF ~Is(h, i, {"Array", "Object"}) THEN 0
  ELSE LET c == Children(h, i) IN 1 + Max({0} \cup {Depth(h, c[k]) : k \in DOMAIN c})

\* JSON's own notion of equal values: arrays in order, objects in any order.
RECURSIVE Same(_, _)
Same(v, w) ==
  /\ v.tag = w.tag /\ v.num = w.num /\ v.str = w.str
  /\ Len(v.below) = Len(w.below)
  /\ \A k \in DOMAIN v.below :
       IF v.tag = "Array" THEN Same(v.below[k].value, w.below[k].value)
       ELSE \E m \in DOMAIN w.below :
              /\ v.below[k].name = w.below[m].name
              /\ Same(v.below[k].value, w.below[m].value)

\* Every object in the tree has names, and no two that differ in case alone.
Unambiguous(h, i) ==
  \A o \in {j \in Tree(h, i) : Is(h, j, {"Object"})} :
    LET c == Children(h, o) IN
      /\ \A k \in DOMAIN c : h.node[c[k]].key # NoStr
      /\ \A k, m \in DOMAIN c :
           Lower(h.node[c[k]].key) = Lower(h.node[c[m]].key) => k = m

Whole(h, i) == \A j \in Tree(h, i) : ~h.node[j].ref
Pure(h, i) == \A j \in Tree(h, i) : h.node[j].tag # "Raw"

\* The texts whose trees are looked at.
LookedAt == Len(text) \in 1..TreeLen \/ text \in Arriving

\* The trees there are to look at, each in its heap: what the text denotes, and a tree of the
\* client's when it is alone or refers to another one.
Trees ==
  LET p == Parse(EmptyHeap, text)
      Alone(r) == Live(heap) = Tree(heap, r)
  IN  IF LookedAt THEN {[h |-> p.h, r |-> i] : i \in {p.r} \ {NIL}}
      ELSE {[h |-> heap, r |-> r] : r \in {q \in roots : Alone(q) \/ ~Whole(heap, q)}}

\* How deeply the containers of a text are nested.
Nesting(t) ==
  LET Opened(s) == Len(SelectSeq(s, LAMBDA x : x.k \in {"[", "{"}))
                     - Len(SelectSeq(s, LAMBDA x : x.k \in {"]", "}"}))
  IN  Max({Opened(SubSeq(t, 1, n)) : n \in 0..Len(t)})

\* The values of at most TextLen tokens: the language of JSON over this alphabet.
Literals == {t \in TextTokens : t.k = "str" /\ Unescape(Append(t.v, Quote)).ok}
Atoms == {t \in TextTokens : t.k \in {"null", "false", "true", "num"}} \cup Literals

RECURSIVE ValuesOf(_), ListsOf(_), MembersOf(_)
ValuesOf(n) ==
  {<<t>> : t \in {u \in Atoms : n = 1}}
  \cup {<<P("[")>> \o l \o <<P("]")>> : l \in ListsOf(n - 2)}
  \cup {<<P("{")>> \o l \o <<P("}")>> : l \in MembersOf(n - 2)}
ListsOf(n) ==
  IF n < 0 THEN {} ELSE IF n = 0 THEN {<<>>}
  ELSE ValuesOf(n) \cup
       UNION {{v \o <<P(",")>> \o l : v \in ValuesOf(k), l \in ListsOf(n - k - 1)} :
              k \in 1..(n - 2)}
MembersOf(n) ==
  LET One(m) == {<<s, P(":")>> \o v : s \in Literals, v \in ValuesOf(m - 2)}
  IN  IF n < 0 THEN {} ELSE IF n = 0 THEN {<<>>}
      ELSE (IF n < 3 THEN {} ELSE One(n)) \cup
           UNION {{v \o <<P(",")>> \o l : v \in One(k), l \in MembersOf(n - k - 1)} :
                  k \in 3..(n - 4)}

JsonTexts == UNION {ValuesOf(n) : n \in 1..TextLen}

Strip(t) == SelectSeq(t, LAMBDA x : x.k # "ws")

-------------------------------------------------------------------------------
(* Properties *)

\* The chains a client walks are sound after any sequence of calls, also of calls that
\* ran out of memory half way: next and prev agree, a first child has no prev, nothing
\* freed is reached - and no freed block was ever touched.
TreesLinked ==
  /\ ~heap.bad
  /\ \A r \in roots \cup lost : heap.node[r].next = NIL /\ heap.node[r].prev = NIL
  /\ \A i \in Live(heap) :
       LET c == Children(heap, i) IN
         \A k \in DOMAIN c :
           /\ c[k] \in Live(heap)
           /\ heap.node[c[k]].prev = IF k = 1 THEN NIL ELSE c[k - 1]

\* Every node in use belongs to exactly one tree, of the client or lost, and every string
\* in use to exactly one node: what a call gives up half way is freed once, and all of it.
OwnedOnce ==
  /\ \A i \in Live(heap) :
       Cardinality({r \in roots \cup lost : i \in Tree(heap, r)}) = 1
  /\ heap.strs = MapThenSumSet(LAMBDA i : OwnStrings(heap.node[i]), Live(heap))

\* The heap is sound: chains and ownership.
TreesSound == TreesLinked /\ OwnedOnce

\* What is printed parses back to the same value, unless it is nested too deep: the trees
\* that print and the trees that parse are the same.
ReadBack(h, r, p) ==
  LET Reads(back) ==
        IF Depth(h, r) > NestingLimit THEN back.r = NIL
        ELSE back.r # NIL /\ Value(back.h, back.r) = Value(h, r)
  IN  Reads(ParseWithOpts(EmptyHeap, p.text, TRUE))

\* A buffer that may not grow is enough from one byte more than the text and its NUL take,
\* where the header advises five; one that may grow is always enough.
StaysInside(h, r, p) ==
  LET Fixed(q, enough) == ~q.bad /\ (q.ok <=> enough)
      Grown(q) == ~q.bad /\ q.ok /\ q.text = p.text
  IN  /\ Fixed(PrintPreallocated(h, r, p.end + 1, p.fmt), FALSE)
      /\ Fixed(PrintPreallocated(h, r, p.end + 2, p.fmt), TRUE)
      /\ Grown(PrintBuffered(h, r, 0, p.fmt))

\* Printing, formatted or not, writes its text from front to back, stays inside its buffer
\* whatever the size it starts with, and can be read back.
PrintingSound ==
  LET Sound(h, r, p) ==
        p.ok /\ ~p.bad /\ StaysInside(h, r, p) /\ (Pure(h, r) => ReadBack(h, r, p))
  IN  \A t \in Trees, fmt \in BOOLEAN : Sound(t.h, t.r, print(t.h, t.r, fmt))

\* cJSON_Compare decides equality of JSON values, between trees whose members can be told
\* apart by their names: any two trees of the client, and what any two texts denote.
CompareIsEquality ==
  LET Decides(h, r, s) == Compare(h, r, s, TRUE) <=> Same(Value(h, r), Value(h, s))
      Both(h, r, s) == s # NIL /\ (Unambiguous(h, r) => Decides(h, r, s) /\ Decides(h, s, r))
      WithSample(t, q) == Both(q.h, t.r, q.r)
  IN  /\ \A r, s \in {i \in roots : Unambiguous(heap, i)} : Decides(heap, r, s)
      /\ LookedAt => \A t \in Trees, d \in Samples : WithSample(t, Parse(t.h, d))

\* A copy is a tree of its own with the value of the original; a copy that runs out of
\* memory, wherever it does, leaves nothing behind.
CopyIsWholeOrNothing ==
  LET Holds(h, r, copy) ==
        /\ ~copy.h.bad
        /\ IF copy.r = NIL THEN [copy.h EXCEPT !.mem = h.mem] = h
           ELSE /\ Value(copy.h, copy.r) = Value(h, r)
                /\ Tree(copy.h, copy.r) \cap Live(h) = {} /\ Whole(copy.h, copy.r)
                /\ \A i \in Live(h) : copy.h.node[i] = h.node[i]
      From(h, r) == Holds(h, r, Duplicate(h, r, TRUE))
  IN  \A t \in Trees, m \in Failures \cup {Plenty} : From([t.h EXCEPT !.mem = m], t.r)

\* The parser accepts the texts of JSON that are not nested more deeply than its limit, and
\* no others, builds the value the text denotes, and reports an error at a place inside the
\* text.
ParserAcceptsJson ==
  LET Accepted(t) == t \in JsonTexts /\ Nesting(t) <= NestingLimit
      Prints(p, t) == p.ok /\ ~p.bad /\ Strip(p.text) = t
      PrintsPrefix(p, t) == p.ok /\ ~p.bad /\ IsPrefix(Strip(p.text), t)
      Strict(q, t) ==
        /\ q.r # NIL <=> Accepted(t)
        /\ q.r # NIL => Prints(print(q.h, q.r, FALSE), t)
        /\ q.end \in 0..Len(text)
      Loose(q, t) ==
        /\ q.r # NIL <=> \E k \in 1..Len(t) : Accepted(SubSeq(t, 1, k))
        /\ q.r # NIL => PrintsPrefix(print(q.h, q.r, FALSE), t)
        /\ q.end \in 0..Len(text)
  IN  (Len(text) \in 1..TextLen /\ ToSet(text) \subseteq TextTokens) =>
        /\ Strict(ParseWithOpts(EmptyHeap, text, TRUE), Strip(text))
        /\ Loose(Parse(EmptyHeap, text), Strip(text))

\* A parse that fails, for the text or for want of memory at any point of it, frees every
\* node and string it had made.
FailedParseLeavesNothing ==
  LET Holds(start, q) ==
        /\ ~q.h.bad
        /\ q.r = NIL => [q.h EXCEPT !.mem = start.mem] = start
      From(start) == Holds(start, ParseWithOpts(start, text, TRUE))
  IN  LookedAt =>
        \A m \in Failures \cup {Plenty} : From([EmptyHeap EXCEPT !.mem = m])

\* What takes several mallocs is done whole or undone whole.
AllOrNothing == CopyIsWholeOrNothing /\ FailedParseLeavesNothing

Bytes8(w) == FlattenSeq(w)

\* Every string is read back as it was written, and writing it takes the bytes that were
\* counted for it before.
EscapesRoundTrip ==
  LET s == CString(Bytes8(word)) IN
    /\ Len(Escape(s)) = Len(s) + EscapeCharacters(s)
    /\ Unescape(Append(Escape(s), Quote)) = [ok |-> TRUE, out |-> s]

\* The code point a UTF-8 sequence encodes.
CodePoint(u) ==
  LET n == Len(u)
      top == CASE n = 1 -> u[1] [] n = 2 -> u[1] - 192 [] n = 3 -> u[1] - 224 [] n = 4 -> u[1] - 240
  IN  FoldLeft(LAMBDA c, b : 64 * c + (b - 128), top, Tail(u))

\* What a literal is unescaped to fits the block that was allocated for it, and a \u escape
\* is turned into the UTF-8 bytes of its code point - of U+0000, if its digits are none.
UnescapedFits ==
  LET b == Append(Bytes8(word), Quote)
      u == utf16_literal_to_utf8(b, 1, InputEnd(b, 1))
  IN  /\ InputEnd(b, 1) # 0 => Len(Unescape(b).out) + 1 <= AllocationLength(b)
      /\ (word # <<>> /\ IsPrefix(<<Backslash, 117>>, b) /\ InputEnd(b, 1) # 0 /\ u.length = 6)
           => /\ CodePoint(u.out) = parse_hex4(SubSeq(b, 3, 6))
              /\ \A i \in 2..Len(u.out) : u.out[i] \in 128..191
      /\ (word # <<>> /\ IsPrefix(<<Backslash, 117>>, b) /\ InputEnd(b, 1) # 0 /\ u.length = 12)
           => CodePoint(u.out) = 65536 + (parse_hex4(SubSeq(b, 3, 6)) - 55296) * 1024
                                   + (parse_hex4(SubSeq(b, 9, 12)) - 56320)

\* Whether a literal or a comment is still open at the end of a text.  The star that opens a
\* comment may also be the one that closes it: three bytes are a whole one.
Open(b) ==
  LET After(state, c) ==
        CASE state = "in" -> (IF c = Quote THEN "out" ELSE IF c = Backslash THEN "esc" ELSE "in")
          [] state = "esc" -> "in"
          [] state = "line" -> (IF c = 10 THEN "out" ELSE "line")
          [] state = "block" -> (IF c = 42 THEN "star" ELSE "block")
          [] state = "star" -> (IF c = 47 THEN "out" ELSE IF c = 42 THEN "star" ELSE "block")
          [] state = "slash" /\ c = 47 -> "line"
          [] state = "slash" /\ c = 42 -> "star"
          [] OTHER -> (IF c = Quote THEN "in" ELSE IF c = 47 THEN "slash" ELSE "out")
  IN  FoldLeft(After, "out", b) \in {"in", "esc", "block", "star"}

\* Minify leaves string literals as they are and takes out what stands around them; it
\* reads past the end of the text if, and only if, a literal or a comment is still open there.
MinifyKeepsLiterals ==
  LET s == CString(Bytes8(word))
      literal == <<Quote>> \o Escape(s) \o <<Quote>>
      comment == <<47, 42, 32, 42, 47>>
  IN  /\ Minify(literal) = [out |-> literal, over |-> FALSE]
      /\ Minify(<<32>> \o literal \o comment \o literal)
           = [out |-> literal \o literal, over |-> FALSE]
      /\ Minify(s).over <=> Open(s)

\* A string comes through every conversion of the library.
StringsKept == word # <<>> => EscapesRoundTrip /\ UnescapedFits /\ MinifyKeepsLiterals

===============================================================================
