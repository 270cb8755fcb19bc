------------------------------- MODULE JsonText -------------------------------
(***************************************************************************)
(* libtulingApi/libjson.c, the texts: printing a tree into a buffer that   *)
(* grows, and parsing a text into a tree.  A text is a sequence of tokens, *)
(* of which the printer counts the bytes:                                  *)
(*   k  "[" "]" "{" "}" "," ":" "null" "false" "true", "num", "str"        *)
(*      (a literal and its quotes), "raw", "ws" (a byte up to 32)          *)
(*   v  the bytes between the quotes, of raw text or of white space        *)
(*   n  the number                                                         *)
(***************************************************************************)
EXTENDS JsonHeap

CONSTANTS
  NestingLimit,    \* CJSON_NESTING_LIMIT
  FirstBuffer      \* default_buffer_size of print

ASSUME LimitsAssumption == NestingLimit \in Nat /\ FirstBuffer \in Nat

P(k) == [k |-> k, v |-> <<>>, n |-> 0]
Num(n) == [P("num") EXCEPT !.n = n]
Str(v) == [P("str") EXCEPT !.v = v]
Raw(v) == [P("raw") EXCEPT !.v = v]
Ws(v) == [P("ws") EXCEPT !.v = v]

\* The bytes of an integer printed with %1.15g.
Digits(n) ==
  IF n < 0 THEN (IF n > -10 THEN 2 ELSE 3) ELSE (IF n < 10 THEN 1 ELSE 2)

Bytes(t) ==
  CASE t.k = "num" -> Digits(t.n)
    [] t.k = "str" -> Len(t.v) + 2
    [] t.k \in {"raw", "ws"} -> Len(t.v)
    [] t.k \in {"null", "true"} -> 4
    [] t.k = "false" -> 5
    [] OTHER -> 1

Width(ts) == FoldLeft(LAMBDA n, t : n + Bytes(t), 0, ts)

-------------------------------------------------------------------------------
(* The printbuffer: length, offset, depth, noalloc and fmt are its fields; mem as in *)
(* a heap; text is what was written so far and end where it ends, nul the place of   *)
(* the last NUL written, bad a write outside the buffer or not right after the text. *)

Buffer(length, noalloc, fmt, mem) ==
  [length |-> length, offset |-> 0, depth |-> 0, noalloc |-> noalloc, fmt |-> fmt,
   mem |-> mem, text |-> <<>>, end |-> 0, nul |-> -1, bad |-> FALSE, ok |-> TRUE]

Failed(p) == [p EXCEPT !.ok = FALSE]

\* Mutant: no byte kept for the NUL.
EnsureExact(p, needed) ==
  LET total == needed + p.offset IN
    IF ~p.ok \/ (p.length > 0 /\ p.offset >= p.length) THEN Failed(p)
    ELSE IF total <= p.length THEN p
    ELSE IF p.noalloc \/ p.mem = 0 THEN Failed(p)
    ELSE [p EXCEPT !.length = 2 * total, !.mem = @ - 1]

\* ensure; a buffer that cannot grow is freed and its length is 0.
Ensure(p, needed) ==
  LET total == needed + p.offset + 1 IN
    IF ~p.ok \/ (p.length > 0 /\ p.offset >= p.length) THEN Failed(p)
    ELSE IF total <= p.length THEN p
    ELSE IF p.noalloc \/ p.mem = 0 THEN Failed(p)
    ELSE [p EXCEPT !.length = 2 * total, !.mem = @ - 1]

\* ts written at the offset, with a NUL after it or not.
Write(p, ts, terminated) ==
  LET To(end) ==
        [p EXCEPT !.text = @ \o ts, !.end = end, !.nul = IF terminated THEN end ELSE @,
                  !.bad = @ \/ p.offset # p.end
                            \/ end + (IF terminated THEN 1 ELSE 0) > p.length]
  IN  IF p.ok THEN To(p.offset + Width(ts)) ELSE p

Advance(p, n) == IF p.ok THEN [p EXCEPT !.offset = @ + n] ELSE p

\* strlen from the offset on
update_offset(p) ==
  IF ~p.ok THEN p
  ELSE IF p.nul < p.offset THEN [p EXCEPT !.bad = TRUE]
  ELSE [p EXCEPT !.offset = p.nul]

Tabs(n) == IF n = 0 THEN <<>> ELSE <<Ws([i \in 1..n |-> 9])>>

\* needed is the argument of ensure; then ts is written with its NUL.
Put(p, needed, ts) == Write(Ensure(p, needed), ts, TRUE)

\* The same, and the offset moves behind ts; or ts is written without a NUL.
PutOver(p, needed, ts) == Advance(Put(p, needed, ts), Width(ts))
PutBare(p, needed, ts) == Advance(Write(Ensure(p, needed), ts, FALSE), Width(ts))

print_number(p, n) == PutOver(p, Digits(n) + 1, <<Num(n)>>)

print_string_ptr(p, s) ==
  IF s = NoStr THEN Put(p, 3, <<Str(<<>>)>>)
  ELSE Put(p, Len(s) + EscapeCharacters(s) + 3, <<Str(Escape(s))>>)

RECURSIVE print_value(_, _, _), print_elements(_, _, _), print_members(_, _, _)

\* The loop of print_array, from element i on.
print_elements(h, i, p) ==
  LET Separate(q) ==
        PutOver(q, IF q.fmt THEN 3 ELSE 2, <<P(",")>> \o IF q.fmt THEN <<Ws(<<32>>)>> ELSE <<>>)
      Go(q, next) == IF next = NIL THEN q ELSE print_elements(h, next, Separate(q))
  IN  IF i = NIL THEN p ELSE Go(update_offset(print_value(h, i, p)), h.node[i].next)

\* The loop of print_object, from member i on.
print_members(h, i, p) ==
  LET Indent(q) == IF q.fmt THEN PutBare(q, q.depth, Tabs(q.depth)) ELSE q
      Name(q) == update_offset(print_string_ptr(q, h.node[i].key))
      Colon(q) == PutBare(q, IF q.fmt THEN 2 ELSE 1, <<P(":")>> \o IF q.fmt THEN <<Ws(<<9>>)>> ELSE <<>>)
      Member(q) == update_offset(print_value(h, i, q))
      Close(q, end) == PutOver(q, Len(end) + 1, end)
      End == (IF h.node[i].next = NIL THEN <<>> ELSE <<P(",")>>)
             \o (IF p.fmt THEN <<Ws(<<10>>)>> ELSE <<>>)
  IN  IF i = NIL THEN p
      ELSE print_members(h, h.node[i].next, Close(Member(Colon(Name(Indent(p)))), End))

print_array(h, i, p) ==
  LET Inside(q) == print_elements(h, h.node[i].child, [q EXCEPT !.depth = @ + 1])
  IN  [Put(Inside(PutBare(p, 1, <<P("[")>>)), 2, <<P("]")>>) EXCEPT !.depth = @ - 1]

print_object(h, i, p) ==
  LET Open(q) == IF q.fmt THEN PutBare(q, 3, <<P("{"), Ws(<<10>>)>>) ELSE PutBare(q, 2, <<P("{")>>)
      Inside(q) == print_members(h, h.node[i].child, [q EXCEPT !.depth = @ + 1])
      Close(q) == IF q.fmt THEN Put(q, q.depth + 1, Append(Tabs(q.depth - 1), P("}")))
                  ELSE Put(q, 2, <<P("}")>>)
  IN  [Close(Inside(Open(p))) EXCEPT !.depth = @ - 1]

print_value(h, i, p) ==
  LET n == h.node[i] IN
    IF i = NIL \/ ~p.ok THEN Failed(p)
    ELSE CASE n.tag = "NULL" -> Put(p, 5, <<P("null")>>)
           [] n.tag = "False" -> Put(p, 6, <<P("false")>>)
           [] n.tag = "True" -> Put(p, 5, <<P("true")>>)
           [] n.tag = "Number" -> print_number(p, n.num)
           [] n.tag = "Raw" /\ n.str # NoStr -> Put(p, Len(n.str) + 1, <<Raw(n.str)>>)
           [] n.tag = "String" -> print_string_ptr(p, n.str)
           [] n.tag = "Array" -> print_array(h, i, p)
           [] n.tag = "Object" -> print_object(h, i, p)
           [] OTHER -> Failed(p)

\* cJSON_Print and cJSON_PrintUnformatted: the buffer, then a block of the right size.
print(h, i, fmt) ==
  LET Trim(p) == IF h.mem = 0 \/ p.mem = 0 THEN Failed(p) ELSE p
  IN  Trim(update_offset(print_value(h, i, Buffer(FirstBuffer, FALSE, fmt, h.mem - 1))))

PrintBuffered(h, i, prebuffer, fmt) ==
  IF h.mem = 0 THEN Failed(Buffer(prebuffer, FALSE, fmt, 0))
  ELSE print_value(h, i, Buffer(prebuffer, FALSE, fmt, h.mem - 1))

PrintPreallocated(h, i, len, fmt) == print_value(h, i, Buffer(len, TRUE, fmt, 0))

-------------------------------------------------------------------------------
(* Parsing.  b is the parse_buffer: content ends with the NUL of the text, offset *)
(* counts from 0.  A parse function returns the heap, the buffer and its verdict. *)

ParseBuffer(text) == [content |-> Append(text, P("NUL")), offset |-> 0, depth |-> 0]

\* can_access_at_index(buffer, 0) and the kind found there
At(b, k) == b.offset < Len(b.content) /\ b.content[b.offset + 1].k = k
Token(b) == b.content[b.offset + 1]
Step(b, n) == [b EXCEPT !.offset = @ + n]

\* Mutant: no step back from the end of the buffer.
RECURSIVE SkipWithoutStepBack(_)
SkipWithoutStepBack(b) ==
  IF At(b, "ws") \/ At(b, "NUL") THEN SkipWithoutStepBack(Step(b, 1)) ELSE b

\* Every byte up to 32 counts as white space, the NUL too; then one step back.
RECURSIVE skip_whitespace(_)
skip_whitespace(b) ==
  IF At(b, "ws") \/ At(b, "NUL") THEN skip_whitespace(Step(b, 1))
  ELSE IF b.offset = Len(b.content) THEN Step(b, -1)
  ELSE b

Yes(h, b) == [h |-> h, b |-> b, ok |-> TRUE]
No(h, b) == [h |-> h, b |-> b, ok |-> FALSE]

\* Only the first bytes of a number that strtod can read are consumed: a token.
parse_number(h, i, b) ==
  Yes([h EXCEPT !.node[i].tag = "Number", !.node[i].num = Token(b).n,
                !.node[i].int = Saturate(Token(b).n)], Step(b, 1))

\* A literal that cannot be unescaped is refused after its block has been freed again.
parse_string(h, i, b) ==
  LET Store(read) ==
        IF h.mem = 0 \/ ~read.ok THEN No(h, b)
        ELSE Yes([h EXCEPT !.mem = @ - 1, !.strs = @ + 1, !.node[i].tag = "String",
                           !.node[i].str = CString(read.out)], Step(b, 1))
  IN  IF ~At(b, "str") THEN No(h, Step(b, 1)) ELSE Store(Unescape(Append(Token(b).v, Quote)))

RECURSIVE parse_value(_, _, _), parse_list(_, _, _, _, _)

\* The name of a member: parsed like a value, then moved to string; and the colon.
parse_name(h, i, b) ==
  LET Move(g) == [g EXCEPT !.node[i].key = g.node[i].str, !.node[i].str = NoStr]
      Colon(g, c) == IF At(c, ":") THEN Yes(g, Step(c, 1)) ELSE No(g, c)
      Named(q) == IF q.ok THEN Colon(Move(q.h), skip_whitespace(q.b)) ELSE q
  IN  Named(parse_string(h, i, skip_whitespace(b)))

\* The loop of parse_array and of parse_object: b stands before the next element, the
\* ones parsed so far are chained from head to last.  On failure all are deleted.
parse_list(h, head, last, b, object) ==
  LET First(new) == IF head = NIL THEN new ELSE head
      Fail(q, first) == No(Delete(q.h, first), q.b) @@ [head |-> NIL]
      Go(q, new) ==
        IF At(q.b, ",") THEN parse_list(q.h, First(new), new, q.b, object)
        ELSE IF At(q.b, IF object THEN "}" ELSE "]") THEN q @@ [head |-> First(new)]
        ELSE Fail(q, First(new))
      Valued(q, new) ==
        IF q.ok THEN Go(Yes(q.h, skip_whitespace(q.b)), new) ELSE Fail(q, First(new))
      Named(q, new) ==
        IF q.ok THEN Valued(parse_value(q.h, new, skip_whitespace(q.b)), new)
        ELSE Fail(q, First(new))
      Linked(g, new) ==
        Named(IF object THEN parse_name(g, new, Step(b, 1)) ELSE Yes(g, Step(b, 1)), new)
      Begin(new) ==
        IF new.r = NIL THEN Fail(No(h, b), head)
        ELSE Linked(IF last = NIL THEN new.h ELSE Link(new.h, last, new.r), new.r)
  IN  Begin(New_Item(h))

\* parse_array and parse_object
parse_container(h, i, b, object) ==
  LET Closed(q) ==
        IF ~q.ok THEN No(q.h, q.b)
        ELSE Yes([q.h EXCEPT !.node[i].tag = IF object THEN "Object" ELSE "Array",
                             !.node[i].child = q.head],
                 [q.b EXCEPT !.depth = @ - 1, !.offset = @ + 1])
      Inside(c) ==
        IF At(c, IF object THEN "}" ELSE "]") THEN Yes(h, c) @@ [head |-> NIL]
        ELSE parse_list(h, NIL, NIL, Step(c, -1), object)
  IN  IF b.depth >= NestingLimit THEN No(h, b)
      ELSE Closed(Inside(skip_whitespace(Step([b EXCEPT !.depth = @ + 1], 1))))

parse_value(h, i, b) ==
  IF At(b, "null") THEN Yes([h EXCEPT !.node[i].tag = "NULL"], Step(b, 1))
  ELSE IF At(b, "false") THEN Yes([h EXCEPT !.node[i].tag = "False"], Step(b, 1))
  ELSE IF At(b, "true")
  THEN Yes([h EXCEPT !.node[i].tag = "True", !.node[i].int = 1], Step(b, 1))
  ELSE IF At(b, "str") THEN parse_string(h, i, b)
  ELSE IF At(b, "num") THEN parse_number(h, i, b)
  ELSE IF At(b, "[") \/ At(b, "{") THEN parse_container(h, i, b, At(b, "{"))
  ELSE No(h, b)

\* end is where the parse ended, or the position of the error.
ParseWithOpts(h, text, requireNul) ==
  LET End(root, q) ==
        IF q.ok /\ (requireNul => At(q.b, "NUL"))
        THEN [h |-> q.h, r |-> root, end |-> q.b.offset]
        ELSE [h |-> Delete(q.h, root), r |-> NIL,
              end |-> IF q.b.offset < Len(text) + 1 THEN q.b.offset ELSE Len(text)]
      Rest(q) == IF requireNul /\ q.ok THEN [q EXCEPT !.b = skip_whitespace(@)] ELSE q
      Begin(root) ==
        IF root.r = NIL THEN [h |-> h, r |-> NIL, end |-> 0]
        ELSE End(root.r, Rest(parse_value(root.h, root.r, skip_whitespace(ParseBuffer(text)))))
  IN  Begin(New_Item(h))

Parse(h, text) == ParseWithOpts(h, text, FALSE)

===============================================================================
