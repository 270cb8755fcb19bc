------------------------------- MODULE JsonHeap -------------------------------
(***************************************************************************)
(* libtulingApi/libjson.c, the trees: cJSON nodes on the heap, chained     *)
(* through next and prev below the child of their parent.  An operation    *)
(* takes the heap and returns the heap it leaves, with its result where it *)
(* has one.  A heap is a record:                                           *)
(*   node  the cJSON blocks; NIL is the null pointer                       *)
(*   mem   how many more calls of malloc succeed                           *)
(*   strs  how many malloc'd strings are in use                            *)
(*   bad   a freed block was used, or a null pointer followed              *)
(* Strings are sequences of bytes, NoStr the null pointer.                 *)
(***************************************************************************)
EXTENDS JsonStrings, FiniteSets

CONSTANTS
  Size,            \* the cJSON blocks there can be
  MaxInt           \* INT_MAX; INT_MIN is its negative

ASSUME SizeAssumption == Size \in Nat \ {0} /\ MaxInt \in Nat

NIL == 0
NoStr == <<-1>>
Plenty == 1000     \* malloc does not fail

Blank ==
  [tag |-> "Invalid", ref |-> FALSE, ckey |-> FALSE, key |-> NoStr, str |-> NoStr,
   num |-> 0, int |-> 0, next |-> NIL, prev |-> NIL, child |-> NIL]
Free == [Blank EXCEPT !.tag = "free"]

EmptyHeap ==
  [node |-> [i \in 1..Size |-> Free], mem |-> Plenty, strs |-> 0, bad |-> FALSE]

Live(h) == {i \in 1..Size : h.node[i].tag # "free"}

\* The nodes from i on along next.
RECURSIVE Chain(_, _)
Chain(h, i) == IF i = NIL THEN <<>> ELSE <<i>> \o Chain(h, h.node[i].next)

Children(h, i) == Chain(h, h.node[i].child)

\* cJSON_Is<Type>; cJSON_IsBool has two types.
Is(h, i, types) == i # NIL /\ h.node[i].tag \in types

-------------------------------------------------------------------------------
(* Blocks *)

Strdup(h, s) ==
  IF s = NoStr \/ h.mem = 0 THEN [h |-> h, r |-> NoStr]
  ELSE [h |-> [h EXCEPT !.mem = @ - 1, !.strs = @ + 1], r |-> s]

New_Item(h) ==
  IF h.mem = 0 \/ Live(h) = 1..Size THEN [h |-> h, r |-> NIL]
  ELSE LET i == Min((1..Size) \ Live(h))
       IN  [h |-> [h EXCEPT !.node[i] = Blank, !.mem = @ - 1], r |-> i]

\* The strings a node owns.
OwnStrings(n) ==
  (IF ~n.ref /\ n.str # NoStr THEN 1 ELSE 0) + (IF ~n.ckey /\ n.key # NoStr THEN 1 ELSE 0)

\* cJSON_Delete: the node, what it owns below it, and all that follows it.
RECURSIVE Delete(_, _)
Delete(h, i) ==
  IF i = NIL THEN h
  ELSE IF h.node[i].tag = "free" THEN [h EXCEPT !.bad = TRUE]
  ELSE LET n == h.node[i]
           below == IF n.ref THEN h ELSE Delete(h, n.child)
       IN  Delete([below EXCEPT !.node[i] = Free, !.strs = @ - OwnStrings(n)], n.next)

\* valueint follows valuedouble up to the limits of an int.
Saturate(n) == IF n >= MaxInt THEN MaxInt ELSE IF n <= -MaxInt THEN -MaxInt ELSE n

-------------------------------------------------------------------------------
(* cJSON_Create...: a node, or NIL and nothing left behind *)

Create(h, tag) ==
  LET new == New_Item(h) IN
    IF new.r = NIL THEN new ELSE [new EXCEPT !.h.node[new.r].tag = tag]

CreateBool(h, b) == Create(h, IF b THEN "True" ELSE "False")

CreateNumber(h, n) ==
  LET new == Create(h, "Number") IN
    IF new.r = NIL THEN new
    ELSE [new EXCEPT !.h.node[new.r].num = n, !.h.node[new.r].int = Saturate(n)]

\* cJSON_CreateString and cJSON_CreateRaw
CreateText(h, tag, s) ==
  LET new == Create(h, tag)
      copy == Strdup(new.h, s)
  IN  IF new.r = NIL THEN new
      ELSE IF copy.r = NoStr THEN [h |-> Delete(new.h, new.r), r |-> NIL]
      ELSE [h |-> [copy.h EXCEPT !.node[new.r].str = copy.r], r |-> new.r]

CreateStringReference(h, s) ==
  LET new == Create(h, "String") IN
    IF new.r = NIL THEN new
    ELSE [new EXCEPT !.h.node[new.r].ref = TRUE, !.h.node[new.r].str = s]

\* cJSON_CreateObjectReference and cJSON_CreateArrayReference
CreateReference(h, tag, child) ==
  LET new == Create(h, tag) IN
    IF new.r = NIL THEN new
    ELSE [new EXCEPT !.h.node[new.r].ref = TRUE, !.h.node[new.r].child = child]

Link(h, i, j) == [h EXCEPT !.node[i].next = j, !.node[j].prev = i]

\* The loop of cJSON_CreateIntArray, ...FloatArray, ...DoubleArray and ...StringArray:
\* the values from k on are added to array a after node p.
RECURSIVE Fill(_, _, _, _, _)
Fill(h, a, values, k, p) ==
  IF k > Len(values) THEN [h |-> h, r |-> a]
  ELSE LET v == values[k]
           new == IF v.tag = "Number" THEN CreateNumber(h, v.num)
                  ELSE CreateText(h, "String", v.str)
       IN  IF new.r = NIL THEN [h |-> Delete(new.h, a), r |-> NIL]
           ELSE Fill(IF k = 1 THEN [new.h EXCEPT !.node[a].child = new.r]
                     ELSE Link(new.h, p, new.r),
                     a, values, k + 1, new.r)

CreateArrayOf(h, values) ==
  LET a == Create(h, "Array") IN IF a.r = NIL THEN a ELSE Fill(a.h, a.r, values, 1, NIL)

-------------------------------------------------------------------------------
(* Looking into arrays and objects *)

GetArraySize(h, a) == IF a = NIL THEN 0 ELSE Len(Children(h, a))

get_array_item(h, a, index) ==
  IF a = NIL \/ index >= Len(Children(h, a)) THEN NIL ELSE Children(h, a)[index + 1]

\* A node without a name ends a search that respects case, and none that does not.
get_object_item(h, o, name, caseSensitive) ==
  LET c == IF o = NIL THEN <<>> ELSE Children(h, o)
      Stops(i) ==
        LET key == h.node[c[i]].key IN
          IF caseSensitive THEN key = NoStr \/ key = name
          ELSE key # NoStr /\ Lower(key) = Lower(name)
      stops == {i \in DOMAIN c : Stops(i)}
  IN  IF name = NoStr \/ stops = {} \/ h.node[c[Min(stops)]].key = NoStr THEN NIL
      ELSE c[Min(stops)]

-------------------------------------------------------------------------------
(* Putting nodes together *)

add_item_to_array(h, a, i) ==
  IF a = NIL \/ i = NIL THEN [h |-> h, r |-> FALSE]
  ELSE [r |-> TRUE,
        h |-> IF h.node[a].child = NIL THEN [h EXCEPT !.node[a].child = i]
              ELSE Link(h, Last(Children(h, a)), i)]

add_item_to_object(h, o, name, i, constantKey) ==
  LET copy == IF constantKey THEN [h |-> h, r |-> name] ELSE Strdup(h, name)
      freed == IF ~h.node[i].ckey /\ h.node[i].key # NoStr THEN 1 ELSE 0
  IN  IF o = NIL \/ name = NoStr \/ i = NIL \/ copy.r = NoStr THEN [h |-> h, r |-> FALSE]
      ELSE add_item_to_array(
             [copy.h EXCEPT !.node[i].key = name, !.node[i].ckey = constantKey,
                            !.strs = @ - freed], o, i)

create_reference(h, i) ==
  LET new == New_Item(h) IN
    IF i = NIL \/ new.r = NIL THEN [h |-> h, r |-> NIL]
    ELSE [new EXCEPT !.h.node[new.r] =
           [h.node[i] EXCEPT !.ref = TRUE, !.key = NoStr, !.next = NIL, !.prev = NIL]]

AddItemReferenceToArray(h, a, i) ==
  IF a = NIL THEN h
  ELSE LET ref == create_reference(h, i) IN add_item_to_array(ref.h, a, ref.r).h

AddItemReferenceToObject(h, o, name, i) ==
  IF o = NIL \/ name = NoStr THEN h
  ELSE LET ref == create_reference(h, i) IN
         IF ref.r = NIL THEN ref.h ELSE add_item_to_object(ref.h, o, name, ref.r, FALSE).h

\* cJSON_Add<Type>ToObject: new is what the constructor returned.
AddNewToObject(o, name, new) ==
  IF new.r = NIL THEN [h |-> new.h, r |-> NIL]
  ELSE LET added == add_item_to_object(new.h, o, name, new.r, FALSE) IN
         IF added.r THEN [h |-> added.h, r |-> new.r]
         ELSE [h |-> Delete(added.h, new.r), r |-> NIL]

-------------------------------------------------------------------------------
(* Taking nodes apart *)

DetachItemViaPointer(h, parent, i) ==
  IF parent = NIL \/ i = NIL THEN [h |-> h, r |-> NIL]
  ELSE LET n == h.node[i]
           before == IF n.prev = NIL THEN h ELSE [h EXCEPT !.node[n.prev].next = n.next]
           after == IF n.next = NIL THEN before ELSE [before EXCEPT !.node[n.next].prev = n.prev]
           above == IF after.node[parent].child # i THEN after
                    ELSE [after EXCEPT !.node[parent].child = n.next]
       IN  [h |-> [above EXCEPT !.node[i].prev = NIL, !.node[i].next = NIL], r |-> i]

\* newitem is followed without a check when there is a node at that place.
InsertItemInArray(h, a, which, i) ==
  LET after == get_array_item(h, a, which)
      prev == h.node[after].prev
  IN  IF after = NIL THEN add_item_to_array(h, a, i).h
      ELSE IF i = NIL THEN [h EXCEPT !.bad = TRUE]
      ELSE LET linked == [h EXCEPT !.node[i].next = after, !.node[i].prev = prev,
                                   !.node[after].prev = i]
           IN  IF h.node[a].child = after THEN [linked EXCEPT !.node[a].child = i]
               ELSE [linked EXCEPT !.node[prev].next = i]

\* Mutant: the node after the replaced one keeps its prev.
ReplaceForwardOnly(h, parent, i, new) ==
  IF parent = NIL \/ new = NIL \/ i = NIL THEN [h |-> h, r |-> FALSE]
  ELSE IF new = i THEN [h |-> h, r |-> TRUE]
  ELSE LET n == h.node[i]
           here == [h EXCEPT !.node[new].next = n.next, !.node[new].prev = n.prev]
           before == IF n.prev = NIL THEN here ELSE [here EXCEPT !.node[n.prev].next = new]
           above == IF before.node[parent].child # i THEN before
                    ELSE [before EXCEPT !.node[parent].child = new]
       IN  [h |-> Delete([above EXCEPT !.node[i].next = NIL, !.node[i].prev = NIL], i),
            r |-> TRUE]

ReplaceItemViaPointer(h, parent, i, new) ==
  IF parent = NIL \/ new = NIL \/ i = NIL THEN [h |-> h, r |-> FALSE]
  ELSE IF new = i THEN [h |-> h, r |-> TRUE]
  ELSE LET n == h.node[i]
           here == [h EXCEPT !.node[new].next = n.next, !.node[new].prev = n.prev]
           after == IF n.next = NIL THEN here ELSE [here EXCEPT !.node[n.next].prev = new]
           before == IF n.prev = NIL THEN after ELSE [after EXCEPT !.node[n.prev].next = new]
           above == IF before.node[parent].child # i THEN before
                    ELSE [before EXCEPT !.node[parent].child = new]
       IN  [h |-> Delete([above EXCEPT !.node[i].next = NIL, !.node[i].prev = NIL], i),
            r |-> TRUE]

\* The new node takes the name first, and stays outside when there is none to replace.
replace_item_in_object(h, o, name, new, caseSensitive) ==
  IF new = NIL \/ name = NoStr THEN [h |-> h, r |-> FALSE]
  ELSE LET freed == IF ~h.node[new].ckey /\ h.node[new].key # NoStr THEN 1 ELSE 0
           copy == Strdup([h EXCEPT !.strs = @ - freed], name)
           named == [copy.h EXCEPT !.node[new].key = copy.r, !.node[new].ckey = FALSE]
       IN  [h |-> ReplaceItemViaPointer(named, o,
                    get_object_item(named, o, name, caseSensitive), new).h,
            r |-> TRUE]

-------------------------------------------------------------------------------
(* cJSON_Duplicate *)

RECURSIVE Duplicate(_, _, _), DuplicateChain(_, _, _, _)

Duplicate(h, i, recurse) ==
  IF i = NIL THEN [h |-> h, r |-> NIL]
  ELSE LET new == New_Item(h)
           n == h.node[i]
           str == Strdup(new.h, n.str)
           plain == [str.h EXCEPT !.node[new.r] =
                      [Blank EXCEPT !.tag = n.tag, !.ckey = n.ckey, !.num = n.num,
                                    !.int = n.int, !.str = str.r]]
           key == IF n.ckey THEN [h |-> plain, r |-> n.key] ELSE Strdup(plain, n.key)
           named == [key.h EXCEPT !.node[new.r].key = key.r]
       IN  IF new.r = NIL THEN new
           ELSE IF n.str # NoStr /\ str.r = NoStr THEN [h |-> Delete(plain, new.r), r |-> NIL]
           ELSE IF n.key # NoStr /\ key.r = NoStr THEN [h |-> Delete(named, new.r), r |-> NIL]
           ELSE IF ~recurse THEN [h |-> named, r |-> new.r]
           ELSE DuplicateChain(named, new.r, NIL, n.child)

\* Mutant: the children copied so far are left behind when one cannot be.
DuplicateChainLeaks(h, new, p, c) ==
  IF c = NIL THEN [h |-> h, r |-> new]
  ELSE LET copy == Duplicate(h, c, TRUE) IN
         IF copy.r = NIL THEN [h |-> copy.h, r |-> NIL]
         ELSE DuplicateChain(IF p = NIL THEN [copy.h EXCEPT !.node[new].child = copy.r]
                             ELSE Link(copy.h, p, copy.r),
                             new, copy.r, h.node[c].next)

\* The children from c on are copied below new, after node p.
DuplicateChain(h, new, p, c) ==
  IF c = NIL THEN [h |-> h, r |-> new]
  ELSE LET copy == Duplicate(h, c, TRUE) IN
         IF copy.r = NIL THEN [h |-> Delete(copy.h, new), r |-> NIL]
         ELSE DuplicateChain(IF p = NIL THEN [copy.h EXCEPT !.node[new].child = copy.r]
                             ELSE Link(copy.h, p, copy.r),
                             new, copy.r, h.node[c].next)

-------------------------------------------------------------------------------
(* cJSON_Compare *)

\* Mutant: the members of b looked up in a not compared again.
RECURSIVE CompareOneWay(_, _, _, _)
CompareOneWay(h, a, b, cs) ==
  LET m == h.node[a]
      n == h.node[b]
      ca == Children(h, a)
      cb == Children(h, b)
  IN  /\ a # NIL /\ b # NIL /\ m.tag = n.tag /\ m.tag # "Invalid"
      /\ \/ a = b
         \/ m.tag \in {"False", "True", "NULL"}
         \/ m.tag = "Number" /\ m.num = n.num
         \/ m.tag \in {"String", "Raw"} /\ m.str = n.str /\ m.str # NoStr
         \/ /\ m.tag = "Array" /\ Len(ca) = Len(cb)
            /\ \A i \in DOMAIN ca : CompareOneWay(h, ca[i], cb[i], cs)
         \/ /\ m.tag = "Object"
            /\ \A i \in DOMAIN ca :
                 CompareOneWay(h, ca[i], get_object_item(h, b, h.node[ca[i]].key, cs), cs)

RECURSIVE Compare(_, _, _, _)
Compare(h, a, b, cs) ==
  LET m == h.node[a]
      n == h.node[b]
      ca == Children(h, a)
      cb == Children(h, b)
      \* every member of x has one of its name in y, and equal to it
      Within(x, c, y) ==
        \A i \in DOMAIN c : Compare(h, c[i], get_object_item(h, y, h.node[c[i]].key, cs), cs)
  IN  /\ a # NIL /\ b # NIL /\ m.tag = n.tag /\ m.tag # "Invalid"
      /\ \/ a = b
         \/ m.tag \in {"False", "True", "NULL"}
         \/ m.tag = "Number" /\ m.num = n.num
         \/ m.tag \in {"String", "Raw"} /\ m.str = n.str /\ m.str # NoStr
         \/ /\ m.tag = "Array" /\ Len(ca) = Len(cb)
            /\ \A i \in DOMAIN ca : Compare(h, ca[i], cb[i], cs)
         \/ /\ m.tag = "Object"
            /\ Within(a, ca, b)
            /\ Within(b, cb, a)

===============================================================================
