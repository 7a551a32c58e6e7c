------------------------------ MODULE JsonTree ------------------------------
(***************************************************************************)
(* The trees of cJSON: items in a heap, the children of an item in a list  *)
(* that is linked forward to NULL and backward in a circle (the prev of    *)
(* the first child is the last one), keys and strings that an item owns or *)
(* borrows, and allocations that fail.  One action is one call of the API. *)
(*                                                                         *)
(* The caller keeps the rules of the library: an item it adds is one that  *)
(* it holds and has nothing of the container in it, and what a reference   *)
(* points to is neither changed nor released while the reference stands.   *)
(***************************************************************************)
EXTENDS JsonList, FiniteSets

CONSTANTS Lower(_),  \* tolower on a key
          MaxDepth,  \* CJSON_CIRCULAR_LIMIT
          Callers    \* what a caller uses: functions, types of item, keys,
                     \* texts (strings, known by their lengths, and numbers),
                     \* and the number of calls, a bound of the model

NoKey == ""

ASSUME JsonTreeAssumption ==
    /\ MaxDepth \in Nat
    /\ \A c \in Callers : c.texts \subseteq Nat \ {0} /\ NoKey \notin c.keys

VARIABLES heap,  \* the items
          held,  \* the roots the caller holds and has to delete
          caller,
          calls  \* how many calls there were

vars == <<heap, held, caller, calls>>

Free == [type |-> "free", isref |-> FALSE, const |-> FALSE, key |-> NoKey, val |-> 0,
         next |-> NULL, prev |-> NULL, child |-> NULL, of |-> NULL, keymem |-> 0, valmem |-> 0]

Live == {n \in Nodes : heap[n].type # "free"}
Container(n) == heap[n].type \in {"array", "object"} /\ ~heap[n].isref
Textual(type) == type \in {"string", "raw"}

-----------------------------------------------------------------------------
(***************************************************************************)
(* A call works on m, the heap and the number of allocations that still    *)
(* succeed.  An operator that also returns a pointer returns [m, item].    *)
(***************************************************************************)
Room(m) == {n \in Nodes : m.heap[n].type = "free"}
CanAllocate(m) == m.left > 0
Spend(m) == [m EXCEPT !.left = @ - 1]
Got(m, item) == [m |-> m, item |-> item]

(* cJSON_New_Item: a zeroed item, or NULL *)
NewItem(m, type) ==
    IF ~CanAllocate(m) \/ Room(m) = {} THEN Got([m EXCEPT !.left = 0], NULL)
    ELSE LET n == CHOOSE x \in Room(m) : \A y \in Room(m) : x <= y
         IN  Got(Spend([m EXCEPT !.heap[n] = [Free EXCEPT !.type = type]]), n)

(* cJSON_Delete: the item, what it owns, and every item behind it *)
RECURSIVE Delete(_, _)
Delete(h, i) ==
    IF i = NULL THEN h
    ELSE IF h[i].type = "free" THEN [h EXCEPT ![i].type = "freed twice"]
    ELSE LET x    == h[i]
             deep == IF x.isref THEN h ELSE Delete(h, x.child)
             rest == [Free EXCEPT !.keymem = x.keymem - IF x.const \/ x.key = NoKey THEN 0 ELSE 1,
                                  !.valmem = x.valmem - IF x.isref \/ ~Textual(x.type) \/ x.val = 0 THEN 0 ELSE 1]
         IN  Delete([deep EXCEPT ![i] = rest], x.next)

DeleteIn(m, i) == [m EXCEPT !.heap = Delete(m.heap, i)]

(* cJSON_Create...: strings and raws also copy their text *)
Create(m, type, v) ==
    LET new == NewItem(m, type) IN
    IF new.item = NULL \/ type \notin {"string", "raw", "number"} THEN new
    ELSE IF type = "number" THEN Got([new.m EXCEPT !.heap[new.item].val = v], new.item)
    ELSE IF ~CanAllocate(new.m)
    THEN Got(DeleteIn(new.m, new.item), NULL)
    ELSE Got(Spend([new.m EXCEPT !.heap[new.item].val = v, !.heap[new.item].valmem = 1]), new.item)

(* Mutant of FreeKey: frees a key that is a constant of the caller *)
FreeKeyAlways(h, i) == IF h[i].key = NoKey THEN h ELSE [h EXCEPT ![i].keymem = @ - 1]

(* the release of a key before another takes its place *)
FreeKey(h, i) == IF h[i].const \/ h[i].key = NoKey THEN h ELSE [h EXCEPT ![i].keymem = @ - 1]

(* add_item_to_object; the item that was not added when the key was not copied *)
AddToObject(m, c, k, i, const) ==
    IF ~const /\ ~CanAllocate(m) THEN Got(m, i)
    ELSE LET freed == FreeKey(m.heap, i)
             keyed == [freed EXCEPT ![i].key = k, ![i].const = const,
                                    ![i].keymem = @ + IF const THEN 0 ELSE 1]
         IN  Got([m EXCEPT !.heap = AddToList(keyed, c, i), !.left = @ - IF const THEN 0 ELSE 1], NULL)

(* create_reference: a copy of the item that owns nothing *)
Reference(m, i) ==
    LET new == NewItem(m, "free")
        x   == m.heap[i]
    IN  IF new.item = NULL THEN new
        ELSE Got([new.m EXCEPT !.heap[new.item] =
                    [x EXCEPT !.key = NoKey, !.isref = TRUE, !.next = NULL, !.prev = NULL,
                              !.of = IF x.isref THEN x.of ELSE i, !.keymem = 0, !.valmem = 0]],
                 new.item)

(* the list of an item, from its child on *)
RECURSIVE From(_, _)
From(h, i) == IF i = NULL THEN <<>> ELSE <<i>> \o From(h, h[i].next)
List(h, c) == From(h, h[c].child)

(* Mutant of ArrayItem: one step too many *)
ArrayItemBehind(h, c, k) == IF k < Len(List(h, c)) THEN List(h, c)[k + 1] ELSE NULL

(* get_array_item, counted from 1 here *)
ArrayItem(h, c, k) == IF k <= Len(List(h, c)) THEN List(h, c)[k] ELSE NULL

(* get_object_item: with case, the search also ends at an item without a key *)
ObjectItem(h, c, k, cased) ==
    LET list == List(h, c)
        stop == {j \in DOMAIN list :
                   LET key == h[list[j]].key IN
                   IF cased THEN key \in {NoKey, k} ELSE key # NoKey /\ Lower(key) = Lower(k)}
        j    == CHOOSE x \in stop : \A y \in stop : x <= y
    IN  IF stop = {} THEN NULL ELSE IF h[list[j]].key = NoKey THEN NULL ELSE list[j]

(* cJSON_ReplaceItemViaPointer *)
Replace(h, c, i, r) == Delete(Exchange(h, c, i, r), i)

(* the strings of cJSON_Duplicate_rec: each is copied, but a constant key *)
CopyStrings(m, i, n) ==
    LET x     == m.heap[i]
        texts == IF Textual(x.type) /\ x.val # 0 THEN 1 ELSE 0
        names == IF x.key # NoKey /\ ~x.const THEN 1 ELSE 0
        m1    == [m EXCEPT !.heap[n].val = x.val, !.heap[n].valmem = texts, !.left = @ - texts]
    IN  IF m.left < texts THEN Got(DeleteIn([m EXCEPT !.left = 0], n), NULL)
        ELSE IF m1.left < names THEN Got(DeleteIn([m1 EXCEPT !.left = 0], n), NULL)
        ELSE Got([m1 EXCEPT !.heap[n].key = x.key, !.heap[n].const = x.const,
                            !.heap[n].keymem = names, !.left = @ - names], n)

(* cJSON_Duplicate_rec; the walk along the children ends at the first that fails *)
RECURSIVE Duplicated(_, _, _, _), DuplicateKids(_, _, _, _, _)
DuplicateKids(m, n, child, last, depth) ==
    IF child = NULL THEN Got([m EXCEPT !.heap = CloseList(@, n, last)], n)
    ELSE IF depth >= MaxDepth THEN Got(DeleteIn(m, n), NULL)
    ELSE LET new == Duplicated(m, child, depth + 1, TRUE) IN
         IF new.item = NULL THEN Got(DeleteIn(new.m, n), NULL)
         ELSE DuplicateKids([new.m EXCEPT !.heap = Attach(@, n, last, new.item)],
                            n, m.heap[child].next, new.item, depth)
Duplicated(m, i, depth, recurse) ==
    LET new  == NewItem(m, m.heap[i].type)
        copy == IF new.item = NULL THEN new ELSE CopyStrings(new.m, i, new.item)
    IN  IF copy.item = NULL \/ ~recurse THEN copy
        ELSE DuplicateKids(copy.m, copy.item, m.heap[i].child, NULL, depth)

(* cJSON_CreateIntArray and its like: count items of a type in an array *)
RECURSIVE FillArray(_, _, _, _, _, _)
FillArray(m, a, type, v, count, last) ==
    IF count = 0 THEN Got([m EXCEPT !.heap = CloseList(@, a, last)], a)
    ELSE LET new == Create(m, type, v) IN
         IF new.item = NULL THEN Got(DeleteIn(new.m, a), NULL)
         ELSE FillArray([new.m EXCEPT !.heap = Attach(@, a, last, new.item)],
                        a, type, v, count - 1, new.item)
CreateArrayOf(m, type, v, count) ==
    LET new == NewItem(m, "array") IN
    IF new.item = NULL THEN new ELSE FillArray(new.m, new.item, type, v, count, NULL)

(* cJSON_Compare *)
RECURSIVE Compare(_, _, _, _), CompareLists(_, _, _, _)
CompareLists(h, a, b, cased) ==
    IF a = NULL \/ b = NULL THEN a = b
    ELSE Compare(h, a, b, cased) /\ CompareLists(h, h[a].next, h[b].next, cased)
(* Mutant of Finds: looks the keys up with case always *)
FindsWithCase(h, a, b, cased) ==
    \A e \in ToSet(List(h, a)) :
        LET f == ObjectItem(h, b, h[e].key, TRUE) IN f # NULL /\ Compare(h, e, f, cased)

Finds(h, a, b, cased) ==
    \A e \in ToSet(List(h, a)) :
        LET f == ObjectItem(h, b, h[e].key, cased) IN f # NULL /\ Compare(h, e, f, cased)
Compare(h, a, b, cased) ==
    LET x == h[a]
        y == h[b]
    IN  /\ x.type = y.type
        /\ \/ a = b
           \/ x.type \notin {"number", "string", "raw", "array", "object"}
           \/ x.type = "number" /\ x.val = y.val
           \/ Textual(x.type) /\ x.val # 0 /\ x.val = y.val
           \/ x.type = "array" /\ CompareLists(h, x.child, y.child, cased)
           \/ x.type = "object" /\ Finds(h, a, b, cased) /\ Finds(h, b, a, cased)

-----------------------------------------------------------------------------
(* what the rules of the library ask of the caller *)
RECURSIVE Reach(_)
Reach(n) == {n} \union UNION {Reach(k) : k \in ToSet(List(heap, n))}

RECURSIVE Owned(_)
Owned(n) == {n} \union
    IF heap[n].isref THEN {} ELSE UNION {Owned(k) : k \in ToSet(List(heap, n))}

References(S) == {r \in Live : heap[r].isref /\ heap[r].of \in S}
Changeable(c) == Container(c) /\ \A r \in References({c}) : heap[r].child = NULL
Releasable(n) == References(Owned(n)) \subseteq Owned(n)
MayGet(c, i)  == i \in held /\ Changeable(c) /\ c \notin Reach(i)
Array(c)      == heap[c].type = "array"
Object(c)     == heap[c].type = "object"

Start(left) == [heap |-> heap, left |-> left]
Result(r) == heap' = r.m.heap /\ held' = held \union ({r.item} \ {NULL})

-----------------------------------------------------------------------------
Init == heap = [n \in Nodes |-> Free] /\ held = {} /\ caller \in Callers /\ calls = 0

(* cJSON_CreateNull ... cJSON_CreateObject *)
CreateItem(type, v, left) == Result(Create(Start(left), type, v))

(* cJSON_CreateIntArray, FloatArray, DoubleArray, StringArray *)
CreateList(type, v, count, left) == Result(CreateArrayOf(Start(left), type, v, count))

(* cJSON_CreateObjectReference, ArrayReference: a root that borrows the children of c *)
CreateReference(c) ==
    /\ Container(c) /\ heap[c].child # NULL
    /\ LET new == NewItem(Start(1), heap[c].type) IN
       /\ new.item # NULL
       /\ heap' = [new.m.heap EXCEPT ![new.item].isref = TRUE, ![new.item].child = heap[c].child,
                                     ![new.item].of = c]
       /\ held' = held \union {new.item}

(* cJSON_CreateStringReference: a root that borrows a text of the caller *)
CreateStringReference(text) ==
    LET new == NewItem(Start(1), "string") IN
    /\ new.item # NULL
    /\ heap' = [new.m.heap EXCEPT ![new.item].isref = TRUE, ![new.item].val = text]
    /\ held' = held \union {new.item}

AddItemToArray(c, i) ==
    /\ MayGet(c, i) /\ Array(c)
    /\ heap' = AddToList(heap, c, i)
    /\ held' = held \ {i}

(* cJSON_AddItemToObject and ...CS *)
AddItemToObject(c, k, i, const, left) ==
    /\ MayGet(c, i) /\ Object(c)
    /\ LET added == AddToObject(Start(left), c, k, i, const) IN
       heap' = added.m.heap /\ held' = IF added.item = NULL THEN held \ {i} ELSE held

(* cJSON_AddNullToObject ... cJSON_AddArrayToObject: create, add, or delete *)
AddNewToObject(c, k, type, v, left) ==
    /\ Changeable(c) /\ Object(c)
    /\ LET new   == Create(Start(left), type, v)
           added == AddToObject(new.m, c, k, new.item, FALSE)
       IN  heap' = IF new.item = NULL THEN new.m.heap
                   ELSE IF added.item = NULL THEN added.m.heap
                   ELSE Delete(added.m.heap, new.item)
    /\ held' = held

(* cJSON_AddItemReferenceToArray *)
AddReferenceToArray(c, i, left) ==
    /\ Changeable(c) /\ Array(c) /\ c \notin Reach(i)
    /\ LET ref == Reference(Start(left), i) IN
       heap' = IF ref.item = NULL THEN ref.m.heap ELSE AddToList(ref.m.heap, c, ref.item)
    /\ held' = held

(* cJSON_AddItemReferenceToObject: a reference that cannot be added is forgotten *)
AddReferenceToObject(c, k, i, left) ==
    /\ Changeable(c) /\ Object(c) /\ c \notin Reach(i)
    /\ LET ref == Reference(Start(left), i) IN
       heap' = IF ref.item = NULL THEN ref.m.heap
               ELSE AddToObject(ref.m, c, k, ref.item, FALSE).m.heap
    /\ held' = held

(* the k-th item of c, or the one of a key *)
IndexItem(c, k) == IF Array(c) THEN ArrayItem(heap, c, k) ELSE NULL
KeyItem(c, k, cased) == IF Object(c) THEN ObjectItem(heap, c, k, cased) ELSE NULL

(* cJSON_DetachItemFrom..., of an item that was found *)
DetachItem(c, i) ==
    /\ Changeable(c) /\ i # NULL /\ ~Corrupted(heap, c, i)
    /\ heap' = Detach(heap, c, i)
    /\ held' = held \union {i}

(* cJSON_DeleteItemFrom... *)
DeleteItem(c, i) ==
    /\ Changeable(c) /\ i # NULL /\ ~Corrupted(heap, c, i) /\ Releasable(i)
    /\ heap' = Delete(Detach(heap, c, i), i)
    /\ held' = held

InsertItemInArray(c, k, i) ==
    /\ MayGet(c, i) /\ Array(c)
    /\ LET after == ArrayItem(heap, c, k) IN
       heap' = IF after = NULL THEN AddToList(heap, c, i)
               ELSE IF Corrupted(heap, c, after) THEN heap
               ELSE InsertBefore(heap, c, after, i)
    /\ held' = held \ {i}

ReplaceItemInArray(c, k, i) ==
    /\ MayGet(c, i) /\ Array(c)
    /\ LET old == ArrayItem(heap, c, k) IN
       /\ old # NULL /\ Releasable(old)
       /\ heap' = Replace(heap, c, old, i)
    /\ held' = held \ {i}

(* replace_item_in_object: the new item loses its own key first *)
ReplaceItemInObject(c, k, i, cased, left) ==
    /\ MayGet(c, i) /\ Object(c)
    /\ LET old   == ObjectItem(heap, c, k, cased)
           freed == FreeKey(heap, i)
           keyed == [freed EXCEPT ![i].key = k, ![i].const = FALSE, ![i].keymem = @ + 1]
       IN  IF left = 0
           THEN heap' = [freed EXCEPT ![i].key = NoKey] /\ held' = held
           ELSE IF old = NULL THEN heap' = keyed /\ held' = held
           ELSE Releasable(old) /\ heap' = Replace(keyed, c, old, i) /\ held' = held \ {i}

DuplicateItem(i, recurse, left) ==
    i \in Live /\ Result(Duplicated(Start(left), i, 0, recurse))

DeleteRoot(i) ==
    /\ i \in held /\ Releasable(i)
    /\ heap' = Delete(heap, i)
    /\ held' = held \ {i}

(* cJSON_SetValuestring: in place when the new text is not longer *)
SetValuestring(i, text, left) ==
    /\ heap[i].type = "string" /\ ~heap[i].isref /\ References({i}) = {}
    /\ \/ text <= heap[i].val
       \/ left > 0
    /\ heap' = [heap EXCEPT ![i].val = text]
    /\ held' = held

(* cJSON_SetNumberHelper *)
SetNumber(i, v) ==
    /\ heap[i].type = "number"
    /\ heap' = [heap EXCEPT ![i].val = v]
    /\ held' = held

Allocations == 0 .. 2 * N

Uses(f) == f \in caller.uses

CreateCall ==
    \/ \E type \in caller.kinds, v \in caller.texts, left \in 0 .. 2 : CreateItem(type, v, left)
    \/ Uses("list") /\ \E v \in caller.texts, count \in 1 .. N - 2, left \in 0 .. 2 * N - 3 :
          \E type \in caller.kinds \intersect {"string", "number"} : CreateList(type, v, count, left)
    \/ \E i \in held : DeleteRoot(i)
    \/ Uses("copy") /\ \E i \in Live, recurse \in BOOLEAN, left \in Allocations :
          DuplicateItem(i, recurse, left)
    \/ Uses("value") /\ \E i \in Live, v \in caller.texts :
          SetNumber(i, v) \/ \E left \in 0 .. 1 : SetValuestring(i, v, left)

ListCall(c) ==
    \/ \E k \in 1 .. N : DetachItem(c, IndexItem(c, k)) \/ DeleteItem(c, IndexItem(c, k))
    \/ \E i \in held :
          \/ AddItemToArray(c, i)
          \/ \E k \in 1 .. N : InsertItemInArray(c, k, i) \/ ReplaceItemInArray(c, k, i)

ObjectCall(c) ==
    \E k \in caller.keys :
        \/ \E type \in caller.kinds, v \in caller.texts, left \in 0 .. 3 : AddNewToObject(c, k, type, v, left)
        \/ \E cased \in BOOLEAN :
              \/ DetachItem(c, KeyItem(c, k, cased)) \/ DeleteItem(c, KeyItem(c, k, cased))
              \/ \E i \in held, left \in 0 .. 1 : ReplaceItemInObject(c, k, i, cased, left)
        \/ \E i \in held, const \in BOOLEAN, left \in 0 .. 1 : AddItemToObject(c, k, i, const, left)

ReferenceCall(c) ==
    \/ \E v \in caller.texts : CreateStringReference(v)
    \/ CreateReference(c)
    \/ \E i \in Live, left \in 0 .. 2 :
          AddReferenceToArray(c, i, left) \/ \E k \in caller.keys : AddReferenceToObject(c, k, i, left)

Next ==
    /\ calls < caller.calls
    /\ \/ CreateCall
       \/ \E c \in Live : \/ Uses("list") /\ ListCall(c)
                          \/ Uses("object") /\ ObjectCall(c)
                          \/ Uses("reference") /\ ReferenceCall(c)
    /\ calls' = calls + 1 /\ UNCHANGED caller

Spec == Init /\ [][Next]_vars

-----------------------------------------------------------------------------
Owners(n) == {c \in Live : Container(c) /\ n \in ToSet(List(heap, c))}

(***************************************************************************)
(* Every list is what the fast append relies on: each item points back to  *)
(* the one before it, the first to the last, and the last item, like every *)
(* root, points to nothing behind it, so that cJSON_Delete, which goes on  *)
(* along next, never leaves the tree.  What a reference points to is the   *)
(* list it was made of.                                                    *)
(***************************************************************************)
ListsClosed ==
    /\ heap \in Heap
    /\ \A n \in Live :
        /\ n \in held => heap[n].next = NULL
        /\ Container(n) => ToSet(List(heap, n)) \subseteq Live /\ Linked(heap, n, List(heap, n))
        /\ heap[n].isref /\ heap[n].child # NULL =>
             heap[n].of \in Live /\ heap[heap[n].of].child = heap[n].child

(* a reference that was made for an object, and whose key could not be copied *)
Forgotten(n) == heap[n].isref /\ heap[n].key = NoKey /\ n \notin held

(***************************************************************************)
(* Whatever allocation failed: every item has one owner, a list or the     *)
(* caller, every copied key and string belongs to one item, and nothing is *)
(* freed twice.  The one thing that is lost is the reference that          *)
(* cJSON_AddItemReferenceToObject made before it could not copy the key.   *)
(***************************************************************************)
EverythingOwned ==
    \A n \in Nodes :
        LET x == heap[n] IN
        /\ x.keymem = IF x.key # NoKey /\ ~x.const THEN 1 ELSE 0
        /\ x.valmem = IF Textual(x.type) /\ ~x.isref THEN 1 ELSE 0
        /\ IF n \notin Live THEN x = Free /\ n \notin held
           ELSE LET owners == Cardinality(Owners(n)) + (IF n \in held THEN 1 ELSE 0) IN
                owners = 1 \/ (owners = 0 /\ Forgotten(n))

-----------------------------------------------------------------------------
(* the tree below an item; with cased = FALSE keys differ only beyond case *)
RECURSIVE Meaning(_, _, _)
Meaning(h, n, cased) ==
    LET x    == h[n]
        list == List(h, n)
    IN  CASE x.type = "array"  -> <<"array", [j \in DOMAIN list |-> Meaning(h, list[j], cased)]>>
          [] x.type = "object" ->
               <<"object", {<<IF cased THEN h[e].key ELSE Lower(h[e].key), Meaning(h, e, cased)>> :
                            e \in ToSet(list)}>>
          [] OTHER             -> <<x.type, x.val>>

KeysDiffer(h, n, cased) ==
    \A o \in {o \in Reach(n) : h[o].type = "object"} :
        \A e, f \in ToSet(List(h, o)) :
            e # f => IF cased THEN h[e].key # h[f].key ELSE Lower(h[e].key) # Lower(h[f].key)

(***************************************************************************)
(* cJSON_Compare, which looks every key of either object up in the other,  *)
(* is the equality of the trees, the order of keys aside, as long as no    *)
(* object has a key twice.                                                 *)
(***************************************************************************)
CompareIsEquality ==
    \A a, b \in Live : \A cased \in BOOLEAN :
        a < b /\ KeysDiffer(heap, a, cased) /\ KeysDiffer(heap, b, cased) =>
            Compare(heap, a, b, cased) = (Meaning(heap, a, cased) = Meaning(heap, b, cased))

-----------------------------------------------------------------------------
Label(n) == LET x == heap[n] IN
            IF x.type = "free" THEN <<"free">> ELSE <<x.type, x.isref, x.key, x.val, x.of>>
Said(i, key) == [Label(i) EXCEPT ![3] = key]

F == INSTANCE Forest WITH
         kids  <- [n \in Nodes |-> IF Container(n) THEN List(heap, n) ELSE <<>>],
         label <- [n \in Nodes |-> Label(n)]

(***************************************************************************)
(* Whatever order the calls come in, each does to the trees what its name  *)
(* says and nothing else: an item is added at the end, inserted where      *)
(* asked (at the end when that is past it), replaced, taken out or deleted *)
(* in the one place asked for, and every other item keeps its place.  A    *)
(* copy has the meaning of its original, or there is none.                 *)
(***************************************************************************)
KeyIndex(c, k, cased) == CHOOSE j \in DOMAIN List(heap, c) : List(heap, c)[j] = ObjectItem(heap, c, k, cased)

(* items that a call gave away, took out, made and deleted *)
Given == {i \in held \ held' : heap'[i].type # "free"}
Taken == {i \in held' \ held : heap[i].type # "free"}
Made  == {i \in held' \ held : heap[i].type = "free"}
Ended == {i \in Live : heap'[i].type = "free"}

CallsMean ==
    [][/\ \A i \in Given, c \in Live :
            /\ AddItemToArray(c, i) => F!Insert(c, N, i, Label(i))
            /\ \A k \in 1 .. N :
                 /\ InsertItemInArray(c, k, i)  => F!Insert(c, k, i, Label(i))
                 /\ ReplaceItemInArray(c, k, i) => F!Exchange(c, k, i, Label(i))
            /\ \A k \in caller.keys, b \in BOOLEAN :
                 /\ AddItemToObject(c, k, i, b, 1) => F!Insert(c, N, i, Said(i, k))
                 /\ ReplaceItemInObject(c, k, i, b, 1) =>
                      F!Exchange(c, KeyIndex(c, k, b), i, Said(i, k))
       /\ \A c \in Live : \A k \in DOMAIN List(heap, c) :
            /\ List(heap, c)[k] \in Taken /\ DetachItem(c, List(heap, c)[k]) => F!TakeOut(c, k)
            /\ List(heap, c)[k] \in Ended /\ DeleteItem(c, List(heap, c)[k]) => F!Drop(c, k)
       /\ \A i \in Ended : DeleteRoot(i) => F!Discard(i)
       /\ \A r \in Made, i \in Live :
            DuplicateItem(i, TRUE, 2 * N) =>
                Meaning(heap', r, TRUE) = Meaning(heap, i, TRUE) /\ F!Same(Live)
      ]_vars
=============================================================================
