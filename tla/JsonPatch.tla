------------------------------ MODULE JsonPatch ------------------------------
(***************************************************************************)
(* One STORAGE_PATCH request and its undo, with the JSON documents the     *)
(* other modules abstract from.                                            *)
(*  - server/internal/cluster/redis.go: ApplyJSONPatch, which the store    *)
(*    runs on the stored document, and ValidateStorageDocument;            *)
(*  - packages/client/src/index.ts: applyJSONPatchOptimistic, which the    *)
(*    client runs on the document it shows, and diffJSONPatch, which makes *)
(*    the patch of an undo.                                                *)
(* A JSON value is an object, a list or an atom, a JSON Pointer the        *)
(* sequence of its decoded tokens. The server decodes the stored text for  *)
(* every request, so its changes in place are seen by nobody else. The     *)
(* client compares the value of a test with the order of an object's keys, *)
(* and then refuses patches the server would take: left out.               *)
(***************************************************************************)
EXTENDS Naturals, Sequences, SequencesExt

CONSTANTS
    BaseDocuments,   \* documents stored at first
    Pointers,        \* paths of operations
    PatchValues,     \* their values
    MaxOperations    \* bound: operations of a patch

VARIABLES
    stored,    \* the stored document
    before,      \* the document the patch started from
    serverRoot,  \* the root in ApplyJSONPatch
    clientRoot,  \* the root in applyJSONPatchOptimistic
    phase,       \* "patching", "accepted", "refused" or "undone"
    operations,  \* number of operations so far
    elementReplaced     \* history: an operation replaced a list element

patchVars == <<stored, before, serverRoot, clientRoot, phase, operations, elementReplaced>>

Obj(kids) == [kind |-> "object", kids |-> kids]
Lst(items) == [kind |-> "list", items |-> items]
Atom(a) == [kind |-> "atom", atom |-> a]
Failed == [kind |-> "error"]
Null == Atom("null")

Only(set) == CHOOSE x \in set : TRUE

RECURSIVE getJSONValue(_, _), addJSONValue(_, _, _), removeJSONValue(_, _),
          validateStorageValue(_, _), Mutated(_, _, _), diffJSONPatch(_, _, _)

-----------------------------------------------------------------------------
(* The server.                                                             *)

TokenIndex == [t \in {"0", "1", "2"} |-> CASE t = "0" -> 0 [] t = "1" -> 1 [] t = "2" -> 2]

\* The position a token names in a list, in a set; none when it is refused.
parseArrayIndex(token, length, allowAppend) ==
    IF token = "-" THEN {length : x \in {allowAppend} \cap {TRUE}}
    ELSE {TokenIndex[t] : t \in {token} \cap DOMAIN TokenIndex}
            \cap {i \in 0..length : allowAppend \/ i < length}

\* The child of a container under a token, in a set.
Child(root, token) ==
    CASE root.kind = "object" -> {root.kids[k] : k \in {token} \cap DOMAIN root.kids}
      [] root.kind = "list" ->
            {root.items[i + 1] : i \in parseArrayIndex(token, Len(root.items), FALSE)}
      [] OTHER -> {}

\* The container with another child under a token that it has.
WithChild(root, token, value) ==
    IF root.kind = "object" THEN Obj([root.kids EXCEPT ![token] = value])
    ELSE Lst([root.items EXCEPT ![TokenIndex[token] + 1] = value])

getJSONValue(root, tokens) ==
    IF tokens = << >> THEN root
    ELSE LET child == Child(root, Head(tokens)) IN
         IF child = {} THEN Failed ELSE getJSONValue(Only(child), Tail(tokens))

\* A key of an object is set, an element of a list inserted.
AddChild(root, token, value) ==
    CASE root.kind = "object" ->
            Obj([k \in DOMAIN root.kids \cup {token} |->
                    IF k = token THEN value ELSE root.kids[k]])
      [] root.kind = "list" ->
            LET index == parseArrayIndex(token, Len(root.items), TRUE) IN
            IF index = {} THEN Failed
            ELSE Lst(InsertAt(root.items, Only(index) + 1, value))
      [] OTHER -> Failed

addJSONValue(root, tokens, value) ==
    IF tokens = << >> THEN value
    ELSE IF Len(tokens) = 1 THEN AddChild(root, tokens[1], value)
    ELSE LET child == Child(root, Head(tokens))
             updated == IF child = {} THEN Failed
                        ELSE addJSONValue(Only(child), Tail(tokens), value)
         IN  IF updated = Failed THEN Failed ELSE WithChild(root, Head(tokens), updated)

RemoveChild(root, token) ==
    CASE Child(root, token) = {} -> Failed
      [] root.kind = "object" ->
            Obj([k \in DOMAIN root.kids \ {token} |-> root.kids[k]])
      [] OTHER -> Lst(RemoveAt(root.items, TokenIndex[token] + 1))

removeJSONValue(root, tokens) ==
    IF tokens = << >> THEN Failed
    ELSE IF Len(tokens) = 1 THEN RemoveChild(root, tokens[1])
    ELSE LET child == Child(root, Head(tokens))
             updated == IF child = {} THEN Failed
                        ELSE removeJSONValue(Only(child), Tail(tokens))
         IN  IF updated = Failed THEN Failed ELSE WithChild(root, Head(tokens), updated)

\* Faulty variant: the value is added before its source is removed.
MoveAddsFirst(root, from, tokens, value) ==
    LET added == addJSONValue(root, tokens, value) IN
    IF added = Failed THEN Failed ELSE removeJSONValue(added, from)

\* The root cannot be removed; what is left of it is no container.
Move(root, from, tokens, value) ==
    LET without == removeJSONValue(root, from) IN
    addJSONValue(IF without = Failed THEN Null ELSE without, tokens, value)

\* One operation on the server. A replace removes nothing: at the index of a
\* list element it inserts.
applyJSONPatchOperation(root, o) ==
    LET at == getJSONValue(root, o.path)
        source == getJSONValue(root, o.from)
    IN  CASE root = Failed -> Failed
          [] o.op = "add" -> addJSONValue(root, o.path, o.value)
          [] o.op = "remove" -> removeJSONValue(root, o.path)
          [] o.op = "replace" -> IF at = Failed THEN Failed
                                 ELSE addJSONValue(root, o.path, o.value)
          [] o.op = "test" -> IF at = o.value THEN root ELSE Failed
          [] o.op = "copy" -> IF source = Failed THEN Failed
                              ELSE addJSONValue(root, o.path, source)
          [] o.op = "move" -> IF source = Failed THEN Failed
                              ELSE Move(root, o.from, o.path, source)

\* All operations, and the root has to be an object still.
ApplyJSONPatch(doc, ops) ==
    LET root == FoldLeft(applyJSONPatchOperation, doc, ops) IN
    IF root.kind = "object" THEN root ELSE Failed

TypeNames == {"LiveObject", "LiveList", "LiveMap"}

storageTypedNode(node) ==
    /\ node.kids["liveblocksType"] \in {Atom(t) : t \in TypeNames}
    /\ "data" \in DOMAIN node.kids

validateStorageTypedData(typeName, data) ==
    IF typeName = Atom("LiveList")
    THEN data.kind = "list" /\ \A i \in DOMAIN data.items : validateStorageValue(data.items[i], FALSE)
    ELSE data.kind = "object" /\ \A k \in DOMAIN data.kids : validateStorageValue(data.kids[k], FALSE)

validateStorageValue(value, root) ==
    CASE value.kind = "object" /\ "liveblocksType" \in DOMAIN value.kids ->
            /\ storageTypedNode(value)
            /\ ~root \/ value.kids["liveblocksType"] = Atom("LiveObject")
            /\ validateStorageTypedData(value.kids["liveblocksType"], value.kids["data"])
      [] value.kind = "object" ->
            \A k \in DOMAIN value.kids : validateStorageValue(value.kids[k], FALSE)
      [] value.kind = "list" ->
            \A i \in DOMAIN value.items : validateStorageValue(value.items[i], FALSE)
      [] OTHER -> TRUE

ValidateStorageDocument(doc) == doc.kind = "object" /\ validateStorageValue(doc, TRUE)

-----------------------------------------------------------------------------
(* The client. It looks values up as the server does.                      *)

\* The document after the container at a path was changed in place.
Mutated(doc, path, container) ==
    IF path = << >> THEN container
    ELSE WithChild(doc, Head(path),
                   Mutated(Only(Child(doc, Head(path))), Tail(path), container))

setPatchValue(doc, parts, value, mode) ==
    IF parts = << >> THEN value
    ELSE LET container == getJSONValue(doc, Front(parts))
             key == Last(parts)
             changed == IF mode = "add" THEN AddChild(container, key, value)
                        ELSE IF Child(container, key) = {} THEN Failed
                        ELSE WithChild(container, key, value)
         IN  IF changed = Failed THEN Failed ELSE Mutated(doc, Front(parts), changed)

removePatchValue(doc, parts) ==
    IF parts = << >> THEN Failed
    ELSE LET container == getJSONValue(doc, Front(parts))
             changed == RemoveChild(container, Last(parts))
         IN  IF changed = Failed THEN Failed ELSE Mutated(doc, Front(parts), changed)

applyJSONPatchOptimistic(root, o) ==
    LET at == getJSONValue(root, o.path)
        source == getJSONValue(root, o.from)
        without == removePatchValue(root, o.from)
    IN  CASE root = Failed -> Failed
          [] o.op \in {"add", "replace"} -> setPatchValue(root, o.path, o.value, o.op)
          [] o.op = "remove" -> removePatchValue(root, o.path)
          [] o.op = "test" -> IF at = o.value THEN root ELSE Failed
          [] o.op = "copy" -> IF source = Failed THEN Failed
                              ELSE setPatchValue(root, o.path, source, "add")
          [] o.op = "move" -> IF source = Failed \/ without = Failed THEN Failed
                              ELSE setPatchValue(without, o.path, source, "add")

Operation(op, path, from, value) == [op |-> op, path |-> path, from |-> from, value |-> value]

\* Faulty variant: keys that are gone are not removed.
GoneKeysNone(old, new) == {}

GoneKeys(old, new) == DOMAIN old.kids \ DOMAIN new.kids

\* The patch from one document to another. It goes into objects only, and
\* replaces a list as a whole.
diffJSONPatch(old, new, path) ==
    CASE old = new -> << >>
      [] old # new /\ old.kind = "object" /\ new.kind = "object" ->
            FlattenSeq(
                [i \in 1..Cardinality(GoneKeys(old, new)) |->
                    << Operation("remove", Append(path, SetToSeq(GoneKeys(old, new))[i]), << >>, Null) >>]
                \o [i \in 1..Cardinality(DOMAIN new.kids) |->
                    LET key == SetToSeq(DOMAIN new.kids)[i] IN
                    IF key \in DOMAIN old.kids
                    THEN diffJSONPatch(old.kids[key], new.kids[key], Append(path, key))
                    ELSE << Operation("add", Append(path, key), << >>, new.kids[key]) >>])
      [] OTHER -> << Operation("replace", path, << >>, new) >>

-----------------------------------------------------------------------------
(* A request.                                                              *)

PatchInit(docs) ==
    /\ stored \in docs
    /\ before = stored /\ serverRoot = stored /\ clientRoot = stored
    /\ phase = "patching" /\ operations = 0 /\ elementReplaced = FALSE

PatchOperations ==
    {Operation("remove", path, << >>, Null) : path \in Pointers}
    \cup {Operation(op, path, << >>, value) :
            op \in {"add", "replace", "test"}, path \in Pointers, value \in PatchValues}
    \cup {Operation(op, path, from, Null) :
            op \in {"copy", "move"}, path \in Pointers, from \in Pointers}

ReplacesElement(root, o) ==
    /\ o.op = "replace" /\ o.path # << >> /\ root # Failed
    /\ getJSONValue(root, Front(o.path)).kind = "list"

\* The next operation of the patch. A patch the client cannot apply is not
\* sent.
PatchOperation(o) ==
    /\ phase = "patching" /\ operations < MaxOperations
    /\ clientRoot' = applyJSONPatchOptimistic(clientRoot, o)
    /\ clientRoot' # Failed
    /\ serverRoot' = applyJSONPatchOperation(serverRoot, o)
    /\ elementReplaced' = (elementReplaced \/ ReplacesElement(serverRoot, o))
    /\ operations' = operations + 1
    /\ UNCHANGED <<stored, before, phase>>

\* PatchStorageDocumentWithOptions stores the result, or refuses the patch.
PatchStorage ==
    /\ phase = "patching" /\ operations > 0
    /\ IF ValidateStorageDocument(serverRoot)
       THEN stored' = serverRoot /\ phase' = "accepted"
       ELSE UNCHANGED stored /\ phase' = "refused"
    /\ UNCHANGED <<before, serverRoot, clientRoot, operations, elementReplaced>>

\* The client's undo, sent as a patch; nobody else wrote in between.
Undo ==
    LET undone == ApplyJSONPatch(stored, diffJSONPatch(stored, before, << >>)) IN
    /\ phase = "accepted"
    /\ IF ValidateStorageDocument(undone) THEN stored' = undone ELSE UNCHANGED stored
    /\ phase' = "undone"
    /\ UNCHANGED <<before, serverRoot, clientRoot, operations, elementReplaced>>

PatchNext == (\E o \in PatchOperations : PatchOperation(o)) \/ PatchStorage \/ Undo

-----------------------------------------------------------------------------
\* The two implementations of JSON Patch agree: a client that applied a patch
\* shows the document the server stores for it.
PatchesAgree == phase = "accepted" => clientRoot = stored

\* They agree on every patch that does not replace an element of a list.
OptimisticAgrees == phase = "accepted" /\ ~elementReplaced => clientRoot = stored

\* An undo is accepted and brings back the document of before the patch,
\* whatever the patch did to nested objects and lists.
UndoRestores == phase = "undone" => stored = before
=============================================================================
