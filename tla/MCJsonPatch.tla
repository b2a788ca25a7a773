---------------------------- MODULE MCJsonPatch ------------------------------
(* Documents with nested objects and lists, plain and typed.               *)
EXTENDS JsonPatch, TLC

ax == Atom("x")
ay == Atom("y")

Typed(name, data) == Obj(("liveblocksType" :> Atom(name)) @@ ("data" :> data))

MCDocuments ==
    {Obj("a" :> Lst(<<ax, ay>>)),
     Obj(("a" :> Obj("b" :> ax)) @@ ("b" :> Lst(<<Lst(<<ax>>), ay>>))),
     Typed("LiveObject", Obj("a" :> Typed("LiveList", Lst(<<ax>>))))}

MCPointers ==
    {<< >>, <<"a">>, <<"b">>, <<"a", "0">>, <<"a", "-">>, <<"a", "b">>, <<"b", "0", "1">>,
     <<"data">>, <<"data", "a", "data", "0">>}

MCValues == {ax, Lst(<<ax, ay>>), Obj("a" :> ay), Typed("LiveList", ax)}

MCPatchSpec == PatchInit(BaseDocuments) /\ [][PatchNext]_patchVars
=============================================================================
