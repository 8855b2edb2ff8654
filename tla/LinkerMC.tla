------------------------------ MODULE LinkerMC ------------------------------
(***************************************************************************)
(* Links for TLC: the template's shell and user modules shaped like        *)
(* rustc's, over every order of up to MaxImports imports of the kinds      *)
(* below.  Each user module refers to every index it has.                  *)
(***************************************************************************)
EXTENDS Linker

CONSTANTS
    MaxImports,     \* imports of a user module
    MaxPools        \* pools of a shell

Env == <<"env">>

ImportOf ==
    [T |-> [module |-> TvmMm, name |-> <<"tvm_load", "u8">>, kind |-> "func", ty |-> 1],
     I |-> [module |-> TvmMm, name |-> <<"tvm_load_indirect", "u32">>, kind |-> "func", ty |-> 1],
     U |-> [module |-> TvmMm, name |-> <<"tvm_unknown">>, kind |-> "func", ty |-> 0],
     F |-> [module |-> Env, name |-> <<"f">>, kind |-> "func", ty |-> 0],
     G |-> [module |-> Env, name |-> <<"g">>, kind |-> "global", ty |-> 0],
     B |-> [module |-> Env, name |-> <<"t">>, kind |-> "table", ty |-> 0],
     M |-> [module |-> Env, name |-> <<"memory">>, kind |-> "mem", ty |-> 0],
     X |-> [module |-> Env, name |-> <<"tag">>, kind |-> "tag", ty |-> 0]]

Count(imps, kinds) == Len(SelectSeq(imps, LAMBDA k : k \in kinds))
Refs(space, n) == [i \in 1 .. n |-> <<space, i - 1>>]
Each(op, refs) == [i \in DOMAIN refs |-> Ins(op, <<refs[i]>>)]

\* features of a user module beside its imports
Plain == [start |-> NoStart, pages |-> 3, memop |-> 0, init |-> "const", types |-> TRUE,
          names |-> TRUE, aliases |-> <<>>]

UserModule(imps, v) ==
    LET funcs   == Refs("func", Count(imps, {"T", "I", "U", "F"}) + 2)
        globals == Refs("global", Count(imps, {"G"}) + 2)
        tables  == Refs("table", Count(imps, {"B"}) + 1)
        code1 == Each("call", funcs) \o Each("ref.func", funcs)
                 \o Each("global.get", globals) \o Each("global.set", globals)
                 \o Each("table.size", tables)
        code2 == [i \in DOMAIN tables |-> Ins("call_indirect", <<<<"type", 1>>, tables[i]>>)]
                 \o << Ins("memory.copy", <<Mem(v.memop), Mem(0)>>), Ins("load_u8", <<Mem(0)>>),
                       Ins("block", <<>>), Ins("i32.add", <<>>) >>
        last  == Len(funcs) - 1
    IN << [sec |-> "type", items |-> << [id |-> <<"to">>, func |-> TRUE],
             [id |-> <<"i32", "i32", "to", "i32">>, func |-> v.types] >>],
          [sec |-> "import", items |-> [i \in DOMAIN imps |-> ImportOf[imps[i]]]],
          [sec |-> "function", items |-> <<0, 1>>],
          [sec |-> "table", items |-> << [id |-> <<"user", "table", 0>>] >>],
          [sec |-> "memory", items |-> << [id |-> <<"user", "mem", 0>>, min |-> v.pages, max |-> 9] >>],
          [sec |-> "global", items |->
             << [id |-> <<"user", "global", 0>>, init |-> Ins(v.init, <<>>)],
                [id |-> <<"user", "global", 1>>, init |->
                   IF Count(imps, {"G"}) > 0 THEN Ins("global.get", <<<<"global", 0>>>>)
                                             ELSE Ins("const", <<>>)] >>],
          [sec |-> "export", items |->
             << [name |-> <<"memory">>, kind |-> "mem", index |-> 0],
                [name |-> <<"__heap_base">>, kind |-> "global", index |-> 0],
                [name |-> <<"run">>, kind |-> "func", index |-> last],
                [name |-> <<"first">>, kind |-> "func", index |-> 0],
                [name |-> <<"table">>, kind |-> "table", index |-> Len(tables) - 1] >>] >>
       \o (IF v.start = NoStart THEN <<>> ELSE << [sec |-> "start", items |-> <<v.start>>] >>)
       \o << [sec |-> "element", items |->
             << [id |-> <<"user", "elem", 0>>, mode |-> "active", table |-> Default,
                 offset |-> Ins("const", <<>>), items |-> Each("func", funcs)],
                [id |-> <<"user", "elem", 1>>, mode |-> "declared", table |-> Default,
                 offset |-> Ins("const", <<>>), items |-> Each("ref.func", funcs)] >>],
          [sec |-> "code", items |->
             << [id |-> <<"user", "func", 0>>, body |-> Straight(code1)],
                [id |-> <<"user", "func", 1>>, body |-> Straight(code2)] >>],
          [sec |-> "data", items |->
             << [id |-> <<"user", "data", 0>>, mode |-> "active", mem |-> v.memop] >>] >>
       \o (IF ~v.names THEN <<>> ELSE
          << [sec |-> "custom", name |-> <<"name">>, items |->
               [i \in DOMAIN funcs |-> [space |-> "func", index |-> i - 1, name |-> <<"uf", i>>]]
               \o [i \in DOMAIN globals |-> [space |-> "global", index |-> i - 1, name |-> <<"ug", i>>]]
               \o [i \in DOMAIN tables |-> [space |-> "table", index |-> i - 1, name |-> <<"ut", i>>]]
               \o << [space |-> "type", index |-> 1, name |-> <<"sig">>],
                     [space |-> "data", index |-> 0, name |-> <<".rodata">>] >>] >>)
       \o << [sec |-> "custom", name |-> <<"producers">>, items |-> <<>>] >>

Alias(name, index) == [name |-> name, index |-> index]

Variants == {Plain,
    [Plain EXCEPT !.start = 0], [Plain EXCEPT !.pages = 0], [Plain EXCEPT !.pages = 9],
    [Plain EXCEPT !.memop = 1], [Plain EXCEPT !.init = "i32.add"], [Plain EXCEPT !.types = FALSE],
    [Plain EXCEPT !.names = FALSE],
    [Plain EXCEPT !.aliases = <<Alias(<<"memory">>, 0), Alias(<<"pool1">>, 1)>>],
    [Plain EXCEPT !.aliases = <<Alias(<<"mem", 0>>, 0)>>],
    [Plain EXCEPT !.aliases = <<Alias(<<"far">>, 3)>>]}

TemplateShell(pools) == ModuleTemplate(pools, 1, 4)

\* the template with a start function spliced in through user_body
StartShell(pools) == TemplateShell(pools) \o << [sec |-> "start", items |-> <<1>>] >>

LinkInputs ==
    {[shell |-> TemplateShell(pools), user |-> UserModule(imps, Plain), aliases |-> <<>>] :
       pools \in 1 .. MaxPools, imps \in BoundedSeq(DOMAIN ImportOf, MaxImports)}
    \cup {[shell |-> sh, user |-> UserModule(imps, v), aliases |-> v.aliases] :
       sh \in {TemplateShell(MaxPools), StartShell(MaxPools)}, v \in Variants,
       imps \in {<<>>, <<"T">>, <<"F">>, <<"M">>, <<"X">>, <<"U">>, <<"G", "F">>}}
=============================================================================
