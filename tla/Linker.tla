------------------------------- MODULE Linker -------------------------------
(***************************************************************************)
(* tvm-guest-mm-link: merges a rustc-built user module into the shell that *)
(* tvm_guest_mm_module_template generates.  Every index of both modules is *)
(* renumbered into the merged index spaces                                 *)
(*                                                                         *)
(*    [forwarded user imports] [shell definitions] [user definitions]      *)
(*                                                                         *)
(* except that an import from `tvm_mm` becomes the shell function exported *)
(* under its name and the user's memory becomes the shell's pool 0.        *)
(*                                                                         *)
(* One action per import walked and one per section emitted, in the order  *)
(* of link_with_options; `out` is the module written so far.               *)
(***************************************************************************)
EXTENDS GuestShell

CONSTANTS
    Inputs      \* the links tried: records [shell, user, aliases]

VARIABLES
    pc,         \* the next section, or "done" or "failed"
    shell,      \* the two parsed modules
    user,
    aliases,    \* LinkOptions::aliases
    walk,       \* the import walk: position and what it recorded
    names,      \* the merged name section
    out         \* sections of the merged module, in order

vars == <<pc, shell, user, aliases, walk, names, out>>

TvmMm == <<"tvm_mm">>

\* the per-kind maps of the import walk, as sequences indexed by the user's
\* import index of that kind: <<"shell", i>> or <<"fwd", i>>
EmptyWalk == [i |-> 1, func |-> <<>>, global |-> <<>>, table |-> <<>>, forwarded |-> <<>>]

Init ==
    \E input \in Inputs :
      /\ pc = "parse"
      /\ shell = ParseModule(input.shell)
      /\ user = ParseModule(input.user)
      /\ aliases = input.aliases
      /\ walk = EmptyWalk
      /\ names = [present |-> FALSE, after |-> "none", items |-> <<>>]
      /\ out = <<>>

Fail == pc' = "failed" /\ UNCHANGED <<shell, user, aliases, walk, names, out>>

-----------------------------------------------------------------------------
(* The import walk.                                                        *)

ParseModules ==
    /\ pc = "parse"
    /\ IF shell.ok /\ user.ok /\ shell.import = <<>>
       THEN pc' = "walk" /\ UNCHANGED <<shell, user, aliases, walk, names, out>>
       ELSE Fail

Forwarded(kind) == SelectSeq(walk.forwarded, LAMBDA imp : imp.kind = kind)

ShellExports(name) ==
    {i \in DOMAIN shell.export : shell.export[i].kind = "func" /\ shell.export[i].name = name}

\* the record the walk keeps of one import
Forward(imp) == <<"fwd", Len(Forwarded(imp.kind))>>
Rewire(imp)  == <<"shell", shell.export[CHOOSE i \in ShellExports(imp.name) : TRUE].index>>

WalkImport ==
    LET imp   == user.import[walk.i]
        inner == imp.kind = "func" /\ imp.module = TvmMm
    IN  /\ pc = "walk"
        /\ walk.i <= Len(user.import)
        /\ IF imp.kind \in {"mem", "tag"} \/ (inner /\ ShellExports(imp.name) = {})
           THEN Fail
           ELSE /\ walk' = [walk EXCEPT
                     !.i = @ + 1,
                     ![imp.kind] = Append(@, IF inner THEN Rewire(imp) ELSE Forward(imp)),
                     !.forwarded = IF inner THEN @ ELSE Append(@, imp)]
                /\ UNCHANGED <<pc, shell, user, aliases, names, out>>

\* a user start function is refused after the walk
WalkEnds ==
    /\ pc = "walk"
    /\ walk.i > Len(user.import)
    /\ IF user.start # NoStart
       THEN Fail
       ELSE pc' = "names" /\ UNCHANGED <<shell, user, aliases, walk, names, out>>

-----------------------------------------------------------------------------
(* The index maps.                                                         *)

FwdCount(kind) == Len(Forwarded(kind))

MapShellFunc(i)   == i + FwdCount("func")
MapShellGlobal(i) == i + FwdCount("global")
MapShellTable(i)  == i + FwdCount("table")

MapUserType(t) == t + Len(shell.type)

MapUserFuncNoShell(i) ==                         \* mutant: shell functions not counted
    IF i < Len(walk.func)
    THEN LET to == At(walk.func, i) IN IF to[1] = "shell" THEN MapShellFunc(to[2]) ELSE to[2]
    ELSE FwdCount("func") + (i - Len(walk.func))

MapUserFunc(i) ==
    IF i < Len(walk.func)
    THEN LET to == At(walk.func, i) IN IF to[1] = "shell" THEN MapShellFunc(to[2]) ELSE to[2]
    ELSE FwdCount("func") + Len(shell.function) + (i - Len(walk.func))

MapUserGlobal(i) ==
    IF i < Len(walk.global)
    THEN At(walk.global, i)[2]
    ELSE FwdCount("global") + Len(shell.global) + (i - Len(walk.global))

MapUserTable(i) ==
    IF i < Len(walk.table)
    THEN At(walk.table, i)[2]
    ELSE FwdCount("table") + Len(shell.table) + (i - Len(walk.table))

\* the maps of one side, by index space; memories, element and data segments
\* keep their index
Shifted(side, ref) ==
    LET i == ref[2]
    IN <<ref[1],
         CASE ref[1] = "func"   -> IF side = "shell" THEN MapShellFunc(i) ELSE MapUserFunc(i)
           [] ref[1] = "global" -> IF side = "shell" THEN MapShellGlobal(i) ELSE MapUserGlobal(i)
           [] ref[1] = "table"  -> IF side = "shell" THEN MapShellTable(i) ELSE MapUserTable(i)
           [] ref[1] = "type"   -> IF side = "shell" THEN i ELSE MapUserType(i)
           [] OTHER             -> i>>

-----------------------------------------------------------------------------
(* The code rewriter.                                                      *)

\* operators whose indices rewrite_op translates
IndexOps == {"call", "return_call", "call_indirect", "return_call_indirect", "ref.func",
             "global.get", "global.set", "table.get", "table.set", "table.size",
             "table.grow", "table.fill", "table.copy", "table.init"}

\* bulk-memory operators: refused on the user's side for any memory but 0
MemoryOps == {"memory.init", "memory.copy", "memory.fill", "memory.size", "memory.grow"}

\* every other operator is the same instruction in the merged module, its
\* block type included
ForwardOtherOp(op) == op

RewriteOp(side, op) ==
    IF op.op \in IndexOps
    THEN [op EXCEPT !.ix = [j \in DOMAIN op.ix |-> Shifted(side, op.ix[j])]]
    ELSE ForwardOtherOp(op)

Refused(side, op) ==
    /\ side = "user"
    /\ op.op \in MemoryOps
    /\ \E j \in DOMAIN op.ix : op.ix[j][1] = "mem" /\ op.ix[j][2] # 0

RewriteFunctionBody(side, fn) ==
    [fn EXCEPT !.body = [a \in DOMAIN fn.body |->
       [fn.body[a] EXCEPT !.ops = [j \in DOMAIN fn.body[a].ops |->
                                     RewriteOp(side, fn.body[a].ops[j])]]]]

BodyRefused(side, fn) ==
    \E a \in DOMAIN fn.body : \E j \in DOMAIN fn.body[a].ops : Refused(side, fn.body[a].ops[j])

\* element items: `ref.func` operands are shifted, `global.get` operands not;
\* every other constant expression of the modules is copied
ConstOps == {"const", "ref.null", "global.get", "ref.func", "func"}

ItemWithRemap(side, e) ==
    [e EXCEPT !.ix = [j \in DOMAIN e.ix |->
                        IF e.ix[j][1] = "func" THEN Shifted(side, e.ix[j]) ELSE e.ix[j]]]

-----------------------------------------------------------------------------
(* The name section: NameSectionEntries.                                   *)

Absorb(side, items) ==
    [i \in DOMAIN items |->
       [items[i] EXCEPT !.index = Shifted(side, <<items[i].space, items[i].index>>)[2]]]

Subject(e) == <<e.space, e.index>>

Has(entries, e) == \E k \in DOMAIN entries : Subject(entries[k]) = Subject(e)

LastWins(entries) ==                             \* mutant: a later name replaces an earlier one
    FoldLeft(LAMBDA kept, e : Append(SelectSeq(kept, LAMBDA k : Subject(k) # Subject(e)), e),
             <<>>, entries)

\* of the entries for one index the first is kept (the order inside a
\* subsection is not represented)
SortedUnique(entries) ==
    FoldLeft(LAMBDA kept, e : IF Has(kept, e) THEN kept ELSE Append(kept, e), <<>>, entries)

NameSectionOf(m) == SelectSeq(m.customs, LAMBDA c : c.name = <<"name">>)

MergeNames ==
    LET s == NameSectionOf(shell)
        u == NameSectionOf(user)
        Items(side, cs) == IF cs = <<>> THEN <<>> ELSE Absorb(side, cs[1].items)
    IN  /\ pc = "names"
        /\ names' = [present |-> s \o u # <<>>,
                     after   |-> IF u # <<>> THEN u[1].after
                                 ELSE IF s # <<>> THEN s[1].after ELSE "none",
                     items   |-> SortedUnique(Items("shell", s) \o Items("user", u))]
        /\ pc' = "none"
        /\ UNCHANGED <<shell, user, aliases, walk, out>>

-----------------------------------------------------------------------------
(* Emission: a section, then the custom sections captured after it.        *)

SectionOrder == <<"none", "type", "import", "function", "table", "memory", "global",
                  "export", "start", "element", "datacount", "code", "data", "done">>

After(section) ==
    LET i == CHOOSE i \in DOMAIN SectionOrder : SectionOrder[i] = section
    IN  SectionOrder[i + 1]

EmitCustoms(marker) ==
    LET kept == SelectSeq(shell.customs \o user.customs,
                          LAMBDA c : c.after = marker /\ c.name # <<"name">>)
        raw  == [i \in DOMAIN kept |->
                   [sec |-> "custom", name |-> kept[i].name, items |-> kept[i].items]]
    IN  raw \o IF names.present /\ names.after = marker
               THEN << [sec |-> "custom", name |-> <<"name">>, items |-> names.items] >>
               ELSE <<>>

Emit(section, items) ==
    /\ pc' = After(section)
    /\ out' = out \o << [sec |-> section, items |-> items] >> \o EmitCustoms(section)
    /\ UNCHANGED <<shell, user, aliases, walk, names>>

EmitOptional(section, items) ==
    /\ pc' = After(section)
    /\ out' = out \o (IF items = <<>> THEN <<>> ELSE << [sec |-> section, items |-> items] >>)
                  \o EmitCustoms(section)
    /\ UNCHANGED <<shell, user, aliases, walk, names>>

EmitLeadingCustoms ==
    /\ pc = "none"
    /\ pc' = After("none")
    /\ out' = out \o EmitCustoms("none")
    /\ UNCHANGED <<shell, user, aliases, walk, names>>

EmitTypes == pc = "type" /\ Emit("type", shell.type \o user.type)

EmitImports ==
    /\ pc = "import"
    /\ EmitOptional("import", [i \in DOMAIN walk.forwarded |->
         IF walk.forwarded[i].kind = "func"
         THEN [walk.forwarded[i] EXCEPT !.ty = MapUserType(@)]
         ELSE walk.forwarded[i]])

EmitFunctions ==
    /\ pc = "function"
    /\ Emit("function", shell.function \o [i \in DOMAIN user.function |-> MapUserType(user.function[i])])

EmitTables == pc = "table" /\ Emit("table", shell.table \o user.table)

UserDefaultMin == IF user.memory = <<>> THEN 0 ELSE user.memory[1].min

BumpMinOnly(m) ==                                \* mutant: the maximum stays below
    IF UserDefaultMin > m.min THEN [m EXCEPT !.min = UserDefaultMin] ELSE m

\* pool 0 gets at least the pages the user's memory starts with
BumpPoolZero(m) ==
    IF UserDefaultMin > m.min
    THEN [m EXCEPT !.min = UserDefaultMin, !.max = IF @ < UserDefaultMin THEN UserDefaultMin ELSE @]
    ELSE m

EmitMemories ==
    /\ pc = "memory"
    /\ Emit("memory", [i \in DOMAIN shell.memory |->
                         IF i = 1 THEN BumpPoolZero(shell.memory[i]) ELSE shell.memory[i]])

\* initialisers are copied: push_global ignores its maps.  An initialiser
\* that is no constant expression the decoder knows stops the link.
EmitGlobals ==
    /\ pc = "global"
    /\ IF \E i \in DOMAIN user.global : user.global[i].init.op \notin ConstOps
       THEN Fail
       ELSE Emit("global", shell.global \o user.global)

Housekeeping == {<<"__data_end">>, <<"__heap_base">>, <<"__indirect_function_table">>}

KeptExports == SelectSeq(user.export, LAMBDA e : e.kind # "mem" /\ e.name \notin Housekeeping)

PushExport(side, e) == [e EXCEPT !.index = Shifted(side, <<e.kind, e.index>>)[2]]

AliasBad(a) ==
    \/ a.index >= Len(shell.memory)
    \/ \E i \in DOMAIN shell.export : shell.export[i].name = a.name
    \/ \E i \in DOMAIN KeptExports : KeptExports[i].name = a.name

EmitExports ==
    /\ pc = "export"
    /\ IF \E i \in DOMAIN aliases : AliasBad(aliases[i])
       THEN Fail
       ELSE Emit("export",
              [i \in DOMAIN shell.export |-> PushExport("shell", shell.export[i])]
              \o [i \in DOMAIN KeptExports |-> PushExport("user", KeptExports[i])]
              \o [i \in DOMAIN aliases |->
                    [name |-> aliases[i].name, kind |-> "mem", index |-> aliases[i].index]])

EmitStart ==
    /\ pc = "start"
    /\ EmitOptional("start", IF shell.start = NoStart THEN <<>> ELSE <<MapShellFunc(shell.start)>>)

\* the default table is written out as the side's table 0
DefaultKept(side, el) ==                         \* mutant: the default table stays table 0
    [el EXCEPT !.table = IF el.mode = "active" /\ @ # Default THEN Shifted(side, <<"table", @>>)[2] ELSE @,
               !.items = [i \in DOMAIN el.items |-> ItemWithRemap(side, el.items[i])]]

PushElement(side, el) ==
    [el EXCEPT !.table = IF el.mode = "active"
                         THEN Shifted(side, <<"table", IF @ = Default THEN 0 ELSE @>>)[2] ELSE @,
               !.items = [i \in DOMAIN el.items |-> ItemWithRemap(side, el.items[i])]]

EmitElements ==
    /\ pc = "element"
    /\ Emit("element", [i \in DOMAIN shell.element |-> PushElement("shell", shell.element[i])]
                       \o [i \in DOMAIN user.element |-> PushElement("user", user.element[i])])

EmitDataCount ==
    LET total == shell.datacount + Len(user.data)
    IN  pc = "datacount" /\ EmitOptional("datacount", IF total > 0 THEN <<total>> ELSE <<>>)

ShellNeedsRenumber == walk.forwarded # <<>>

EmitCode ==
    LET shellCode == IF ShellNeedsRenumber
                     THEN [i \in DOMAIN shell.code |-> RewriteFunctionBody("shell", shell.code[i])]
                     ELSE shell.code
    IN  /\ pc = "code"
        /\ IF \E i \in DOMAIN user.code : BodyRefused("user", user.code[i])
           THEN Fail
           ELSE Emit("code", shellCode \o
                       [i \in DOMAIN user.code |-> RewriteFunctionBody("user", user.code[i])])

\* only memory 0 may be named by a user's active segment
EmitData ==
    /\ pc = "data"
    /\ IF \E i \in DOMAIN user.data : user.data[i].mode = "active" /\ user.data[i].mem # 0
       THEN Fail
       ELSE Emit("data", shell.data \o user.data)

Next ==
    \/ ParseModules \/ WalkImport \/ WalkEnds \/ MergeNames
    \/ EmitLeadingCustoms \/ EmitTypes \/ EmitImports \/ EmitFunctions \/ EmitTables
    \/ EmitMemories \/ EmitGlobals \/ EmitExports \/ EmitStart \/ EmitElements
    \/ EmitDataCount \/ EmitCode \/ EmitData

Spec == Init /\ [][Next]_vars

-----------------------------------------------------------------------------
(* Properties of a finished link.                                          *)

Merged == ParseModule(out)
Source(side) == IF side = "shell" THEN shell ELSE user
Sides == {"shell", "user"}

\* what a reference of an input module has to reach in the merged module
LinkedEntity(side, ref) ==
    LET e == Entity(Source(side), ref[1], ref[2])
    IN  CASE side = "user" /\ ref[1] = "mem" -> Entity(shell, "mem", 0)
          [] side = "user" /\ ref[1] = "func" /\ e[1] = "import" /\ e[2] = TvmMm ->
               Entity(shell, "func",
                      shell.export[CHOOSE i \in ShellExports(e[3]) : TRUE].index)
          [] OTHER -> e

Follows(m, side, before, after) ==
    /\ before.op = after.op
    /\ Len(before.ix) = Len(after.ix)
    /\ \A j \in DOMAIN before.ix :
         /\ before.ix[j][1] = after.ix[j][1]
         /\ Entity(m, after.ix[j][1], after.ix[j][2]) = LinkedEntity(side, before.ix[j])

\* where an entry of an input ended up, by its id
Found(section, id) == CHOOSE k \in DOMAIN section : section[k].id = id

(* Every instruction of both modules refers, after linking, to what it     *)
(* referred to before: calls to `tvm_mm` reach the shell helper of that    *)
(* name, memory 0 is pool 0, and everything else is unchanged, whatever    *)
(* order the imports came in.  Functions keep their signature.             *)
CodeFollows ==
    pc = "done" =>
      LET m == Merged
          first == Len(ImportsOf(m, "func"))
      IN  \A side \in Sides : \A i \in DOMAIN Source(side).code :
            LET src  == Source(side)
                fn   == src.code[i]
                k    == Found(m.code, fn.id)
            IN  /\ SignatureOf(m, first + k - 1)
                     = SignatureOf(src, Len(ImportsOf(src, "func")) + i - 1)
                /\ \A a \in DOMAIN fn.body : \A j \in DOMAIN fn.body[a].ops :
                     Follows(m, side, fn.body[a].ops[j], m.code[k].body[a].ops[j])

(* Exports, element segments, global initialisers and the shell's start    *)
(* function follow too; the imports that are left are the user's, in their *)
(* order, with their signatures, and none of them is a `tvm_mm` function.  *)
SectionsFollow ==
    pc = "done" =>
      LET m == Merged
          wanted == SelectSeq(user.import, LAMBDA imp : imp.kind # "func" \/ imp.module # TvmMm)
      IN  /\ Len(m.import) = Len(wanted)
          /\ \A i \in DOMAIN wanted :
               /\ m.import[i].module = wanted[i].module
               /\ m.import[i].name = wanted[i].name
               /\ wanted[i].kind = "func"
                    => Entity(m, "type", m.import[i].ty) = Entity(user, "type", wanted[i].ty)
          /\ \A side \in Sides :
               /\ \A i \in DOMAIN Source(side).global :
                    LET g == Source(side).global[i]
                    IN  Follows(m, side, g.init, m.global[Found(m.global, g.id)].init)
               /\ \A i \in DOMAIN Source(side).element :
                    LET el == Source(side).element[i]
                        to == m.element[Found(m.element, el.id)]
                    IN  /\ el.mode = "active" =>
                             Entity(m, "table", IF to.table = Default THEN 0 ELSE to.table)
                               = LinkedEntity(side, <<"table", IF el.table = Default THEN 0 ELSE el.table>>)
                        /\ \A j \in DOMAIN el.items : Follows(m, side, el.items[j], to.items[j])
          /\ m.start = NoStart <=> shell.start = NoStart
          /\ shell.start # NoStart =>
               Entity(m, "func", m.start) = LinkedEntity("shell", <<"func", shell.start>>)
          /\ \A i \in DOMAIN shell.export :
               \E k \in DOMAIN m.export :
                 /\ m.export[k].name = shell.export[i].name
                 /\ Entity(m, m.export[k].kind, m.export[k].index)
                      = LinkedEntity("shell", <<shell.export[i].kind, shell.export[i].index>>)
          /\ \A i \in DOMAIN KeptExports :
               \E k \in DOMAIN m.export :
                 /\ m.export[k].name = KeptExports[i].name
                 /\ Entity(m, m.export[k].kind, m.export[k].index)
                      = LinkedEntity("user", <<KeptExports[i].kind, KeptExports[i].index>>)

(* In the merged name section an index has one name, and it is a name an   *)
(* input gave to that very entity; every function of the shell keeps its   *)
(* own name, also where a user import was rewired to it.                   *)
NamesFollow ==
    pc = "done" =>
      LET m == Merged
          merged == NameSectionOf(m)
          Named(side) == IF NameSectionOf(Source(side)) = <<>> THEN <<>>
                         ELSE NameSectionOf(Source(side))[1].items
          Gave(side, e, to) ==
            \E i \in DOMAIN Named(side) :
              /\ Named(side)[i].space = e.space /\ Named(side)[i].name = e.name
              /\ LinkedEntity(side, <<e.space, Named(side)[i].index>>) = to
      IN  /\ Len(merged) <= 1
          /\ \A i, k \in DOMAIN names.items :
               Subject(names.items[i]) = Subject(names.items[k]) => i = k
          /\ \A i \in DOMAIN names.items :
               LET e  == names.items[i]
                   to == Entity(m, e.space, e.index)
               IN  /\ \E side \in Sides : Gave(side, e, to)
                   /\ to[1] = "shell" /\ e.space = "func" => Gave("shell", e, to)
          /\ merged # <<>> => merged[1].items = names.items

(* The merged pool 0 is a valid memory that holds the user's initial pages *)
(* and the other pools are the template's.                                 *)
PoolZeroFits ==
    pc = "done" =>
      LET m == Merged.memory
      IN  /\ Len(m) = Len(shell.memory)
          /\ m[1].min <= m[1].max
          /\ user.memory # <<>> => m[1].min >= user.memory[1].min
          /\ m[1].max >= shell.memory[1].max
          /\ \A i \in DOMAIN m : i > 1 => m[i] = shell.memory[i]

(* Whatever was forwarded in front of the shell, a helper of the linked    *)
(* module called for a pool touches that pool's memory and no other than   *)
(* the default one, by binary search and through the function tables       *)
(* alike, and traps for a pool that does not exist.                        *)
HelpersReachTheirPool ==
    pc = "done" =>
      LET m == Merged
          n == Len(shell.memory)
          Dispatchers == {<<"tvm_load", ty>> : ty \in ToSet(LoadTypes)}
                         \cup {<<"tvm_store", ty>> : ty \in ToSet(LoadTypes)}
                         \cup {<<"tvm_load_indirect", ty>> : ty \in ToSet(LoadTypes)}
                         \cup {<<"tvm_copy_to_default">>, <<"tvm_copy_from_default">>}
          Touched(ops) == UNION {{ops[i].ix[j][2] : j \in DOMAIN ops[i].ix} : i \in DOMAIN ops}
      IN  \A d \in Dispatchers : \A pool \in 0 .. n :
            LET ops == RunsFor(m, d, pool)
            IN  IF pool = n THEN ops = <<>>
                ELSE Touched(ops) = {pool} \cup (IF Len(d) = 1 THEN {0} ELSE {})
=============================================================================
