-------------------------------- MODULE Wasm --------------------------------
(***************************************************************************)
(* The part of the WebAssembly binary format that the shell template emits *)
(* and the static linker rewrites: a module is a sequence of sections, and *)
(* every reference in it is an index into an index space, the imports of a *)
(* kind first and the definitions after them.                              *)
(*                                                                         *)
(* A section is [sec |-> name, items |-> sequence]; a custom section has a *)
(* name of its own.  An entry that other entries can refer to carries an   *)
(* id, which stands for everything in the entry that is not an index.      *)
(* Names are tuples: <<"tvm_load_u8_p", 3>> is `tvm_load_u8_p3`.           *)
(***************************************************************************)
EXTENDS Integers, Sequences, FiniteSets, SequencesExt

\* indices count from 0
At(s, i) == s[i + 1]

\* an instruction or constant expression: its operator and the indices it
\* carries, each as <<index space, index>>
Ins(op, ix) == [op |-> op, ix |-> ix]

\* an active element segment without a table index: table 0
Default == -1

\* a start section is absent
NoStart == -1

-----------------------------------------------------------------------------
(* parse_module: what the linker reads of a module.                        *)

EmptyModule ==
    [type |-> <<>>, import |-> <<>>, function |-> <<>>, table |-> <<>>,
     memory |-> <<>>, global |-> <<>>, export |-> <<>>, start |-> NoStart,
     element |-> <<>>, code |-> <<>>, data |-> <<>>, datacount |-> 0,
     customs |-> <<>>, marker |-> "none", ok |-> TRUE]

\* sections whose entries are collected one after the other
ListSections == {"type", "import", "function", "table", "memory", "global",
                 "export", "element", "code", "data"}

\* a custom section is remembered with the section it followed
CaptureCustom(m, s) ==
    [m EXCEPT !.customs = Append(@, [after |-> m.marker, name |-> s.name, items |-> s.items])]

\* an unknown section, or a type that is not a function type, ends the parse
ParseSection(m, s) ==
    CASE s.sec = "custom"      -> CaptureCustom(m, s)
      [] s.sec = "start"       -> [m EXCEPT !.start = s.items[1], !.marker = s.sec]
      [] s.sec = "datacount"   -> [m EXCEPT !.datacount = s.items[1], !.marker = s.sec]
      [] s.sec \in ListSections -> [m EXCEPT ![s.sec] = @ \o s.items, !.marker = s.sec]
      [] OTHER                 -> [m EXCEPT !.ok = FALSE]

ParseModule(sections) ==
    LET m == FoldLeft(ParseSection, EmptyModule, sections)
    IN  [m EXCEPT !.ok = @ /\ \A i \in DOMAIN m.type : m.type[i].func]

-----------------------------------------------------------------------------
(* Index spaces.                                                           *)

ImportsOf(m, kind) == SelectSeq(m.import, LAMBDA imp : imp.kind = kind)

DefinedIn(m, space) ==
    CASE space = "type"   -> m.type
      [] space = "func"   -> m.code
      [] space = "table"  -> m.table
      [] space = "mem"    -> m.memory
      [] space = "global" -> m.global
      [] space = "elem"   -> m.element
      [] space = "data"   -> m.data

SpaceSize(m, space) == Len(ImportsOf(m, space)) + Len(DefinedIn(m, space))

\* what an index refers to: an import by its two names, a definition by its id
Entity(m, space, i) ==
    LET imps == ImportsOf(m, space)
        defs == DefinedIn(m, space)
    IN  CASE i < Len(imps) -> <<"import", At(imps, i).module, At(imps, i).name>>
          [] i >= Len(imps) /\ i < SpaceSize(m, space) -> At(defs, i - Len(imps)).id
          [] OTHER -> <<"dangling">>

\* the signature a function index has
SignatureOf(m, f) ==
    LET imps == ImportsOf(m, "func")
        ty   == IF f < Len(imps) THEN At(imps, f).ty ELSE At(m.function, f - Len(imps))
    IN  Entity(m, "type", ty)
=============================================================================
