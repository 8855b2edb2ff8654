----------------------------- MODULE RawLinkerMC -----------------------------
EXTENDS RawLinker

(* Lanes 15 0 1 3: index lists that wrap, run densely, and run densely for *)
(* two cells only.                                                         *)
MCInitialMem == <<3, 3, 0, 0, 1, 0, 3, 0>>
MCInitialBytes == << <<1, 2, 3, 1>>, <<1, 2, 0, 3>> >>

H(r, g, o) == pack([region |-> r, generation |-> g, offset |-> o])
Handles == {H(1, 1, 0), H(1, 1, 2), H(2, 1, 0), H(2, 2, 0), H(3, 1, 0)}
Lens == {0, 2, 3}

Named(names, args) == [name : names, args : args]
MCCalls ==
  Named({"sum_u8", "hash_fnv1a", "min_max_u8", "sum_u32_le", "max_u32_le", "and_fold_u8",
         "or_fold_u8", "xor_fold_u8", "popcount"}, Handles \X Lens)
  \cup Named({"find_byte", "count_byte"}, Handles \X Lens \X {1, 3})
  \cup Named({"fill", "xor_with_byte"}, {H(1, 1, 2), H(2, 2, 0)} \X {2, 3} \X {1})
  \cup Named({"eq", "lex_cmp"}, {H(1, 1, 0), H(1, 1, 2)} \X {H(2, 1, 0), H(2, 2, 0)} \X {2, 3})
  \cup Named({"xor_into_region"}, {H(1, 1, 0), H(2, 1, 0)} \X {H(2, 1, 0), H(2, 2, 0)} \X {2})
  \cup Named({"count_in_range"}, Handles \X {3} \X {1} \X {2})
  \cup Named({"alloc"}, {1, 6} \X {1, 4}) \cup Named({"dealloc"}, Handles \X {0})
  \cup Named({"copy_region"}, {1} \X {2} \X {2, 6} \X {1} \X {2, 3})
  \cup Named({"last_error"}, {<<0>>})
  \cup Named({"read", "write"}, {H(1, 1, 0), H(2, 2, 0)} \X {0, 6} \X {0, 3})
  \cup Named({"read_gather"}, {H(1, 1, 1)} \X {0, 2, 4} \X {0, 2, 3} \X {1, 2} \X {0})
  \cup Named({"index_of"}, {H(1, 1, 0), H(2, 1, 0)} \X {3, 4} \X {2, 7} \X {0, 1, 2, 5})
  \cup Named({"byte_histogram"}, {H(1, 1, 0), H(2, 2, 0)} \X {3} \X {0, 8})
=============================================================================
