------------------------------- MODULE MCMinst -------------------------------
(***************************************************************************)
(* Binaries of two imports and four exports, and the ways in which each    *)
(* part of one can be wrong.                                               *)
(***************************************************************************)
EXTENDS Minst

CONSTANTS Move, Grow   \* the systems

Import(module, name, type) ==
  [module |-> module, name |-> name, kind |-> "func", type |-> type]
Export(name, kind) == [name |-> name, kind |-> kind]

GetImport == Import("env", "get", Takes(I32(4), 0))
SeekImport == Import("wasi_snapshot_preview1", "fd_seek",
                     Takes(<<"i32", "i64", "i32", "i32">>, 1))

Sound == [compiles |-> TRUE, imports |-> <<GetImport, SeekImport>>,
          exports |-> <<Export(Move, "func"), Export("_initialize", "func"),
                        Export(Grow, "func"), Export("other", "memory")>>]

MCModules ==
  {Sound,
   [Sound EXCEPT !.compiles = FALSE],
   [Sound EXCEPT !.imports[2] = Import("env", "fd_seek", @.type)],
   [Sound EXCEPT !.imports[1] = Import("wasi_unstable", "get", @.type)],
   [Sound EXCEPT !.imports[2].type = Takes(I32(4), 1)],
   [Sound EXCEPT !.imports[1].kind = "memory"],
   [Sound EXCEPT !.imports = <<>>, !.exports[2] = Export("_initialize", "global")],
   [Sound EXCEPT !.exports[3] = Export(Grow, "table")],
   [Sound EXCEPT !.exports = SubSeq(@, 1, 3)],
   [Sound EXCEPT !.exports = SubSeq(@, 3, 4)]}

MCLists == {<<Move>>, <<Grow, Move>>}
==============================================================================
