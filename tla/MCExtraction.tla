---------------------------- MODULE MCExtraction ----------------------------
EXTENDS Extraction

Required(t) == Field(t, "required")
Optional(t) == Field(t, "default")
Level == Obj([level |-> Optional(Leaf("int"))])

(***************************************************************************)
(* Flat and nested defaults, defaults a path cannot reach (in a list and   *)
(* behind None), a null that is a value, and each kind a dialect refuses.  *)
(***************************************************************************)
MCSchemas ==
  { Obj([id |-> Required(Leaf("int")), level |-> Optional(Leaf("int"))]),
    Obj([id |-> Optional(Opt(Leaf("int"))), sub |-> Required(Level)]),
    Obj([subs |-> Required(List(Level))]),
    Obj([sub |-> Optional(Opt(Level))]),
    Obj([id |-> Required(Leaf("str")), tags |-> Optional(List(Leaf("int")))]),
    Obj([id |-> Optional(Leaf("union"))]),
    Obj([id |-> Required(Leaf("oneof"))]),
    Obj([id |-> Required(Leaf("dict"))]),
    Obj([id |-> Required(Leaf("int")), subs |-> Optional(List(Leaf("rec")))]) }

Plain == <<"word">>
WithComma == <<"word", ",", "word">>
=============================================================================
