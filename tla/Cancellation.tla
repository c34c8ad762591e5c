---------------------------- MODULE Cancellation ----------------------------
(***************************************************************************)
(* src/ring/cancellation.rs: a Cancellation forgets the type of what it    *)
(* keeps.  What is left is two words, data and metadata, and a function    *)
(* that has to free from these words what the value owned: each heap       *)
(* object with the layout it was allocated with.                           *)
(*                                                                         *)
(* An object is its name, its layout, and what the values stored in it own *)
(* in turn.  A pointer is the object it leads to.                          *)
(***************************************************************************)
Object(name, layout, owns) == [name |-> name, layout |-> layout, owns |-> owns]

Null == Object("none", "none", {})

NoMetadata == "0"

(* Values of the types that implement Cancel.  The layout of a boxed slice  *)
(* is its length, that of a trait object is known to its vtable, and that   *)
(* of a C string is found where its nul is.                                 *)
Unit             == [impl |-> "unit", ptr |-> Null]
Boxed(o)         == [impl |-> "box", ptr |-> Object(o, "sized", {})]
CStr(o)          == [impl |-> "cstring", ptr |-> Object(o, "nul", {})]
Slice(o, owns)   == [impl |-> "slice", ptr |-> Object(o, "length", owns)]
Dyn(o)           == [impl |-> "dyn", ptr |-> Object(o, "vtable", {})]
RegisteredBuf(o) == [impl |-> "registered", ptr |-> Object(o, "length", {})]

(* Both halves are CancelNarrow: boxed or C strings, whose metadata says    *)
(* nothing.                                                                 *)
Pair(l, r) == [impl |-> "pair", left |-> l, right |-> r]

(* Cancel::into_raw; that of a pair leaves out the metadata of its halves.  *)
IntoRaw(v) ==
  CASE v.impl = "pair" -> <<v.left.ptr, v.right.ptr>>
    [] v.impl \in {"slice", "registered", "dyn"} -> <<v.ptr, v.ptr.layout>>
    [] OTHER -> <<v.ptr, NoMetadata>>

(* Freed with another layout than its own, an object is not freed.          *)
Free(ptr, layout) ==
  IF ptr.layout = layout THEN {ptr.name} \cup ptr.owns ELSE {}

(* Cancel::drop_raw of a type other than a pair.                            *)
DropRaw(impl, data, metadata) ==
  CASE impl = "unit" -> {}
    [] impl = "box" -> Free(data, "sized")
    [] impl = "cstring" -> Free(data, "nul")
    [] impl \in {"slice", "registered", "dyn"} -> Free(data, metadata)

(* Faulty: the callback of a pair drops its first half only.                *)
DropPairHalf(l, r, data, metadata) == DropRaw(l, data, NoMetadata)

DropPair(l, r, data, metadata) ==
  DropRaw(l, data, NoMetadata) \cup DropRaw(r, metadata, NoMetadata)

(* What a Cancellation made from v keeps: what it frees when it is dropped. *)
From(v) ==
  LET raw == IntoRaw(v) IN
  IF v.impl = "pair" THEN DropPair(v.left.impl, v.right.impl, raw[1], raw[2])
  ELSE DropRaw(v.impl, raw[1], raw[2])
=============================================================================
