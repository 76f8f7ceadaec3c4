------------------------------ MODULE Traceable ------------------------------
(***************************************************************************)
(* The implementations of Trace: those of refuse for numbers, strings,     *)
(* Root, Ref and the collections of std and kempt (src/src/lib.rs), and    *)
(* what derive(Trace) generates for structs and enums (src/refuse-macros). *)
(*                                                                         *)
(* An implementation is made from those of its parameters and fields, so   *)
(* there are two operators for each: ...May is MAY_CONTAIN_REFERENCES,     *)
(* from those of the parts, and ...Trace is the sequence of the Refs that  *)
(* trace() marks, from what the trace() of the parts marks.                *)
(***************************************************************************)
EXTENDS SequencesExt

\* ContainsNoRefs, which each SimpleType is; Root<T>, traced as a root; Ref<T>.
SimpleMay == FALSE
SimpleTrace == <<>>
RootMay == FALSE
RootTrace == <<>>
RefMay == TRUE
RefTrace(object) == <<object>>

\* Vec, VecDeque, BinaryHeap, LinkedList, HashSet, BTreeSet, Set and arrays.
ListMay(item) == item
ListTrace(items) == FlattenSeq(items)

\* Faulty variant of MapMay: only the values are asked.
MapMayValue(key, value) == value

\* HashMap, BTreeMap and Map; an entry is a key and a value.
MapMay(key, value) == key \/ value
MapTrace(entries) ==
    FlattenSeq([i \in DOMAIN entries |-> entries[i][1] \o entries[i][2]])

\* derive(Trace) of a struct: the fields that are not ignored.
Field(may) == [may |-> may, ignore |-> FALSE]
IgnoredField(may) == [may |-> may, ignore |-> TRUE]
StructMay(fields) ==
    \E i \in DOMAIN fields : fields[i].may /\ ~fields[i].ignore
StructTrace(fields, traces) ==
    FlattenSeq([i \in DOMAIN fields |->
                   IF fields[i].ignore THEN <<>> ELSE traces[i]])

\* derive(Trace) of an enum.  A variant is ignored as a whole or has no ignored
\* field: the pattern generated for any other does not compile.
Variant(mays) == [mays |-> mays, ignore |-> FALSE]
IgnoredVariant(mays) == [mays |-> mays, ignore |-> TRUE]
EnumMay(variants) ==
    \E i \in DOMAIN variants :
        TRUE \in Range(variants[i].mays) /\ ~variants[i].ignore
EnumTrace(variant, traces) ==
    IF variant.ignore THEN <<>> ELSE FlattenSeq(traces)
===============================================================================
