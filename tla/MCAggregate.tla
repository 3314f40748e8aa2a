---------------------------- MODULE MCAggregate ----------------------------
(* Instances of Aggregate for TLC.                                          *)
EXTENDS Aggregate

CONSTANTS m, w

Label(a, v) == <<a, v>>
Ref(path) == <<"ref", path>>
ImmE(a, v) == <<"imm", a, v>>

Fn == [name |-> "fn", store |-> "ref", aggregatable |-> FALSE]
K == [name |-> "k", store |-> "ref", aggregatable |-> FALSE]
I == [name |-> "i", store |-> "imm", aggregatable |-> TRUE]
MCExisting == <<Fn, K>>
MCAttributes == {Fn, K, I}

(* Records that agree on some of the attributes, one without a value.       *)
MCSnapshots ==
    {<<Ref(<<Label("fn", 1), Label("fn", 2)>>), ImmE("i", 3)>>,
     <<Ref(<<Label("fn", 1)>>), Ref(<<Label("k", 1)>>), ImmE("i", 5)>>,
     <<Ref(<<Label("k", 1)>>)>>}

MCConfigs == {{}, {"path", "k", "i"}, {"*", "i"}}

(* Paths of one length collide.                                             *)
MCEntryHash(e) == IF IsRef(e) THEN Len(e[2]) ELSE e[3]
=============================================================================
