------------------------------- MODULE MCCodec -------------------------------
EXTENDS Codec

Ids == {1, 127, 300}
V(type, u) == Variant(type, u)
Imm(a, v) == [kind |-> "imm", attr |-> a, v |-> v]
Ref(id) == [kind |-> "node", attr |-> id, v |-> cali_make_empty_variant]
Empty == [kind |-> "none", attr |-> 0, v |-> cali_make_empty_variant]
Imms == {Imm(7, V(TypeInt, -1)), Imm(200, V(TypeDouble, 5))}
NoCalls == [lens |-> {16}, nodes |-> {}, imms |-> {}, lists |-> {}, infos |-> {}, values |-> {}, texts |-> {},
            calls |-> 3, again |-> FALSE]
Info(id, parent, v) == [id |-> id, attr |-> 8, parent |-> parent, value |-> v]
Values ==
  {V(t, u) : t \in {TypeInt, TypeUint, TypeAddr}, u \in {0, 1, IntMax, IntMax + 1, Word \div 2 - 1, Word \div 2, Word - 1}}
    \cup {V(TypeDouble, q) : q \in {0, 3, -3, 6, 4 * IntMax, 4 * (IntMax + 2)}}
    \cup {V(TypeBool, u) : u \in {0, 1}} \cup {V(TypeType, u) : u \in {0, 2, 9}}
    \cup {cali_make_variant(TypeString, d) : d \in {<<>>, <<65>>, <<65, 66>>, <<65, 0>>}}
    \cup {cali_make_variant(TypeUsr, <<1, 2>>), V(TypePtr, 3), V(TypeInv, 0)}

RecordCfg == [NoCalls EXCEPT !.lens = {12, 20, 26}, !.nodes = {<<>>} \cup {<<i>> : i \in {5}},
               !.imms = {<<e>> : e \in Imms} \cup {<<e, f, e>> : e, f \in Imms},
               !.calls = 4]
ListCfg == [NoCalls EXCEPT !.lens = {20, 40},
              !.lists = {l \in {<<a, b, c, d>> : a, b, c, d \in {Ref(127), Ref(300), Empty} \cup Imms} :
                           Cardinality({i \in DOMAIN l : l[i].kind = "node"}) <= BlockSize}, !.calls = 1]
StreamCfg == [NoCalls EXCEPT !.lens = {14, 40}, !.nodes = {<<1, 300>>}, !.imms = {<<e>> : e \in Imms},
               !.infos = {Info(1, IdInv, cali_make_variant(TypeString, <<65, 200, 66>>)),
                          Info(300, 1, V(TypeInt, -2)), Info(2, 300, cali_make_variant(TypeString, [i \in 1 .. 9 |-> i]))},
               !.calls = 5]
ValueCfg == [NoCalls EXCEPT !.values = Values, !.calls = 1,
               !.texts = {Text("dec", n) : n \in {-5, 0, 7, IntMax, Word - 1, Word}} \cup {Text("fixed", 3)}
                           \cup {Word_(d) : d \in {<<>>, <<65>>, <<102>>} \cup TrueWords \cup FalseWords}]
CodecCfgs == {ListCfg, StreamCfg, ValueCfg, RecordCfg}
BlocksCfgs == {[NoCalls EXCEPT !.lens = {20}, !.nodes = {<<a, b, c>> : a, b, c \in {1, 2}}, !.calls = 2, !.again = TRUE]}
=============================================================================
