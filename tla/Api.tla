-------------------------------- MODULE Api ---------------------------------
(***************************************************************************)
(* The interfaces a program calls: the C API of src/src/caliper/cali.cpp,  *)
(* the C++ classes of Annotation.cpp and what they use of Caliper.cpp,     *)
(* the attributes, the table of channels, the snapshots and the globals.   *)
(*                                                                         *)
(* A call is one step, except where another thread can come in between:    *)
(* create_attribute looks the name up, builds its nodes, publishes the     *)
(* attribute and then announces it to the channels, and Annotation::detach *)
(* decrements the reference count and then reads it again.                 *)
(* Creating and deleting channels is documented as not thread-safe, so     *)
(* those calls run while no other thread is inside Caliper.                *)
(*                                                                         *)
(* A metadata tree path is a sequence of <<attribute, value>> pairs, root  *)
(* first.  A value is [type, v].                                           *)
(***************************************************************************)
EXTENDS Integers, FiniteSets, SequencesExt, TLC

CONSTANTS
    ApiConfigs,   \* [ops, threads, names, types, presets, scope, share,
                  \* depth: bound on regions and objects in scope of a thread]
    NoAttr,       \* Attribute::invalid
    ApiMaxObjs,   \* bounds of the model: Annotation and Loop objects in all, and channels
    ApiMaxChans

VARIABLES
    ac,           \* the configuration
    attribute_map,\* GlobalData::attribute_map: name -> attribute
    frame,        \* what each thread still has to do of its call
    board,        \* the blackboard of each thread, and of the process
    stack_error,  \* ThreadData::stack_error
    channels,     \* GlobalData::channels; a deleted one is not live
    objs,         \* Annotation::Impl and Loop::Impl objects
    scope,        \* the C++ objects in scope of each thread, innermost last
    got,          \* history: <<name, attribute>> pairs that calls returned
    globals_set   \* history: the value each global was last set to

apivars == <<ac, attribute_map, frame, board, stack_error, channels, objs, scope, got, globals_set>>

Process == 0
Idle == [pc |-> "idle"]
Quiet == \A t \in ac.threads : frame[t] = Idle
EmptyBoard == [region |-> <<>>, unaligned |-> <<>>, vals |-> <<>>]
Str(x) == [type |-> "string", v |-> x]

-----------------------------------------------------------------------------
(* Attributes.  One is [name, type, prop, meta, by]; `by' is the thread    *)
(* whose tree made its node, which tells redundant nodes of one name apart.*)

\* The attributes of api.cpp
ApiAttr(n, p) == [name |-> n, type |-> "string", prop |-> p \cup {"thread"}, meta |-> <<>>, by |-> Process]
region_attr == ApiAttr("region", {"nested"})
loop_attr == ApiAttr("loop", {"nested"})
phase_attr == ApiAttr("phase", {"nested"})
class_iteration_attr == [ApiAttr("class.iteration", {"skip_events"}) EXCEPT !.type = "bool"]
init_api_attributes ==
    [n \in {"region", "loop", "phase", "class.iteration"} |->
       CASE n = "region" -> region_attr [] n = "loop" -> loop_attr
         [] n = "phase" -> phase_attr [] OTHER -> class_iteration_attr]

\* Presets replace the properties; globals have process scope and are
\* unaligned; other attributes get the default scope unless they have one.
Properties(name, prop) ==
    LET p == IF name \in DOMAIN ac.presets THEN ac.presets[name] ELSE prop
        g == IF "global" \in p THEN (p \ {"thread"}) \cup {"process", "unaligned"} ELSE p
    IN IF {"thread", "process"} \cap g = {} THEN g \cup {ac.scope} ELSE g

get_attribute(name) == IF name \in DOMAIN attribute_map THEN attribute_map[name] ELSE NoAttr

\* The first part of create_attribute: the lookup, and the nodes if it fails.
create_attribute(t, name, type, prop, meta, then) ==
    frame' = [frame EXCEPT ![t] =
      IF name \in DOMAIN attribute_map
      THEN [pc |-> "return", attr |-> attribute_map[name], then |-> then, name |-> name]
      ELSE [pc |-> "publish", name |-> name, then |-> then,
            attr |-> [name |-> name, type |-> type, prop |-> Properties(name, prop),
                      meta |-> meta, by |-> t]]]

(* Mutation: without the second lookup under the lock.                     *)
publish_unchecked(t) ==
    /\ frame[t].pc = "publish"
    /\ attribute_map' = (frame[t].name :> frame[t].attr) @@ attribute_map
    /\ frame' = [frame EXCEPT ![t].pc = "announce"]
    /\ UNCHANGED <<ac, board, stack_error, channels, objs, scope, got, globals_set>>
\* The second lookup, and the insertion
publish(t) ==
    /\ frame[t].pc = "publish"
    /\ IF frame[t].name \in DOMAIN attribute_map
       THEN /\ frame' = [frame EXCEPT ![t].pc = "return", ![t].attr = attribute_map[frame[t].name]]
            /\ UNCHANGED attribute_map
       ELSE /\ attribute_map' = (frame[t].name :> frame[t].attr) @@ attribute_map
            /\ frame' = [frame EXCEPT ![t].pc = "announce"]
    /\ UNCHANGED <<ac, board, stack_error, channels, objs, scope, got, globals_set>>

\* create_attr_evt, for every channel, active or not
announce(t) ==
    /\ frame[t].pc = "announce"
    /\ channels' = [i \in DOMAIN channels |->
         IF channels[i].live THEN [channels[i] EXCEPT !.seen = @ \cup {frame[t].attr}] ELSE channels[i]]
    /\ frame' = [frame EXCEPT ![t].pc = "return"]
    /\ UNCHANGED <<ac, attribute_map, board, stack_error, objs, scope, got, globals_set>>

-----------------------------------------------------------------------------
(* Blackboards: begin, end and set of Caliper.cpp                          *)

SlotOf(a) == IF "unaligned" \in a.prop THEN "unaligned" ELSE "region"
BoardOf(t, a) == IF "thread" \in a.prop THEN t ELSE Process
Has(path, a) == \E i \in DOMAIN path : path[i][1] = a
LastOf(path, a) == CHOOSE i \in DOMAIN path : path[i][1] = a /\ \A j \in i + 1 .. Len(path) : path[j][1] # a

handle_begin(b, a, v) ==
    IF "asvalue" \in a.prop THEN [b EXCEPT !.vals = (a :> v) @@ @]
    ELSE [b EXCEPT ![SlotOf(a)] = Append(@, <<a, v>>)]

handle_set(b, a, v) ==
    IF "asvalue" \in a.prop THEN [b EXCEPT !.vals = (a :> v) @@ @]
    ELSE [b EXCEPT ![SlotOf(a)] =
            Append(IF Has(@, a) THEN RemoveAt(@, LastOf(@, a)) ELSE @, <<a, v>>)]

handle_end(b, a) ==
    IF "asvalue" \in a.prop THEN [b EXCEPT !.vals = [x \in DOMAIN @ \ {a} |-> @[x]]]
    ELSE [b EXCEPT ![SlotOf(a)] = RemoveAt(@, LastOf(@, a))]

\* load_current_entry finds an entry that end() accepts (no overlap allowed)
load_current_entry(b, a) ==
    IF "asvalue" \in a.prop THEN a \in DOMAIN b.vals
    ELSE Has(b[SlotOf(a)], a) /\ (SlotOf(a) = "unaligned" \/ Last(b.region)[1] = a)

Begin(t, a, v) ==
    board' = IF stack_error[t] THEN board ELSE [board EXCEPT ![BoardOf(t, a)] = handle_begin(@, a, v)]
Set(t, a, v) ==
    board' = IF stack_error[t] THEN board ELSE [board EXCEPT ![BoardOf(t, a)] = handle_set(@, a, v)]
\* attributes without a scope, as the invalid one, are ignored
End(t, a) ==
    IF stack_error[t] \/ a = NoAttr THEN UNCHANGED <<board, stack_error>>
    ELSE IF load_current_entry(board[BoardOf(t, a)], a)
    THEN board' = [board EXCEPT ![BoardOf(t, a)] = handle_end(@, a)] /\ UNCHANGED stack_error
    ELSE stack_error' = [stack_error EXCEPT ![t] = TRUE] /\ UNCHANGED board
end_with_value_check(t, a, v) ==
    LET b == board[BoardOf(t, a)]
    IN IF stack_error[t] THEN UNCHANGED <<board, stack_error>>
       ELSE IF load_current_entry(b, a) /\ Last(b.region)[2] = v
       THEN board' = [board EXCEPT ![BoardOf(t, a)] = handle_end(@, a)] /\ UNCHANGED stack_error
       ELSE stack_error' = [stack_error EXCEPT ![t] = TRUE] /\ UNCHANGED board

EntryOf(b, a) ==
    IF "asvalue" \in a.prop
    THEN IF a \in DOMAIN b.vals THEN <<b.vals[a]>> ELSE <<>>
    ELSE IF Has(b[SlotOf(a)], a) THEN <<b[SlotOf(a)][LastOf(b[SlotOf(a)], a)][2]>> ELSE <<>>
\* Caliper::get, an empty sequence for the empty entry
cali_get(t, a) == EntryOf(board[BoardOf(t, a)], a)

\* the innermost nested region, of the thread or else of the process
get_path_node(t) ==
    LET p == IF board[t].region # <<>> THEN board[t].region ELSE board[Process].region
        nested == SelectSeq(p, LAMBDA e : "nested" \in e[1].prop)
    IN IF nested # <<>> THEN <<Last(nested)>> ELSE IF p # <<>> THEN <<Last(p)>> ELSE <<>>

cali_get_current_region_or(t, alt) ==
    LET e == get_path_node(t)
    IN IF e # <<>> /\ e[1][2].type = "string" THEN e[1][2].v ELSE alt

-----------------------------------------------------------------------------
(* Snapshots: a sequence of immediate entries and references to paths      *)

Imm(a, v) == [imm |-> TRUE, attr |-> a, val |-> v]
Ref(path) == [imm |-> FALSE, path |-> path]
snapshot(b) ==
    LET as == SetToSeq(DOMAIN b.vals)
    IN (IF b.region = <<>> THEN <<>> ELSE <<Ref(b.region)>>)
       \o (IF b.unaligned = <<>> THEN <<>> ELSE <<Ref(b.unaligned)>>)
       \o [i \in DOMAIN as |-> Imm(as[i], b.vals[as[i]])]

\* The trigger information: values as they are, the rest in one path
make_record(list) ==
    LET asvalue == SelectSeq(list, LAMBDA e : "asvalue" \in e[1].prop)
        path    == SelectSeq(list, LAMBDA e : "asvalue" \notin e[1].prop)
    IN [i \in DOMAIN asvalue |-> Imm(asvalue[i][1], asvalue[i][2])]
       \o (IF path = <<>> THEN <<>> ELSE <<Ref(path)>>)
pull_snapshot(t, info) == info \o snapshot(board[t]) \o snapshot(board[Process])

\* What cali_unpack_snapshot hands to its callback: paths from the leaf up
UnpackEntryOp(e) == IF e.imm THEN << <<e.attr, e.val>> >> ELSE Reverse(e.path)
cali_unpack_snapshot(rec) == FlattenSeq([i \in DOMAIN rec |-> UnpackEntryOp(rec[i])])
cali_find_first_in_snapshot(rec, a) ==
    LET hits == SelectSeq(cali_unpack_snapshot(rec), LAMBDA e : e[1] = a)
    IN IF hits = <<>> THEN <<>> ELSE <<Head(hits)[2]>>

\* For an immediate entry of another attribute the loop goes on to the node of
\* the entry, which is the attribute's node: the attribute's metadata come up
\* as if they were values of the snapshot.
UnpackAttributeEntryOp(e, a) ==
    IF e.imm /\ e.attr = a THEN <<e.val>>
    ELSE LET path == Reverse(IF e.imm THEN e.attr.meta ELSE e.path)
             hits == SelectSeq(path, LAMBDA x : x[1] = a)
         IN [i \in DOMAIN hits |-> hits[i][2]]
cali_find_all_in_snapshot(rec, a) ==
    FlattenSeq([i \in DOMAIN rec |-> UnpackAttributeEntryOp(rec[i], a)])

-----------------------------------------------------------------------------
(* Channels: [live, active, seen: attributes announced to it, board]       *)

Live(i) == i \in DOMAIN channels /\ channels[i].live
UpdateChannel(i, c) == channels' = [channels EXCEPT ![i] = c]

cali_create_channel(t) ==
    /\ "channels" \in ac.ops /\ Quiet /\ Len(channels) < ApiMaxChans
    /\ \E inactive \in BOOLEAN :
       LET a == [name |-> "cali.channel", type |-> "string", meta |-> <<>>, by |-> t,
                 prop |-> Properties("cali.channel", {"skip_events", "global"})]
           c == IF "cali.channel" \in DOMAIN attribute_map THEN attribute_map["cali.channel"] ELSE a
           m == ("cali.channel" :> c) @@ attribute_map
       IN /\ attribute_map' = m
          /\ channels' = Append([i \in DOMAIN channels |->
               [channels[i] EXCEPT !.seen = IF channels[i].live THEN @ \cup {c} ELSE @]],
               \* the event service marks the attributes that exist
               [live |-> TRUE, active |-> ~inactive, seen |-> Range(m),
                board |-> handle_begin(EmptyBoard, c, Str(Len(channels)))])
    /\ UNCHANGED <<ac, frame, board, stack_error, objs, scope, got, globals_set>>

cali_delete_channel(t) ==
    /\ "channels" \in ac.ops /\ Quiet
    /\ \E i \in DOMAIN channels :
         /\ channels[i].live
         /\ UpdateChannel(i, [channels[i] EXCEPT !.live = FALSE, !.seen = {}])
    /\ UNCHANGED <<ac, attribute_map, frame, board, stack_error, objs, scope, got, globals_set>>

cali_activate_channel(t) ==
    /\ "channels" \in ac.ops /\ frame[t] = Idle
    /\ \E i \in DOMAIN channels, on \in BOOLEAN :
         Live(i) /\ UpdateChannel(i, [channels[i] EXCEPT !.active = on])
    /\ UNCHANGED <<ac, attribute_map, frame, board, stack_error, objs, scope, got, globals_set>>

\* The global attributes in a blackboard: nodes of all paths become one path
get_globals_from_blackboard(b) ==
    LET rec   == snapshot(b)
        G(s)  == SelectSeq(s, LAMBDA e : "global" \in e[1].prop)
        nodes == G(FlattenSeq([i \in DOMAIN rec |->
                     IF rec[i].imm THEN <<>> ELSE Reverse(rec[i].path)]))
        imm   == G(FlattenSeq([i \in DOMAIN rec |->
                     IF rec[i].imm THEN << <<rec[i].attr, rec[i].val>> >> ELSE <<>>]))
    IN imm \o Reverse(nodes)
get_globals(i) ==
    get_globals_from_blackboard(board[Process]) \o get_globals_from_blackboard(channels[i].board)

-----------------------------------------------------------------------------
(* The C annotation calls.  A type that differs from the attribute's is not *)
(* noticed.                                                                *)

NoThen == [do |-> "none"]
Then(do, v) == [do |-> do, val |-> v]
Values == [type : ac.types, v : {1}]
Open(t) == Len(board[t].region) + Len(board[t].unaligned)

cali_create_attribute(t) ==
    /\ "create" \in ac.ops /\ frame[t] = Idle
    /\ \E n \in ac.names, y \in ac.types, p \in {{}, {"asvalue"}} : create_attribute(t, n, y, p, <<>>, NoThen)
    /\ UNCHANGED <<ac, attribute_map, board, stack_error, channels, objs, scope, got, globals_set>>
\* cali_begin_*_byname and cali_set_*_byname
cali_begin_byname(t) ==
    /\ "byname" \in ac.ops /\ frame[t] = Idle
    /\ \E n \in ac.names, v \in Values :
         \/ Open(t) < ac.depth /\ create_attribute(t, n, v.type, {}, <<>>, Then("begin", v))
         \/ create_attribute(t, n, v.type, {"unaligned"}, <<>>, Then("set", v))
    /\ UNCHANGED <<ac, attribute_map, board, stack_error, channels, objs, scope, got, globals_set>>
cali_end_byname(t) ==
    /\ "byname" \in ac.ops /\ frame[t] = Idle
    /\ \E n \in ac.names : End(t, get_attribute(n))
    /\ UNCHANGED <<ac, attribute_map, frame, channels, objs, scope, got, globals_set>>

\* One thread sets the globals: two would race on the process blackboard.
GlobalProp == {"global", "unaligned", "skip_events"}
cali_set_global_byname(t) ==
    /\ "globals" \in ac.ops /\ frame[t] = Idle /\ t = 1
    /\ \E n \in ac.names, x \in 1 .. 2 :
         create_attribute(t, n, "int", GlobalProp, <<>>, Then("global", [type |-> "int", v |-> x]))
    /\ UNCHANGED <<ac, attribute_map, board, stack_error, channels, objs, scope, got, globals_set>>

\* cali_begin_region, cali_begin_phase, and their ends, which check the value
cali_begin_region(t) ==
    /\ "regions" \in ac.ops /\ frame[t] = Idle /\ Open(t) < ac.depth
    /\ \E a \in {region_attr, phase_attr}, x \in 1 .. 2 : Begin(t, a, Str(x))
    /\ UNCHANGED <<ac, attribute_map, frame, stack_error, channels, objs, scope, got, globals_set>>
cali_end_region(t) ==
    /\ "regions" \in ac.ops /\ frame[t] = Idle
    /\ \E a \in {region_attr, phase_attr}, x \in 1 .. 2 : end_with_value_check(t, a, Str(x))
    /\ UNCHANGED <<ac, attribute_map, frame, channels, objs, scope, got, globals_set>>

-----------------------------------------------------------------------------
(* C++ objects.  Annotation::Impl is [kind, name, attr, ref, freed] with   *)
(* m_attr_node in attr; Loop::Impl has its level and iteration attribute.  *)
(* scope[t] lists what is on the thread's stack; its last element is       *)
(* destroyed first.                                                        *)

Push(t, x) == scope' = [scope EXCEPT ![t] = Append(@, x)]
Pop(t) == scope' = [scope EXCEPT ![t] = Front(@)]
Top(t) == Last(scope[t])
CanPush(t) == frame[t] = Idle /\ Len(scope[t]) < ac.depth
NewObj(o) == Append(objs, o)
Held(o) == {<<t, i>> \in ac.threads \X (1 .. ac.depth) :
              i \in DOMAIN scope[t] /\ scope[t][i].obj = o /\ scope[t][i].kind \in {"annotation", "guard", "loop"}}
\* the objects a thread has a handle of, and those it can copy one of
Mine(t, kind) == {o \in DOMAIN objs : objs[o].kind = kind /\ \E h \in Held(o) : h[1] = t}
Reach(t, kind) == {o \in DOMAIN objs : objs[o].kind = kind /\ (ac.share \/ o \in Mine(t, kind)) /\ Held(o) # {}}
Rest == <<ac, attribute_map, channels, got, globals_set>>

\* Function and ScopeAnnotation
Function(t) ==
    /\ "objects" \in ac.ops /\ CanPush(t)
    /\ Begin(t, region_attr, Str(1)) /\ Push(t, [kind |-> "function", obj |-> 0, val |-> Str(1)])
    /\ UNCHANGED <<Rest, frame, stack_error, objs>>

Annotation(t) ==
    /\ "annotations" \in ac.ops /\ CanPush(t) /\ Len(objs) < ApiMaxObjs
    /\ \E n \in ac.names, meta \in BOOLEAN :
         \* with metadata, the constructor takes the attribute if it exists
         objs' = NewObj([kind |-> "annotation", name |-> n, ref |-> 1, freed |-> 0,
                         attr |-> IF meta THEN get_attribute(n) ELSE NoAttr])
    /\ Push(t, [kind |-> "annotation", obj |-> Len(objs) + 1])
    /\ UNCHANGED <<Rest, frame, board, stack_error>>

\* the copy constructor; attach
AnnotationCopy(t) ==
    /\ CanPush(t)
    /\ \E o \in Reach(t, "annotation") :
         /\ objs' = [objs EXCEPT ![o].ref = @ + 1]
         /\ Push(t, [kind |-> "annotation", obj |-> o])
    /\ UNCHANGED <<Rest, frame, board, stack_error>>

\* begin(int) on a double attribute converts; other values stay what they are
Convert(a, v) == IF a # NoAttr /\ v.type = "int" /\ a.type = "double" THEN [v EXCEPT !.type = "double"] ELSE v

\* Guard g(a.begin(v)): begin, with the attribute created if need be, then attach
Guard(t) ==
    /\ CanPush(t)
    /\ \E o \in Mine(t, "annotation"), v \in Values :
         LET a == objs[o].attr
             w == Convert(a, v)
             then == [do |-> "guard", val |-> w, obj |-> o]
         IN IF a # NoAttr
            THEN frame' = [frame EXCEPT ![t] = [pc |-> "return", name |-> a.name, attr |-> a, then |-> then]]
            ELSE create_attribute(t, objs[o].name, w.type, {}, <<>>, then)
    /\ UNCHANGED <<Rest, board, stack_error, objs, scope>>

Loop(t) ==
    /\ "objects" \in ac.ops /\ CanPush(t) /\ Len(objs) < ApiMaxObjs
    /\ create_attribute(t, "iteration#", "int", {"asvalue"}, << <<class_iteration_attr, TRUE>> >>, Then("loop", Str(2)))
    /\ UNCHANGED <<Rest, board, stack_error, objs, scope>>
LoopCopy(t) ==
    /\ CanPush(t)
    /\ \E o \in Mine(t, "loop") :
         objs' = [objs EXCEPT ![o].ref = @ + 1] /\ Push(t, [kind |-> "loop", obj |-> o])
    /\ UNCHANGED <<Rest, frame, board, stack_error>>

\* Loop::Iteration, one at a time for a loop
Iteration(t) ==
    /\ CanPush(t)
    /\ \E o \in Mine(t, "loop") :
         /\ ~\E i \in DOMAIN scope[t] : scope[t][i].kind = "iteration"
         /\ Begin(t, objs[o].attr, [type |-> "int", v |-> 1])
         /\ Push(t, [kind |-> "iteration", obj |-> o])
    /\ UNCHANGED <<Rest, frame, stack_error, objs>>

\* Loop::end, on an object with `left' references
Loop_end(t, o, left) ==
    IF objs[o].level > 0
    THEN End(t, loop_attr) /\ objs' = [objs EXCEPT ![o].level = @ - 1, ![o].ref = left]
    ELSE objs' = [objs EXCEPT ![o].ref = left] /\ UNCHANGED <<board, stack_error>>

\* An explicit end(), in the body of the loop: only handles of the loop and
\* Annotation objects came after it.
EndLoop(t) ==
    /\ frame[t] = Idle
    /\ \E i \in DOMAIN scope[t] :
         /\ scope[t][i].kind = "loop" /\ ~(\E j \in 1 .. i - 1 : scope[t][j] = scope[t][i])
         /\ \A j \in i + 1 .. Len(scope[t]) :
              scope[t][j].kind = "annotation" \/ scope[t][j] = scope[t][i]
         /\ Loop_end(t, scope[t][i].obj, objs[scope[t][i].obj].ref)
    /\ UNCHANGED <<Rest, frame, scope>>

\* The destructor of the innermost object.  Annotation and Guard go on to
\* detach, Loop deletes its Impl with its last reference.
Destroy(t) ==
    /\ frame[t] = Idle /\ scope[t] # <<>> /\ Pop(t)
    /\ LET o == Top(t).obj
       IN CASE Top(t).kind = "function" -> End(t, region_attr) /\ UNCHANGED <<objs, frame>>
            [] Top(t).kind = "iteration" -> End(t, objs[o].attr) /\ UNCHANGED <<objs, frame>>
            [] Top(t).kind = "loop" ->
                 /\ IF objs[o].ref = 1 THEN Loop_end(t, o, 0)
                    ELSE objs' = [objs EXCEPT ![o].ref = @ - 1] /\ UNCHANGED <<board, stack_error>>
                 /\ UNCHANGED frame
            [] OTHER ->
                 /\ IF Top(t).kind = "guard" THEN End(t, objs[o].attr) ELSE UNCHANGED <<board, stack_error>>
                 /\ objs' = [objs EXCEPT ![o].ref = @ - 1]
                 /\ frame' = [frame EXCEPT ![t] = [pc |-> "detach", obj |-> o]]
    /\ UNCHANGED Rest

\* The second half of detach: the count is read again.  When the other thread
\* has deleted the object, the read may give anything.
detach(t) ==
    /\ frame[t].pc = "detach"
    /\ LET o == frame[t].obj
       IN \/ objs[o].ref = 0 /\ objs' = [objs EXCEPT ![o].freed = @ + 1]
          \/ (objs[o].ref # 0 \/ objs[o].freed > 0) /\ UNCHANGED objs
    /\ frame' = [frame EXCEPT ![t] = Idle]
    /\ UNCHANGED <<Rest, board, stack_error, scope>>

\* Annotation::Impl::begin drops a value whose type is not the attribute's.
Impl_begin(t, a, v) == IF a.type = v.type THEN Begin(t, a, v) ELSE UNCHANGED board

\* create_attribute has returned; the rest of the call
resume(t) ==
    /\ frame[t].pc = "return"
    /\ frame' = [frame EXCEPT ![t] = Idle]
    /\ got' = got \cup {<<frame[t].name, frame[t].attr>>}
    /\ LET a  == frame[t].attr
           th == frame[t].then
       IN CASE th.do = "none"  -> UNCHANGED <<board, objs, scope, globals_set>>
            [] th.do = "begin" -> Begin(t, a, th.val) /\ UNCHANGED <<objs, scope, globals_set>>
            [] th.do = "set"   -> Set(t, a, th.val) /\ UNCHANGED <<objs, scope, globals_set>>
            [] th.do = "global" ->
                 /\ Set(t, a, th.val)
                 /\ globals_set' = IF stack_error[t] THEN globals_set ELSE (a.name :> th.val) @@ globals_set
                 /\ UNCHANGED <<objs, scope>>
            [] th.do = "guard" ->
                 /\ Impl_begin(t, a, th.val)
                 /\ objs' = [objs EXCEPT ![th.obj].attr = a, ![th.obj].ref = @ + 1]
                 /\ Push(t, [kind |-> "guard", obj |-> th.obj, val |-> th.val])
                 /\ UNCHANGED globals_set
            [] th.do = "loop" ->
                 /\ Begin(t, loop_attr, th.val)
                 /\ objs' = NewObj([kind |-> "loop", level |-> 1, ref |-> 1, attr |-> a])
                 /\ Push(t, [kind |-> "loop", obj |-> Len(objs) + 1])
                 /\ UNCHANGED globals_set
    /\ UNCHANGED <<ac, attribute_map, stack_error, channels>>

ApiInit ==
    /\ ac \in ApiConfigs
    /\ attribute_map = init_api_attributes
    /\ frame = [t \in ac.threads |-> Idle]
    /\ board = [b \in ac.threads \cup {Process} |-> EmptyBoard]
    /\ stack_error = [t \in ac.threads |-> FALSE]
    /\ channels = << [live |-> TRUE, active |-> TRUE, seen |-> Range(init_api_attributes), board |-> EmptyBoard] >>
    /\ objs = <<>> /\ scope = [t \in ac.threads |-> <<>>]
    /\ got = {} /\ globals_set = <<>>

ApiNext ==
    \E t \in ac.threads :
       \/ publish(t) \/ announce(t) \/ resume(t) \/ detach(t)
       \/ cali_create_attribute(t) \/ cali_begin_byname(t) \/ cali_end_byname(t)
       \/ cali_set_global_byname(t) \/ cali_begin_region(t) \/ cali_end_region(t)
       \/ cali_create_channel(t) \/ cali_delete_channel(t) \/ cali_activate_channel(t)
       \/ Function(t) \/ Annotation(t) \/ AnnotationCopy(t) \/ Guard(t)
       \/ Loop(t) \/ LoopCopy(t) \/ Iteration(t) \/ EndLoop(t) \/ Destroy(t)

-----------------------------------------------------------------------------
\* However many threads create an attribute of one name at once, with whatever
\* types and properties, there is one attribute of that name: every call has
\* returned the one in the map, it has one scope, that of a global is the
\* process, and when no call is under way every channel has been told of it
\* (the two lookups and create_attr_evt in Caliper::create_attribute).
AttributesExact ==
    /\ \A g \in got : g[2] = attribute_map[g[1]]
    /\ \A a \in Range(attribute_map) :
         /\ Cardinality({"thread", "process"} \cap a.prop) = 1
         /\ "global" \in a.prop => {"process", "unaligned"} \subseteq a.prop
    /\ Quiet => \A i \in DOMAIN channels : Live(i) => channels[i].seen = Range(attribute_map)

\* A snapshot says of every attribute what cali_get says at the same time, for
\* regions, values and globals of threads whose annotations nest in any way
\* (cali_find_first_in_snapshot of a pulled snapshot), and the globals of a
\* channel are its name and the last value each global was set to, each once
\* (get_globals).
SnapshotAgrees ==
    /\ \A t \in ac.threads : \A a \in Range(attribute_map) :
         cali_find_first_in_snapshot(pull_snapshot(t, make_record(<<>>)), a) = cali_get(t, a)
    /\ \A i \in DOMAIN channels : Live(i) /\ Quiet =>
         LET g == get_globals(i)
         IN /\ {e \in Range(g) : e[1].name # "cali.channel"}
                 = {<<attribute_map[n], globals_set[n]>> : n \in DOMAIN globals_set}
            /\ Len(g) = Cardinality(Range(g))
            /\ Cardinality({e \in Range(g) : e[1].name = "cali.channel"}) = (IF i = 1 THEN 0 ELSE 1)

\* The regions the objects in scope of a thread stand for, in order: a Loop
\* counts once however many copies it has, and not after end().
Opened(t, i) ==
    LET x == scope[t][i]
    IN CASE x.kind = "function" -> << <<region_attr, x.val>> >>
         [] x.kind = "guard" -> << <<objs[x.obj].attr, x.val>> >>
         [] x.kind = "loop" /\ objs[x.obj].level > 0 /\ ~(\E j \in 1 .. i - 1 : scope[t][j] = x)
              -> << <<loop_attr, Str(2)>> >>
         [] OTHER -> <<>>
\* The objects in scope of a thread and its region stack are one and the same:
\* Function, ScopeAnnotation, Guard and Loop objects, with copies of a Loop and
\* with end() called early, open and close exactly their own regions and never
\* cause a stack error; the current region is the innermost of them; and Impl
\* objects live exactly as long as something refers to them (Loop::~Loop,
\* Loop::end, Annotation::Impl::detach, cali_get_current_region_or).
ScopesExact ==
    "objects" \in ac.ops =>
      /\ \A t \in ac.threads :
           LET opened == FlattenSeq([i \in DOMAIN scope[t] |-> Opened(t, i)])
               nested == SelectSeq(opened, LAMBDA e : "nested" \in e[1].prop)
           IN /\ ~stack_error[t] /\ board[t].region = opened
              /\ nested # <<>> => cali_get_current_region_or(t, 0) = Last(nested)[2].v
      /\ Quiet => \A o \in DOMAIN objs :
           /\ objs[o].ref = Cardinality(Held(o))
           /\ objs[o].kind = "annotation" => objs[o].freed = (IF objs[o].ref = 0 THEN 1 ELSE 0)

\* README.md promises a "Fully threadsafe implementation": the Impl of an
\* Annotation is deleted once, also when two threads destroy copies of it
\* (Annotation::Impl::detach).
FreedOnce == \A o \in DOMAIN objs : objs[o].kind = "annotation" => objs[o].freed <= 1

\* The documentation of cali_find_all_in_snapshot says it processes all entries
\* with the given attribute: it passes on what cali_unpack_snapshot passes on
\* for that attribute.
FindAllExact ==
    \A t \in ac.threads : \A a \in Range(attribute_map) :
       LET rec == pull_snapshot(t, make_record(<<>>))
           all == SelectSeq(cali_unpack_snapshot(rec), LAMBDA e : e[1] = a)
       IN cali_find_all_in_snapshot(rec, a) = [i \in DOMAIN all |-> all[i][2]]
=============================================================================
