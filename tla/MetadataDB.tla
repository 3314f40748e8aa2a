----------------------------- MODULE MetadataDB -----------------------------
(***************************************************************************)
(* The metadata database of the reader library                              *)
(* (src/src/reader/CaliperMetadataDB.cpp) as operators on a record:         *)
(*   nodes    m_nodes; a node's id is its position, 0 is m_root             *)
(*   attrs    m_attributes, the lookup of attribute nodes by name           *)
(*   globals  m_globals                                                     *)
(* A node is [attr, data, parent].  Attributes are nodes of the attribute   *)
(* NAME_ATTR below a node of the attribute PROP_ATTR that holds their       *)
(* properties.  The type nodes and the string database are left out.        *)
(*                                                                          *)
(* An entry of a snapshot record is [node, val]: a reference entry has      *)
(* val = <<>>, an immediate one names its attribute's node and has a value  *)
(* <<n, d>> that stands for the number n/d.                                 *)
(***************************************************************************)
EXTENDS Naturals, Sequences, FiniteSets, TLC

Root == 0
NAME_ATTR == 1
PROP_ATTR == 2

Node(attr, data, parent) == [attr |-> attr, data |-> data, parent |-> parent]

setup_bootstrap_nodes ==
    [nodes |-> <<Node(NAME_ATTR, "cali.attribute.name", Root),
                 Node(NAME_ATTR, "cali.attribute.prop", Root)>>,
     attrs |-> [n \in {"cali.attribute.name", "cali.attribute.prop"} |->
                    IF n = "cali.attribute.name" THEN NAME_ATTR ELSE PROP_ATTR],
     globals |-> <<>>]

NodeIds(db) == 1..Len(db.nodes)

Ref(n) == [node |-> n, val |-> <<>>]
is_reference(e) == e.node # Root /\ e.val = <<>>
is_immediate(e) == e.val # <<>>
EmptyEntry == [node |-> Root, val |-> <<>>]

(* The ids on the path from a node to the root, the node first.             *)
PathIds(db) ==
    LET path[n \in 0..Len(db.nodes)] ==
            IF n = Root THEN <<>> ELSE <<n>> \o path[db.nodes[n].parent]
    IN path

attr_of(db, e) == IF is_immediate(e) THEN e.node ELSE db.nodes[e.node].attr

(* Attribute::name and the properties, both found on the attribute's path.  *)
name_of(db, a) == db.nodes[a].data
Properties(db, a) ==
    {db.nodes[n].data : n \in {m \in {PathIds(db)[a][i] : i \in DOMAIN PathIds(db)[a]} :
                                    db.nodes[m].attr = PROP_ATTR}}
is_nested(db, a) == "nested" \in Properties(db, a)
store_as_value(db, a) == "asvalue" \in Properties(db, a)
is_global(db, a) == "global" \in Properties(db, a)

(* The lookup of an attribute by name, and by id.                           *)
get_attribute(db, name) == IF name \in DOMAIN db.attrs THEN db.attrs[name] ELSE Root
attribute(db, id) == IF id \in NodeIds(db) THEN id ELSE Root

(* What a node stands for: its path as <<attribute name, data>> pairs, from *)
(* the root.                                                                *)
Meaning(db, n) ==
    LET ids == PathIds(db)[n]
    IN [i \in DOMAIN ids |->
            LET m == db.nodes[ids[Len(ids) + 1 - i]] IN <<name_of(db, m.attr), m.data>>]

-----------------------------------------------------------------------------
Children(db, parent, attr, data) ==
    {n \in NodeIds(db) : /\ db.nodes[n].parent = parent /\ db.nodes[n].attr = attr
                         /\ db.nodes[n].data = data}

create_node(db, attr, data, parent) ==
    [db EXCEPT !.nodes = Append(@, Node(attr, data, parent))]

(* Under m_node_lock: the child with this attribute and data is found, or   *)
(* appended.                                                                *)
find_or_create(db, parent, attr, data) ==
    LET found == Children(db, parent, attr, data)
    IN IF found # {} THEN [db |-> db, id |-> CHOOSE n \in found : TRUE, new |-> FALSE]
       ELSE [db |-> create_node(db, attr, data, parent),
             id |-> Len(db.nodes) + 1, new |-> TRUE]

(* Under m_attribute_lock: a name that is present keeps its node.           *)
insert_attribute(db, n) ==
    IF name_of(db, n) \in DOMAIN db.attrs THEN db
    ELSE [db EXCEPT !.attrs = @ @@ (name_of(db, n) :> n)]

(* A node of a stream whose data is not read because the attribute is       *)
(* hidden has empty data.                                                   *)
node_data(db, attr, data) ==
    IF "hidden" \in Properties(db, attr) THEN "" ELSE data

map_id(id, idmap) == IF id \in DOMAIN idmap THEN idmap[id] ELSE id

(* The first part of merge_node for a node record of a stream.              *)
merge_node(db, info, idmap) ==
    LET attr == map_id(info.attr, idmap)
    IN find_or_create(db, IF info.parent = Root THEN Root ELSE map_id(info.parent, idmap),
                      attr, node_data(db, attr, info.data))

(* Its last part: an id that differs from the stream's is remembered.       *)
map_insert(idmap, from, to) ==
    IF from = to \/ from \in DOMAIN idmap THEN idmap ELSE idmap @@ (from :> to)

(* make_tree_entry for a list of <<attribute, data>> pairs.                 *)
make_tree_entry(db, list, parent) ==
    LET step[i \in 0..Len(list)] ==
            IF i = 0 THEN [db |-> db, id |-> parent]
            ELSE LET r == find_or_create(step[i-1].db, step[i-1].id, list[i][1], list[i][2])
                 IN [db |-> r.db, id |-> r.id]
    IN step[Len(list)]

create_attribute(db, name, prop) ==
    IF name \in DOMAIN db.attrs THEN db
    ELSE LET r == make_tree_entry(db, <<<<PROP_ATTR, prop>>, <<NAME_ATTR, name>>>>, Root)
         IN [r.db EXCEPT !.attrs = @ @@ (name :> r.id)]

-----------------------------------------------------------------------------
(* The entries of a snapshot record of a stream.                            *)
merge_entry(db, id, idmap) ==
    LET n == attribute(db, map_id(id, idmap)) IN IF n = Root THEN EmptyEntry ELSE Ref(n)

merge_imm_entry(db, id, val, idmap) ==
    LET a == attribute(db, map_id(id, idmap))
    IN IF a = Root THEN EmptyEntry ELSE [node |-> a, val |-> val]

merge_snapshot(db, refs, imms, idmap) ==
    [i \in DOMAIN refs |-> merge_entry(db, refs[i], idmap)]
    \o [i \in DOMAIN imms |-> merge_imm_entry(db, imms[i][1], imms[i][2], idmap)]

(* A node of another database is found or created here after its attribute  *)
(* and its parent.                                                          *)
RECURSIVE recursive_merge_node(_, _, _)
recursive_merge_node(db, src, n) ==
    IF n <= PROP_ATTR THEN [db |-> db, id |-> n]
    ELSE LET a == recursive_merge_node(db, src, src.nodes[n].attr)
             p == recursive_merge_node(a.db, src, src.nodes[n].parent)
             r == find_or_create(p.db, p.id, a.id, src.nodes[n].data)
         IN [db |-> IF r.new /\ a.id = NAME_ATTR THEN insert_attribute(r.db, r.id) ELSE r.db,
             id |-> r.id]

(* merge_snapshot for a record of another database: the nodes are merged    *)
(* one entry at a time.                                                     *)
import_snapshot(db, src, rec) ==
    LET step[i \in 0..Len(rec)] ==
            IF i = 0 THEN [db |-> db, rec |-> <<>>]
            ELSE LET r == recursive_merge_node(step[i-1].db, src, rec[i].node)
                 IN [db |-> r.db, rec |-> Append(step[i-1].rec, [rec[i] EXCEPT !.node = r.id])]
    IN step[Len(rec)]

-----------------------------------------------------------------------------
(* Globals.  A reference from a stream is added unless it is there.         *)
merge_global(db, id, idmap) ==
    LET n == attribute(db, map_id(id, idmap))
    IN IF n = Root \/ \E i \in DOMAIN db.globals : db.globals[i] = Ref(n) THEN db
       ELSE [db EXCEPT !.globals = Append(@, Ref(n))]

(* set_global of an as_value attribute replaces its value.                  *)
set_global(db, a, val) ==
    LET same == {i \in DOMAIN db.globals : attr_of(db, db.globals[i]) = a}
    IN IF ~is_global(db, a) THEN db
       ELSE IF same = {} THEN [db EXCEPT !.globals = Append(@, [node |-> a, val |-> val])]
       ELSE [db EXCEPT !.globals[CHOOSE i \in same : \A j \in same : i <= j] = [node |-> a, val |-> val]]

import_globals(db, src) ==
    LET r == import_snapshot(db, src, src.globals)
    IN [r.db EXCEPT !.globals = r.rec]

=============================================================================
