------------------------------ MODULE Regions ------------------------------
(***************************************************************************)
(* The annotation core of src/src/caliper/Caliper.cpp: begin, end,          *)
(* end_with_value_check, set, exchange and get, on the thread blackboards,  *)
(* the process blackboard and the channel blackboards.                      *)
(*                                                                          *)
(* Attributes share blackboard slots: region attributes are merged into one *)
(* slot, unaligned ones into another, and only as_value attributes have a   *)
(* slot of their own.  A merged slot holds a node of the metadata tree;     *)
(* here it is the path from the root to that node, a sequence of            *)
(* <<attribute, value>> pairs.  An empty slot is the empty path.            *)
(*                                                                          *)
(* Each access to a blackboard is atomic (Blackboard holds its spinlock),   *)
(* the read and the write of one annotation call are two accesses.          *)
(***************************************************************************)
EXTENDS Naturals, Sequences

CONSTANTS
    Threads, Channels,
    Process,      \* names the process blackboard
    Attrs, Values,
    ProcessScope, \* attributes with CALI_ATTR_SCOPE_PROCESS, the others have thread scope
    AsValue,      \* attributes with CALI_ATTR_ASVALUE
    Unaligned,    \* attributes with CALI_ATTR_UNALIGNED
    SetAttrs,     \* attributes the program calls set() for
    AllowOverlap, \* caliper.allow_region_overlap
    None,         \* Entry()
    MaxDepth      \* bound of the model on the length of a path

ASSUME RegionsAssumption ==
    /\ ProcessScope \subseteq Attrs /\ AsValue \subseteq Attrs
    /\ Unaligned \subseteq Attrs \ AsValue /\ SetAttrs \subseteq Attrs
    /\ AllowOverlap \in BOOLEAN
    /\ None \notin Values
    /\ "REGION_KEY" \notin AsValue /\ "UNALIGNED_KEY" \notin AsValue
    /\ MaxDepth \in Nat

VARIABLES
    slot,        \* slot[b][k]: the path that blackboard b stores under key k
    stack_error, \* ThreadData::stack_error
    call,        \* the annotation call each thread is in
    open,        \* history: the annotations in effect on each blackboard, oldest first
    raced,       \* history: blackboards on which the calls of two threads overlapped
    misused      \* history: threads that ended what is not the innermost annotation

vars == <<slot, stack_error, call, open, raced, misused>>

Boards == Threads \cup Channels \cup {Process}

SlotKeys == AsValue \cup {"REGION_KEY", "UNALIGNED_KEY"}

get_blackboard_key(a) ==
    IF a \in AsValue THEN a
    ELSE IF a \in Unaligned THEN "UNALIGNED_KEY" ELSE "REGION_KEY"

(* The attributes that share the slot of a.                                 *)
SameSlot(a) == {x \in Attrs : get_blackboard_key(x) = get_blackboard_key(a)}

Paths == UNION {[1..n -> Attrs \X Values] : n \in 0..MaxDepth}

IdleCall == [pc |-> "idle", board |-> Process, attr |-> None, value |-> None,
             merged |-> <<>>]

Init ==
    /\ slot = [b \in Boards |-> [k \in SlotKeys |-> <<>>]]
    /\ stack_error = [t \in Threads |-> FALSE]
    /\ call = [t \in Threads |-> IdleCall]
    /\ open = [b \in Boards |-> <<>>]
    /\ raced = {}
    /\ misused = {}

-----------------------------------------------------------------------------
(* Paths.  The first node of an attribute, seen from the leaf, is the last  *)
(* one in the sequence.                                                     *)

Of(path, a) == {i \in DOMAIN path : path[i][1] = a}

LastOf(path, a) == CHOOSE i \in Of(path, a) : \A j \in Of(path, a) : j <= i

(* The nodes of the attributes in A, in the order of the path.              *)
Keep(path, A) ==
    LET kept[n \in 0 .. Len(path)] ==
            IF n = 0 THEN <<>>
            ELSE IF path[n][1] \in A THEN Append(kept[n - 1], path[n])
            ELSE kept[n - 1]
    IN kept[Len(path)]

Without(path, i) == SubSeq(path, 1, i - 1) \o SubSeq(path, i + 1, Len(path))

(* Mutation: Entry::get returns the outermost value of the attribute.       *)
OutermostEntry(path, a) ==
    IF Of(path, a) = {} THEN None
    ELSE path[CHOOSE i \in Of(path, a) : \A j \in Of(path, a) : i <= j][2]

(* The value of the node nearest to the leaf, or Entry().                   *)
entry_get(path, a) ==
    IF Of(path, a) = {} THEN None ELSE path[LastOf(path, a)][2]

(* Mutation: the path ends at the parent of the removed node.               *)
TruncatedPath(path, a) ==
    IF Of(path, a) = {} THEN path ELSE SubSeq(path, 1, LastOf(path, a) - 1)

(* The nodes below the removed one are copied onto its parent.              *)
remove_first_in_path(path, a) ==
    IF Of(path, a) = {} THEN path ELSE Without(path, LastOf(path, a))

(* Mutation: the node that is replaced stays.                               *)
AppendedPath(path, a, v) == Append(path, <<a, v>>)

replace_first_in_path(path, a, v) ==
    Append(remove_first_in_path(path, a), <<a, v>>)

-----------------------------------------------------------------------------
(* What the API documentation says an annotation call does: begin() opens a *)
(* value below the open ones, set() overwrites the top-most value of the    *)
(* attribute where it is, end() closes the top-most one.  as_value          *)
(* attributes cannot be nested.                                             *)
DocSet(path, a, v) ==
    IF Of(path, a) = {} THEN Append(path, <<a, v>>)
    ELSE [path EXCEPT ![LastOf(path, a)] = <<a, v>>]

DocBegin(path, a, v) ==
    IF a \in AsValue THEN DocSet(path, a, v) ELSE Append(path, <<a, v>>)

DocEnd(path, a) ==
    IF Of(path, a) = {} THEN path ELSE Without(path, LastOf(path, a))

(* It is a mistake of the program to end an attribute that has no open      *)
(* value or, for region attributes, one that is not the innermost.          *)
Mistake(b, a) ==
    LET mates == Keep(open[b], SameSlot(a))
    IN \/ Of(mates, a) = {}
       \/ /\ a \notin Unaligned /\ ~AllowOverlap
          /\ mates[Len(mates)][1] # a

-----------------------------------------------------------------------------
(* An annotation call either goes to the blackboard of the attribute's      *)
(* scope, and is ignored after a stack error, or to a channel's blackboard. *)
ScopeBoard(t, a) == IF a \in ProcessScope THEN Process ELSE t

Target(t, a) ==
    (IF stack_error[t] THEN {} ELSE {ScopeBoard(t, a)}) \cup Channels

NoteRace(t, b) ==
    raced' = IF \E u \in Threads \ {t} : call[u].pc # "idle" /\ call[u].board = b
             THEN raced \cup {b} ELSE raced

(* The first access of a call: pre callbacks run, and the merged entry is   *)
(* read.                                                                    *)
Read(t, pc, b, a, v) ==
    /\ call' = [call EXCEPT ![t] =
                    [pc |-> pc, board |-> b, attr |-> a, value |-> v,
                     merged |-> slot[b][get_blackboard_key(a)]]]
    /\ UNCHANGED <<slot, open>>

(* Its second access.                                                       *)
Write(b, a, path) ==
    slot' = [slot EXCEPT ![b][get_blackboard_key(a)] = path]

(* The bound of the model on nesting.                                       *)
Room(b, a) == Len(open[b]) < MaxDepth /\ Len(slot[b][get_blackboard_key(a)]) < MaxDepth

(* begin(), set() and exchange() of an as_value attribute: a single access  *)
(* overwrites the slot.  exchange() does not look at stack_error.           *)
WriteValue(t, a, v) ==
    /\ call[t].pc = "idle" /\ a \in AsValue
    /\ \E b \in Target(t, a) \cup {ScopeBoard(t, a)} :
          /\ Len(open[b]) < MaxDepth
          /\ Write(b, a, <<<<a, v>>>>)
          /\ open' = [open EXCEPT ![b] = DocSet(open[b], a, v)]
          /\ NoteRace(t, b)
    /\ UNCHANGED <<stack_error, call, misused>>

(* begin(), end() and set() return at once after a stack error.             *)
Ignored(t) ==
    /\ call[t].pc = "idle" /\ stack_error[t]
    /\ UNCHANGED vars

begin(t, a, v) ==
    /\ call[t].pc = "idle" /\ a \notin AsValue
    /\ \E b \in Target(t, a) :
          /\ Room(b, a)
          /\ Read(t, "begin", b, a, v)
          /\ NoteRace(t, b)
    /\ UNCHANGED <<stack_error, misused>>

(* Mutation: a new region goes below the open ones of its own attribute,    *)
(* not to the leaf of the path.                                             *)
BelowOthers(path, a, v) ==
    Keep(path, {a}) \o <<<<a, v>>>> \o Keep(path, Attrs \ {a})

BeginBelowOthers(t) ==
    /\ call[t].pc = "begin"
    /\ LET b == call[t].board
           a == call[t].attr
           v == call[t].value
       IN /\ Write(b, a, BelowOthers(call[t].merged, a, v))
          /\ open' = [open EXCEPT ![b] = DocBegin(open[b], a, v)]
    /\ call' = [call EXCEPT ![t] = IdleCall]
    /\ UNCHANGED <<stack_error, raced, misused>>

handle_begin(t) ==
    /\ call[t].pc = "begin"
    /\ LET b == call[t].board
           a == call[t].attr
           v == call[t].value
       IN /\ Write(b, a, Append(call[t].merged, <<a, v>>))
          /\ open' = [open EXCEPT ![b] = DocBegin(open[b], a, v)]
    /\ call' = [call EXCEPT ![t] = IdleCall]
    /\ UNCHANGED <<stack_error, raced, misused>>

set(t, a, v) ==
    /\ call[t].pc = "idle" /\ a \in SetAttrs \ AsValue
    /\ \E b \in Target(t, a) :
          /\ Room(b, a)
          /\ Read(t, "set", b, a, v)
          /\ NoteRace(t, b)
    /\ UNCHANGED <<stack_error, misused>>

handle_set(t) ==
    /\ call[t].pc = "set"
    /\ LET b == call[t].board
           a == call[t].attr
           v == call[t].value
       IN /\ Write(b, a, replace_first_in_path(call[t].merged, a, v))
          /\ open' = [open EXCEPT ![b] = DocSet(open[b], a, v)]
    /\ call' = [call EXCEPT ![t] = IdleCall]
    /\ UNCHANGED <<stack_error, raced, misused>>

(* Mutation: the outermost entry of the path is compared.                   *)
MismatchOutermost(path, a) ==
    /\ Of(path, a) = {} \/ path[1][1] # a
    /\ \/ entry_get(path, a) = None
       \/ a \notin Unaligned /\ ~AllowOverlap

(* The attribute has no open value, or the entry of another region attribute *)
(* is on top of it.                                                         *)
StackMismatch(path, a) ==
    /\ Of(path, a) = {} \/ path[Len(path)][1] # a
    /\ \/ entry_get(path, a) = None
       \/ a \notin Unaligned /\ ~AllowOverlap

(* end(), and end_with_value_check() when the program expects value v.      *)
end(t, a, v) ==
    /\ call[t].pc = "idle"
    /\ \E b \in Target(t, a) :
          LET path == slot[b][get_blackboard_key(a)]
              fails == \/ StackMismatch(path, a)
                       \/ v # None /\ v # entry_get(path, a)
          IN /\ v # None => b \notin Channels
             /\ misused' = IF \/ Mistake(b, a)
                              \/ v # None /\ v # entry_get(open[b], a)
                           THEN misused \cup {t} ELSE misused
             /\ NoteRace(t, b)
             /\ IF fails
                THEN /\ stack_error' = [stack_error EXCEPT ![t] = TRUE]
                     /\ UNCHANGED <<slot, call, open>>
                ELSE /\ Read(t, "end", b, a, entry_get(path, a))
                     /\ UNCHANGED stack_error

(* After the pre_end callbacks.                                             *)
handle_end(t) ==
    /\ call[t].pc = "end"
    /\ LET b == call[t].board
           a == call[t].attr
       IN /\ Write(b, a, IF a \in AsValue THEN <<>>
                         ELSE remove_first_in_path(call[t].merged, a))
          /\ open' = [open EXCEPT ![b] = DocEnd(open[b], a)]
    /\ call' = [call EXCEPT ![t] = IdleCall]
    /\ UNCHANGED <<stack_error, raced, misused>>

Next ==
    \E t \in Threads :
        \/ \E a \in Attrs, v \in Values :
              WriteValue(t, a, v) \/ begin(t, a, v) \/ set(t, a, v)
        \/ \E a \in Attrs, v \in Values \cup {None} : end(t, a, v)
        \/ handle_begin(t) \/ handle_set(t) \/ handle_end(t)
        \/ Ignored(t)

Spec == Init /\ [][Next]_vars

-----------------------------------------------------------------------------
(* Slots hold paths of annotations, a pending call remembers the one it     *)
(* has read.                                                                *)
TypeOK ==
    /\ slot \in [Boards -> [SlotKeys -> Paths]]
    /\ stack_error \in [Threads -> BOOLEAN]
    /\ call \in [Threads ->
                  [pc : {"idle", "begin", "set", "end"}, board : Boards,
                   attr : Attrs \cup {None}, value : Values \cup {None},
                   merged : Paths]]
    /\ \A b \in Boards : open[b] \in Seq(Attrs \X Values)
    /\ raced \subseteq Boards
    /\ misused \subseteq Threads

ValuesOf(path, a) == Keep(path, {a})

(* A merged slot keeps a separate stack for every attribute: however begin, *)
(* set and end calls for different attributes overlap in it, the values of  *)
(* one attribute on its path are the open values of that attribute, in the  *)
(* order in which they were opened.  It holds for every blackboard on which *)
(* no two calls overlapped.                                                 *)
StacksFaithful ==
    \A b \in Boards \ raced, a \in Attrs :
        ValuesOf(slot[b][get_blackboard_key(a)], a) = ValuesOf(open[b], a)

(* The same for every blackboard, the shared ones included: "Regions are    *)
(* either visible only on the thread that creates them, or shared by all    *)
(* threads" (doc/sphinx/CaliperBasics.rst).                                 *)
SharedStacksFaithful ==
    \A b \in Boards, a \in Attrs :
        ValuesOf(slot[b][get_blackboard_key(a)], a) = ValuesOf(open[b], a)

(* get(), and the value handed to the pre_end callbacks, is the innermost   *)
(* open value of the attribute, and an empty entry if there is none.        *)
CurrentValueExact ==
    \A b \in Boards \ raced, a \in Attrs :
        LET current == ValuesOf(open[b], a)
        IN entry_get(slot[b][get_blackboard_key(a)], a) =
              IF current = <<>> THEN None ELSE current[Len(current)][2]

(* The region slot lists the open regions of all region attributes in the   *)
(* order in which they were opened, so that the path in a snapshot is the   *)
(* call path of the program.                                                *)
NestingExact ==
    \A b \in Boards \ raced :
        slot[b]["REGION_KEY"] =
            Keep(open[b], {a \in Attrs : get_blackboard_key(a) = "REGION_KEY"})

(* end() reports exactly the mistakes of the program: stack_error is set    *)
(* for a thread that ended something else than the innermost region, or a   *)
(* value that is not open, and for no other thread.                         *)
ErrorIffMistake ==
    raced = {} => \A t \in Threads : stack_error[t] <=> t \in misused

=============================================================================
