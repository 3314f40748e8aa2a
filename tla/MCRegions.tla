----------------------------- MODULE MCRegions -----------------------------
(***************************************************************************)
(* Two instances of Regions: two threads with nested regions on the        *)
(* process blackboard, and one thread with overlapping regions, set() and  *)
(* a channel blackboard.  part says which one a behaviour is about; the    *)
(* other stays in its initial state.                                       *)
(***************************************************************************)
EXTENDS Regions, TLC

ValueSymmetry == Permutations(Values)

CONSTANTS LapThread, LapChannel, LapAttrs, LapAsValue, LapSetAttrs, LapDepth

VARIABLES part, lap_slot, lap_error, lap_call, lap_open, lap_raced, lap_misused

Lap == INSTANCE Regions WITH
         Threads <- {LapThread}, Channels <- {LapChannel}, Attrs <- LapAttrs, ProcessScope <- {},
         AsValue <- LapAsValue, Unaligned <- {}, SetAttrs <- LapSetAttrs, AllowOverlap <- TRUE,
         MaxDepth <- LapDepth, slot <- lap_slot, stack_error <- lap_error, call <- lap_call,
         open <- lap_open, raced <- lap_raced, misused <- lap_misused

lap_vars == <<lap_slot, lap_error, lap_call, lap_open, lap_raced, lap_misused>>

BothInit == part \in {"nest", "overlap"} /\ Init /\ Lap!Init

BothNext ==
    \/ part = "nest" /\ Next /\ UNCHANGED <<part, lap_vars>>
    \/ part = "overlap" /\ Lap!Next /\ UNCHANGED <<part, vars>>

(* With caliper.allow_region_overlap: however begin, set and end calls for  *)
(* different attributes overlap in a merged slot, every attribute has its   *)
(* own stack in it, its current value is the innermost open one, and end()  *)
(* fails exactly for an attribute without an open value (StackMismatch).    *)
OverlapExact == Lap!StacksFaithful /\ Lap!CurrentValueExact /\ Lap!ErrorIffMistake
=============================================================================
