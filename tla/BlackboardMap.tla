--------------------------- MODULE BlackboardMap ---------------------------
(***************************************************************************)
(* What a blackboard promises its callers: a map from keys to entries that  *)
(* can hold Capacity entries.  Every operation of Blackboard.h is called    *)
(* and then takes effect in one atomic step.                                *)
(***************************************************************************)
EXTENDS Integers, FiniteSets

CONSTANTS Keys, Values, NoEntry, Capacity

VARIABLES
    contents, \* the entry of every key
    ret,      \* what the last operation returned
    call      \* <<name, key, value>> of the operation that has not taken effect

NoCall == <<"none", NoEntry, NoEntry>>

Stored == {key \in Keys : contents[key] # NoEntry}

Init ==
    /\ contents = [key \in Keys |-> NoEntry]
    /\ ret = NoEntry
    /\ call = NoCall

Invoke ==
    /\ call = NoCall
    /\ \E name \in {"get", "set", "exchange", "del"}, key \in Keys,
          value \in Values \cup {NoEntry} : call' = <<name, key, value>>
    /\ UNCHANGED <<contents, ret>>

Get(key) ==
    /\ call[1] = "get" /\ call[2] = key
    /\ ret' = contents[key]
    /\ call' = NoCall
    /\ UNCHANGED contents

Write(key, value) ==
    /\ key \in Stored \/ Cardinality(Stored) < Capacity
    /\ contents' = [contents EXCEPT ![key] = value]

(* A new key is dropped when the map is full.                               *)
Drop(key) ==
    /\ key \notin Stored
    /\ Cardinality(Stored) >= Capacity
    /\ UNCHANGED contents

Set(key, value) ==
    /\ call = <<"set", key, value>>
    /\ Write(key, value) \/ Drop(key)
    /\ call' = NoCall
    /\ UNCHANGED ret

Exchange(key, value) ==
    /\ call = <<"exchange", key, value>>
    /\ Write(key, value) \/ Drop(key)
    /\ call' = NoCall
    /\ ret' = contents[key]

Del(key) ==
    /\ call[1] = "del" /\ call[2] = key
    /\ contents' = [contents EXCEPT ![key] = NoEntry]
    /\ call' = NoCall
    /\ UNCHANGED ret

Next ==
    \/ Invoke
    \/ \E key \in Keys :
          \/ Get(key) \/ Del(key)
          \/ \E value \in Values : Set(key, value) \/ Exchange(key, value)

Spec == Init /\ [][Next]_<<contents, ret, call>>
=============================================================================
