----------------------------- MODULE BufferSizes -----------------------------
(* The threads, the items and the size of a bounded buffer (PcBuffer). *)
EXTENDS Integers, FiniteSets

CONSTANTS
    Producers, Consumers,   \* the threads
    Items,                  \* what is put
    Capacity,               \* pcbuffer.capacity
    NoThread                \* the mutex is free

ASSUME ThreadsAssumption ==
    /\ IsFiniteSet(Producers) /\ IsFiniteSet(Consumers)
    /\ Producers \cap Consumers = {}
    /\ NoThread \notin Producers \cup Consumers
ASSUME CapacityAssumption == Capacity \in Nat \ {0}
=============================================================================
