---------------------------- MODULE OutboxGroup ----------------------------
(***************************************************************************)
(* What the parts of the outbox worker share: the processes that consume   *)
(* one partition of the message stream, and the situation they run in.     *)
(***************************************************************************)
EXTENDS Integers, Sequences, FiniteSets

CONSTANTS
    Consumers,        \* the worker processes of the group
    MaxOffset,        \* the stream holds the offsets 0 .. MaxOffset
    Setups            \* the situations to start from; each part names its fields

VARIABLES
    setup,            \* the situation, fixed at the start
    crashes           \* how often a process has died

Offsets == 0 .. MaxOffset
=============================================================================
