---------------------------- MODULE DurableStore ----------------------------
(***************************************************************************)
(* What SecurityStateStore promises its callers: one durable value, the    *)
(* security state together with the incoming replay floors, that every     *)
(* operation replaces in a single indivisible step or leaves alone.  An    *)
(* operation that reports an error, or is cut off by a power failure, did  *)
(* either.                                                                 *)
(*                                                                         *)
(* Replay floors are a one-sided promise: after a commit a floor is never  *)
(* below the one the operation asked for, and never above the larger of    *)
(* that and the floor from before it.  (A floor that the operation asked   *)
(* to remove may survive: see the run StaleSnapshot of SecurityJournal.)   *)
(* The upper half is given up once a commit marker was left unverified     *)
(* (doubt): floors of an attempt with the same number may then come back.  *)
(*                                                                         *)
(* A state whose commit marker could not be verified may still surface     *)
(* later, with the floors its operation knew.                              *)
(***************************************************************************)
EXTENDS Integers

CONSTANTS
    States,      \* security states
    Domains,     \* replay domains
    MaxFloor,    \* largest replay floor; 0 stands for "no floor"
    NoValue      \* nothing stored, or no operation under way

Floors == [Domains -> 0 .. MaxFloor]
NoFloors == [d \in Domains |-> 0]
Values == [state : States \cup {NoValue}, floors : Floors]

VARIABLES
    durable,     \* the value a boot finds
    pending,     \* the value of the operation under way
    late,        \* states of failed operations that may still surface
    doubt        \* some commit marker could not be verified so far

absVars == <<durable, pending, late, doubt>>

Init ==
    /\ durable = [state |-> NoValue, floors |-> NoFloors]
    /\ pending = NoValue
    /\ late = {}
    /\ doubt = FALSE

\* An operation starts: it knows the value it wants to make durable.
Begin ==
    /\ pending = NoValue
    /\ pending' \in Values
    /\ UNCHANGED <<durable, late, doubt>>

Larger(a, b) == IF a >= b THEN a ELSE b

\* The commit point.
Commit ==
    /\ pending # NoValue /\ pending' = NoValue
    /\ late' \subseteq late
    /\ durable' \in Values
    /\ durable'.state = pending.state
    /\ \A d \in Domains :
         /\ pending.floors[d] <= durable'.floors[d]
         /\ ~doubt => durable'.floors[d] <= Larger(durable.floors[d], pending.floors[d])
    /\ UNCHANGED doubt

\* An error or a power cut before the commit point.
Abort ==
    /\ pending # NoValue /\ pending' = NoValue
    /\ late' \subseteq late \cup {pending.state}
    /\ doubt' = (doubt \/ late' # {})
    /\ UNCHANGED durable

\* What an earlier operation left behind is erased or superseded.
Forget ==
    /\ late' \subseteq late
    /\ UNCHANGED <<durable, pending, doubt>>

\* A failed operation takes effect after all, or only its floors do.
Surface ==
    /\ late' \subseteq late
    /\ late # {}
    /\ durable' \in Values /\ durable'.state \in late \cup {durable.state}
    /\ UNCHANGED <<pending, doubt>>

Next == Begin \/ Commit \/ Abort \/ Forget \/ Surface

Spec == Init /\ [][Next]_absVars
=============================================================================
