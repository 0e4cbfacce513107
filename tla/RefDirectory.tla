---------------------------- MODULE RefDirectory ----------------------------
(***************************************************************************)
(* What a directory of reference-counted objects promises its users: an    *)
(* object that is registered can be acquired and released by many threads, *)
(* and is destroyed once, after the last reference to it is gone and       *)
(* before it can be registered again.                                      *)
(***************************************************************************)
CONSTANTS Threads, Objects

VARIABLES live,    \* the registered objects
          holders  \* the threads that hold a reference to each object

dirVars == <<live, holders>>

Init ==
    /\ live = {}
    /\ holders = [o \in Objects |-> {}]

Register(t, o) ==
    /\ o \notin live
    /\ live' = live \cup {o}
    /\ holders' = [holders EXCEPT ![o] = {t}]

(* Only an object that somebody still holds can be acquired. *)
Acquire(t, o) ==
    /\ holders[o] # {}
    /\ holders' = [holders EXCEPT ![o] = @ \cup {t}]
    /\ UNCHANGED live

Release(t, o) ==
    /\ t \in holders[o]
    /\ holders' = [holders EXCEPT ![o] = @ \ {t}]
    /\ UNCHANGED live

Destroy(o) ==
    /\ o \in live
    /\ holders[o] = {}
    /\ live' = live \ {o}
    /\ UNCHANGED holders

Next ==
    \E o \in Objects :
      \/ Destroy(o)
      \/ \E t \in Threads : Register(t, o) \/ Acquire(t, o) \/ Release(t, o)

Spec == Init /\ [][Next]_dirVars

=============================================================================
