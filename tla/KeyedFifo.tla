------------------------------ MODULE KeyedFifo ------------------------------
(***************************************************************************)
(* What the request queue of one engine generation promises its callers:   *)
(* every serialization key has a FIFO of its own, at most one operation of *)
(* a key is between its begin and its end, and an operation begins only    *)
(* when it is the oldest accepted operation of its key.  How many workers  *)
(* there are, and how they wait for each other, is not visible here.       *)
(***************************************************************************)
EXTENDS Sequences

CONSTANTS Work,    \* operations, each submitted at most once
          Key,     \* serialization keys, "<engine generation>:<scope>"
          KeyOf,   \* the key each operation is submitted with
          NoWork   \* "no operation"

VARIABLES pending,  \* pending[k]: accepted operations of key k, oldest first
          current,  \* current[k]: the operation of key k that is executing
          ended     \* operations whose callback has returned

vars == <<pending, current, ended>>

Init == /\ pending = [k \in Key |-> << >>]
        /\ current = [k \in Key |-> NoWork]
        /\ ended = {}

Accept(x) == /\ pending' = [pending EXCEPT ![KeyOf[x]] = Append(@, x)]
             /\ UNCHANGED <<current, ended>>

Begin(k) == /\ pending[k] # << >>
            /\ current[k] = NoWork
            /\ current' = [current EXCEPT ![k] = Head(pending[k])]
            /\ pending' = [pending EXCEPT ![k] = Tail(@)]
            /\ UNCHANGED ended

\* The callback returns; the key stays taken until Release.
Return(k) == /\ current[k] # NoWork
             /\ ended' = ended \cup {current[k]}
             /\ UNCHANGED <<pending, current>>

Release(k) == /\ current[k] \in ended
              /\ current' = [current EXCEPT ![k] = NoWork]
              /\ UNCHANGED <<pending, ended>>

Next == \/ \E x \in Work : Accept(x)
        \/ \E k \in Key : Begin(k) \/ Return(k) \/ Release(k)

Spec == Init /\ [][Next]_vars
=============================================================================
