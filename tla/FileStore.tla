------------------------------ MODULE FileStore ------------------------------
(* What FlashFS promises its callers: a map from names to contents.  A name  *)
(* is created once, replaced while it exists and removed; an operation that  *)
(* fails, writing the file system out and reading it back change nothing.    *)

CONSTANTS Names, Contents

VARIABLE store      \* what is stored under each name, as a tagged pair

None == <<"none">>
Some(d) == <<"some", d>>

TypeOK == store \in [Names -> {None} \cup {Some(d) : d \in Contents}]

\* A store starts empty, or with the files of another image.
Init == TypeOK

Create(n, d) ==
    /\ store[n] = None
    /\ store' = [store EXCEPT ![n] = Some(d)]

Replace(n, d) ==
    /\ store[n] # None
    /\ store' = [store EXCEPT ![n] = Some(d)]

Remove(n) ==
    /\ store[n] # None
    /\ store' = [store EXCEPT ![n] = None]

Next == \E n \in Names :
            \/ \E d \in Contents : Create(n, d) \/ Replace(n, d)
            \/ Remove(n)

Spec == Init /\ [][Next]_store
==============================================================================
