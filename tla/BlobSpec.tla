------------------------------ MODULE BlobSpec ------------------------------
(***************************************************************************)
(* What the BlobStore trait (blob.rs) promises when one put of a key runs  *)
(* at a time: a put takes effect in one step or not at all, a get finds    *)
(* what was there when it started, and both may fail without an effect.    *)
(* There are no files here.                                                *)
(***************************************************************************)
CONSTANTS Tasks, Keys, Payloads, MayHold, NULL

VARIABLES
  blobs, \* blobs[k]: what is stored at k, or NULL
  call   \* call[t]: [op, key, bytes, answer], or NULL; answer is NULL at first

vars == <<blobs, call>>

Init ==
  /\ blobs = [k \in Keys |-> NULL]
  /\ call = [t \in Tasks |-> NULL]

Put(t, k, p) ==
  /\ call[t] = NULL /\ p \in MayHold[k]
  /\ call' = [call EXCEPT ![t] = [op |-> "put", key |-> k, bytes |-> p, answer |-> NULL]]
  /\ UNCHANGED blobs

\* What a get returns is settled when it starts, whatever is put meanwhile.
Get(t, k) ==
  /\ call[t] = NULL
  /\ call' = [call EXCEPT ![t] = [op |-> "get", key |-> k, bytes |-> blobs[k],
                                  answer |-> IF blobs[k] = NULL THEN "NotFound" ELSE NULL]]
  /\ UNCHANGED blobs

Pending(t, op) == call[t] # NULL /\ call[t].op = op /\ call[t].answer = NULL

TakeEffect(t) ==
  /\ Pending(t, "put")
  /\ blobs' = [blobs EXCEPT ![call[t].key] = call[t].bytes]
  /\ call' = [call EXCEPT ![t].answer = "Ok"]

Found(t) ==
  /\ Pending(t, "get")
  /\ call' = [call EXCEPT ![t].answer = "Ok"] /\ UNCHANGED blobs

\* An I/O error: no bytes, and no effect.
Fail(t) ==
  /\ Pending(t, "put") \/ Pending(t, "get")
  /\ call' = [call EXCEPT ![t].answer = "Io", ![t].bytes = NULL] /\ UNCHANGED blobs

\* Answers are delivered, callers give up, or the process dies.
Forget(T) ==
  /\ call' = [t \in Tasks |-> IF t \in T THEN NULL ELSE call[t]] /\ UNCHANGED blobs

Next ==
  \/ \E t \in Tasks, k \in Keys, p \in Payloads : Put(t, k, p)
  \/ \E t \in Tasks, k \in Keys : Get(t, k)
  \/ \E t \in Tasks : TakeEffect(t) \/ Found(t) \/ Fail(t) \/ Forget({t})
  \/ Forget(Tasks)

Spec == Init /\ [][Next]_vars
=============================================================================
