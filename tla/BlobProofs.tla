----------------------------- MODULE BlobProofs -----------------------------
(***************************************************************************)
(* Theorems about BlobStore: for any number of tasks, keys, payloads and   *)
(* pieces, a blob at its key is whole as long as the puts of a key come    *)
(* one at a time.                                                          *)
(***************************************************************************)
EXTENDS BlobStore, FiniteSetTheorems, TLAPS

\* The types the argument needs.
Types ==
  /\ final \in [Keys -> Optional(Inodes)] /\ temp \in [Keys -> Optional(Inodes)]
  /\ data \in [Inodes -> [Pieces -> Optional(Payloads)]]
  /\ stage \in [Tasks -> Stages] /\ key \in [Tasks -> Optional(Keys)]
  /\ payload \in [Tasks -> Optional(Payloads)]
  /\ fd \in [Tasks -> Optional(Inodes)] /\ at \in [Tasks -> Nat]

\* No two directory entries share an inode.
Separate ==
  \A j, k \in Keys :
    /\ j # k /\ final[j] # NULL => final[j] # final[k]
    /\ j # k /\ temp[j] # NULL => temp[j] # temp[k]
    /\ final[j] # NULL => final[j] # temp[k]

\* t owns the .tmp of its key.
Busy(t) == stage[t] \in {"open", "write", "rename"}

\* A .tmp has one owner.
Exclusive == \A t, u \in Tasks : Busy(t) /\ Busy(u) /\ key[t] = key[u] => t = u

\* What the .tmp of an owner holds: its payload as far as it has come.
Written(t) ==
  [n \in Pieces |-> IF n <= at[t] THEN payload[t] ELSE NULL]

PutOK(t) ==
  /\ stage[t] \in {"idle", "open"} => at[t] = 0
  /\ Busy(t) => key[t] \in Keys /\ payload[t] \in MayHold[key[t]]
  /\ stage[t] = "write" => /\ fd[t] \in Inodes /\ fd[t] = temp[key[t]]
                           /\ at[t] <= Chunks /\ data[fd[t]] = Written(t)
  /\ stage[t] = "rename" => /\ temp[key[t]] \in Inodes
                            /\ data[temp[key[t]]] = WholeFile(payload[t])

\* The inductive invariant.
Inv == Types /\ Separate /\ Exclusive /\ (\A t \in Tasks : PutOK(t)) /\ NeverTorn

-----------------------------------------------------------------------------
\* The call of u is as it was.
Same(u) == /\ stage'[u] = stage[u] /\ key'[u] = key[u] /\ payload'[u] = payload[u]
           /\ fd'[u] = fd[u] /\ at'[u] = at[u]

\* The call of u owns no .tmp afterwards.
Out(u) == ~Busy(u)' /\ (stage'[u] = "idle" => at'[u] = 0)

\* A step that touches no file and in which calls only go on as they were or
\* let go of their .tmp keeps the invariant.
LEMMA QuietStep ==
  ASSUME Inv, Types', UNCHANGED files, \A u \in Tasks : Same(u) \/ Out(u)
  PROVE  Inv'
<1>1. final' = final /\ temp' = temp /\ data' = data
  BY DEF files
<1>2. Separate' /\ NeverTorn'
  BY <1>1 DEF Inv, Separate, NeverTorn, WholeFile, Pieces
<1>3. Exclusive'
  <2> SUFFICES ASSUME NEW t \in Tasks, NEW u \in Tasks,
                      Busy(t)', Busy(u)', key'[t] = key'[u]
               PROVE  t = u
    BY DEF Exclusive
  <2>1. Same(t) /\ Same(u)
    BY DEF Out
  <2> QED
    BY <2>1 DEF Same, Busy, Inv, Exclusive
<1>4. ASSUME NEW t \in Tasks PROVE PutOK(t)'
  <2>1. PutOK(t)
    BY DEF Inv
  <2>2. CASE Same(t)
    BY <1>1, <2>1, <2>2 DEF Same, PutOK, Busy, Written, WholeFile, Pieces
  <2>3. CASE Out(t)
    BY <2>3 DEF Out, PutOK, Busy
  <2> QED
    BY <2>2, <2>3
<1> QED
  BY <1>2, <1>3, <1>4 DEF Inv

-----------------------------------------------------------------------------
\* At first there are no files.
LEMMA InitInv == Init => Inv
<1> SUFFICES ASSUME Init PROVE Inv
  OBVIOUS
<1> USE BlobAssumption DEF Init, Optional, Stages, Empty
<1>1. Types
  BY DEF Types
<1>2. Separate /\ Exclusive /\ NeverTorn
  BY DEF Separate, Exclusive, Busy, NeverTorn
<1>3. \A t \in Tasks : PutOK(t)
  BY DEF PutOK, Busy
<1> QED
  BY <1>1, <1>2, <1>3 DEF Inv

\* A put becomes the only owner of the .tmp of its key.
LEMMA PutInv ==
  ASSUME Inv, IsFiniteSet(Tasks), MaxWriters = 1,
         NEW t \in Tasks, NEW k \in Keys, NEW p \in Payloads, Put(t, k, p)
  PROVE  Inv'
<1> USE DEF Put, GoTo, files
<1>1. Types'
  BY DEF Inv, Types, Stages, Optional
<1>2. Separate' /\ NeverTorn'
  BY DEF Inv, Separate, NeverTorn, WholeFile, Pieces
<1>3. \A u \in Tasks \ {t} : Same(u)
  BY DEF Same, Inv, Types
<1>4. /\ stage[t] = "idle" /\ stage'[t] = "open" /\ key'[t] = k /\ payload'[t] = p
      /\ fd'[t] = fd[t] /\ at'[t] = at[t] /\ p \in MayHold[k]
  BY DEF Inv, Types
<1>5. Writers(k) = {}
  <2>1. IsFiniteSet(Writers(k))
    BY FS_Subset DEF Writers
  <2>2. Cardinality(Writers(k)) \in Nat /\ Cardinality(Writers(k)) < 1
    BY <2>1, FS_CardinalityType
  <2> QED
    BY <2>1, <2>2, FS_EmptySet
<1>6. Exclusive'
  <2> SUFFICES ASSUME NEW u \in Tasks, NEW v \in Tasks,
                      Busy(u)', Busy(v)', key'[u] = key'[v], u # v
               PROVE  FALSE
    BY DEF Exclusive
  <2>1. CASE u # t /\ v # t
    BY <1>3, <2>1 DEF Same, Busy, Inv, Exclusive
  <2>2. CASE u = t \/ v = t
    <3>1. PICK w \in {u, v} : w # t
      BY <2>2
    <3>2. Busy(w) /\ key[w] = k
      BY <1>3, <1>4, <2>2, <3>1 DEF Same, Busy
    <3> QED
      BY <1>5, <3>2 DEF Writers, Busy
  <2> QED
    BY <2>1, <2>2
<1>7. ASSUME NEW u \in Tasks PROVE PutOK(u)'
  <2>1. PutOK(u)
    BY DEF Inv
  <2>2. CASE u = t
    BY <1>4, <2>1, <2>2 DEF PutOK, Busy
  <2>3. CASE u # t
    BY <1>3, <2>1, <2>3 DEF Same, PutOK, Busy, Written, WholeFile, Pieces
  <2> QED
    BY <2>2, <2>3
<1> QED
  BY <1>1, <1>2, <1>6, <1>7 DEF Inv

\* A .tmp that is created or truncated is nobody else's file, and no blob.
LEMMA OpenInv ==
  ASSUME Inv, NEW t \in Tasks, Open(t)
  PROVE  Inv'
<1>1. PICK i \in Inodes :
        /\ IF temp[key[t]] = NULL THEN Unused(i) ELSE i = temp[key[t]]
        /\ temp' = [temp EXCEPT ![key[t]] = i]
        /\ data' = [data EXCEPT ![i] = Empty]
        /\ fd' = [fd EXCEPT ![t] = i]
  BY DEF Open
<1>2. /\ stage[t] = "open" /\ stage' = [stage EXCEPT ![t] = "write"]
      /\ UNCHANGED <<final, key, payload, at>>
  BY DEF Open, GoTo
<1>3. /\ key[t] \in Keys /\ payload[t] \in MayHold[key[t]] /\ at[t] = 0
      /\ i # NULL
  BY <1>2, BlobAssumption DEF Inv, PutOK, Busy
<1>4. Types'
  BY <1>1, <1>2, <1>3 DEF Inv, Types, Stages, Optional, Empty
<1>5. \A k \in Keys : final[k] # i
  BY <1>1, <1>3 DEF Inv, Separate, Unused
<1>6. \A k \in Keys \ {key[t]} : temp[k] # i /\ temp'[k] = temp[k]
  BY <1>1, <1>3 DEF Inv, Types, Separate, Unused
<1>7. temp'[key[t]] = i
  BY <1>1, <1>3 DEF Inv, Types
<1>8. Separate'
  BY <1>2, <1>3, <1>5, <1>6, <1>7 DEF Inv, Separate
<1>9. Exclusive'
  BY <1>2 DEF Inv, Types, Exclusive, Busy
<1>10. NeverTorn'
  BY <1>1, <1>2, <1>5 DEF Inv, Types, NeverTorn, WholeFile, Pieces, Optional
<1>11. ASSUME NEW u \in Tasks PROVE PutOK(u)'
  <2>1. PutOK(u)
    BY DEF Inv
  <2>2. CASE u = t
    <3>1. stage'[t] = "write" /\ fd'[t] = i /\ data'[i] = Empty /\ at'[t] = 0
      BY <1>1, <1>2, <1>3 DEF Inv, Types
    <3>2. Empty = Written(t)'
      BY <3>1 DEF Empty, Written, Pieces
    <3> QED
      BY <1>2, <1>3, <1>7, <2>2, <3>1, <3>2, BlobAssumption DEF PutOK, Busy
  <2>3. CASE u # t
    <3>1. Same(u)
      BY <1>1, <1>2, <2>3 DEF Same, Inv, Types
    <3>2. CASE Busy(u)
      <4>1. key[u] \in Keys \ {key[t]}
        BY <1>2, <2>1, <2>3, <3>2 DEF Inv, Exclusive, Busy, PutOK
      <4>2. /\ temp'[key[u]] = temp[key[u]]
            /\ temp[key[u]] \in Inodes => data'[temp[key[u]]] = data[temp[key[u]]]
        BY <1>1, <1>6, <4>1 DEF Inv, Types
      <4> QED
        BY <2>1, <3>1, <4>2 DEF Same, PutOK, Busy, Written, WholeFile, Pieces
    <3>3. CASE ~Busy(u)
      BY <2>1, <3>1, <3>3 DEF Same, PutOK, Busy
    <3> QED
      BY <3>2, <3>3
  <2> QED
    BY <2>2, <2>3
<1> QED
  BY <1>4, <1>8, <1>9, <1>10, <1>11 DEF Inv

\* A write goes to the owner's file alone.
LEMMA WriteInv ==
  ASSUME Inv, NEW t \in Tasks, Write(t)
  PROVE  Inv'
<1> DEFINE i == fd[t]
           n == at[t] + 1
<1>1. /\ stage[t] = "write" /\ at[t] < Chunks
      /\ data' = [data EXCEPT ![i][n] = payload[t]]
      /\ at' = [at EXCEPT ![t] = n]
      /\ UNCHANGED <<final, temp, stage, key, payload, fd>>
  BY DEF Write, Inv, Types
<1>2. /\ key[t] \in Keys /\ payload[t] \in MayHold[key[t]] /\ payload[t] \in Payloads
      /\ i \in Inodes /\ i = temp[key[t]] /\ i # NULL /\ data[i] = Written(t)
      /\ n \in Pieces /\ at[t] \in Nat
  BY <1>1, BlobAssumption DEF Inv, PutOK, Busy, Pieces, Types
<1>3. data'[i] = [data[i] EXCEPT ![n] = payload[t]] /\ \A j \in Inodes \ {i} : data'[j] = data[j]
  BY <1>1, <1>2 DEF Inv, Types
<1>4. data' \in [Inodes -> [Pieces -> Optional(Payloads)]]
  BY <1>1, <1>2 DEF Inv, Types, Optional
<1>5. Types'
  BY <1>1, <1>2, <1>4 DEF Inv, Types
<1>6. Separate' /\ Exclusive'
  BY <1>1 DEF Inv, Separate, Exclusive, Busy
<1>7. NeverTorn'
  <2> SUFFICES ASSUME NEW k \in Keys, final'[k] # NULL
               PROVE  \E p \in MayHold[k] : data'[final'[k]] = WholeFile(p)'
    BY DEF NeverTorn
  <2>1. final'[k] = final[k] /\ final[k] \in Inodes \ {i}
    BY <1>1, <1>2 DEF Inv, Types, Separate, Optional
  <2> QED
    BY <1>3, <2>1 DEF Inv, NeverTorn, WholeFile, Pieces
<1>8. ASSUME NEW u \in Tasks PROVE PutOK(u)'
  <2>1. PutOK(u)
    BY DEF Inv
  <2>2. CASE u = t
    <3>1. data'[i] = Written(t)'
      <4>1. at'[t] = n /\ payload'[t] = payload[t]
        BY <1>1 DEF Inv, Types
      <4>2. data[i] = [m \in Pieces |-> IF m <= at[t] THEN payload[t] ELSE NULL]
        BY <1>2 DEF Written
      <4>3. data'[i] = [m \in Pieces |-> IF m <= n THEN payload[t] ELSE NULL]
        <5>1. data'[i] = [m \in Pieces |-> IF m = n THEN payload[t] ELSE data[i][m]]
          BY <1>2, <1>3, <4>2
        <5>2. \A m \in Pieces : (IF m = n THEN payload[t] ELSE data[i][m])
                                = IF m <= n THEN payload[t] ELSE NULL
          BY <1>2, <4>2 DEF Pieces
        <5> QED
          BY <5>1, <5>2, Zenon
      <4> QED
        BY <4>1, <4>3 DEF Written, Pieces
    <3>2. at'[t] = n /\ n <= Chunks
      BY <1>1, <1>2 DEF Inv, Types, Pieces
    <3> QED
      BY <1>1, <1>2, <2>2, <3>1, <3>2 DEF PutOK, Busy
  <2>3. CASE u # t
    <3>1. Same(u) /\ temp' = temp
      BY <1>1, <2>3 DEF Same, Inv, Types
    <3>2. CASE Busy(u)
      <4>1. temp[key[u]] \in Inodes => data'[temp[key[u]]] = data[temp[key[u]]]
        <5>1. key[u] \in Keys \ {key[t]}
          BY <1>1, <2>1, <2>3, <3>2 DEF Inv, Exclusive, Busy, PutOK
        <5>2. temp[key[u]] # i
          BY <1>2, <5>1 DEF Inv, Separate
        <5> QED
          BY <1>3, <5>2
      <4> QED
        BY <2>1, <3>1, <4>1 DEF Same, PutOK, Busy, Written, WholeFile, Pieces
    <3>3. CASE ~Busy(u)
      BY <2>1, <3>1, <3>3 DEF Same, PutOK, Busy
    <3> QED
      BY <3>2, <3>3
  <2> QED
    BY <2>2, <2>3
<1> QED
  BY <1>5, <1>6, <1>7, <1>8 DEF Inv

\* The write that is complete has filled the file.
LEMMA CloseInv ==
  ASSUME Inv, NEW t \in Tasks, Close(t)
  PROVE  Inv'
<1> USE DEF Close, GoTo, Finish
<1>1. Types'
  BY DEF Inv, Types, Stages, Optional, files
<1>2. \A u \in Tasks \ {t} : Same(u)
  BY DEF Same, Inv, Types
<1>3. CASE ~awaited[t]
  <2>1. Out(t)
    BY <1>3 DEF Out, Busy, Inv, Types
  <2> QED
    BY <1>1, <1>2, <2>1, QuietStep
<1>4. CASE awaited[t]
  <2>1. /\ stage[t] = "write" /\ at[t] = Chunks
        /\ stage' = [stage EXCEPT ![t] = "rename"]
        /\ UNCHANGED <<final, temp, data, key, payload, at>>
    BY <1>4 DEF files
  <2>2. Separate' /\ NeverTorn'
    BY <2>1 DEF Inv, Separate, NeverTorn, WholeFile, Pieces
  <2>3. Exclusive'
    BY <2>1 DEF Inv, Types, Exclusive, Busy
  <2>4. PutOK(t)'
    <3>1. Written(t) = WholeFile(payload[t])
      BY <2>1, BlobAssumption DEF Written, WholeFile, Pieces
    <3>2. WholeFile(payload[t])' = WholeFile(payload[t])
      BY <2>1 DEF WholeFile, Pieces
    <3> QED
      BY <2>1, <3>1, <3>2 DEF Inv, Types, PutOK, Busy
  <2>5. ASSUME NEW u \in Tasks \ {t} PROVE PutOK(u)'
    <3>1. Same(u) /\ PutOK(u) /\ temp' = temp /\ data' = data
      BY <1>2, <2>1 DEF Inv
    <3> QED
      BY ONLY <3>1 DEF Same, PutOK, Busy, Written, WholeFile, Pieces
  <2> QED
    BY <1>1, <2>2, <2>3, <2>4, <2>5 DEF Inv
<1> QED
  BY <1>3, <1>4

\* The rename gives the key a file that is whole, and frees the .tmp.
LEMMA RenameInv ==
  ASSUME Inv, NEW t \in Tasks, Rename(t)
  PROVE  Inv'
<1> DEFINE k == key[t]
           i == temp[k]
<1>1. /\ stage[t] = "rename" /\ stage' = [stage EXCEPT ![t] = "reply"]
      /\ fd' = [fd EXCEPT ![t] = NULL]
      /\ UNCHANGED <<data, key, payload, at>>
  BY DEF Rename, Finish, GoTo
<1>2. /\ k \in Keys /\ payload[t] \in MayHold[k]
      /\ i \in Inodes /\ i # NULL /\ data[i] = WholeFile(payload[t])
  BY <1>1, BlobAssumption DEF Inv, PutOK, Busy
<1>3. final' = [final EXCEPT ![k] = i] /\ temp' = [temp EXCEPT ![k] = NULL]
  BY <1>2 DEF Rename
<1>4. Types'
  BY <1>1, <1>2, <1>3 DEF Inv, Types, Stages, Optional
<1>5. /\ final'[k] = i /\ temp'[k] = NULL
      /\ \A j \in Keys \ {k} : final'[j] = final[j] /\ temp'[j] = temp[j]
  BY <1>2, <1>3 DEF Inv, Types
<1>6. Separate'
  BY <1>2, <1>5 DEF Inv, Separate
<1>7. Exclusive'
  BY <1>1 DEF Inv, Types, Exclusive, Busy
<1>8. NeverTorn'
  <2> SUFFICES ASSUME NEW j \in Keys, final'[j] # NULL
               PROVE  \E p \in MayHold[j] : data'[final'[j]] = WholeFile(p)'
    BY DEF NeverTorn
  <2>1. CASE j = k
    BY <1>1, <1>2, <1>5, <2>1 DEF WholeFile, Pieces
  <2>2. CASE j # k
    BY <1>1, <1>5, <2>2 DEF Inv, NeverTorn, WholeFile, Pieces
  <2> QED
    BY <2>1, <2>2
<1>9. ASSUME NEW u \in Tasks PROVE PutOK(u)'
  <2>1. PutOK(u)
    BY DEF Inv
  <2>2. CASE u = t
    BY <1>1, <2>2 DEF PutOK, Busy, Inv, Types
  <2>3. CASE u # t
    <3>1. Same(u) /\ data' = data
      BY <1>1, <2>3 DEF Same, Inv, Types
    <3>2. Busy(u) => key[u] \in Keys \ {k}
      BY <1>1, <2>1, <2>3 DEF Inv, Exclusive, Busy, PutOK
    <3> QED
      BY <1>5, <2>1, <3>1, <3>2 DEF Same, PutOK, Busy, Written, WholeFile, Pieces
  <2> QED
    BY <2>2, <2>3
<1> QED
  BY <1>4, <1>6, <1>7, <1>8, <1>9 DEF Inv

\* Every other step only lets go of calls: gets, failures, answers, callers
\* that drop a future, and a process that dies.
LEMMA OtherInv ==
  ASSUME Inv,
         \/ \E t \in Tasks : \/ WriteFails(t) \/ RenameFails(t) \/ Read(t)
                              \/ ReadFails(t) \/ Return(t) \/ Cancel(t)
         \/ \E t \in Tasks, k \in Keys : Get(t, k)
         \/ Crash
         \/ UNCHANGED vars
  PROVE  Inv'
<1> USE DEF GoTo, Finish, Clear, files, Stages, Optional
<1>1. ASSUME NEW t \in Tasks, WriteFails(t) PROVE Inv'
  <2>1. Types' /\ Out(t) /\ \A u \in Tasks \ {t} : Same(u)
    BY <1>1 DEF WriteFails, Inv, Types, Out, Same, Busy
  <2> QED
    BY <1>1, <2>1, QuietStep DEF WriteFails
<1>2. ASSUME NEW t \in Tasks, Read(t) PROVE Inv'
  <2>1. \/ /\ at' = [at EXCEPT ![t] = @ + 1]
           /\ UNCHANGED <<stage, fd>>
        \/ /\ stage' = [stage EXCEPT ![t] = "reply"]
           /\ fd' = [fd EXCEPT ![t] = NULL]
           /\ UNCHANGED at
    BY <1>2 DEF Read
  <2>2. stage[t] = "read" /\ UNCHANGED <<files, key, payload>>
    BY <1>2 DEF Read
  <2>3. Types'
    BY <2>1, <2>2 DEF Inv, Types
  <2>4. Out(t) /\ \A u \in Tasks \ {t} : Same(u)
    BY <2>1, <2>2 DEF Inv, Types, Out, Same, Busy
  <2> QED
    BY <2>2, <2>3, <2>4, QuietStep
<1>3. ASSUME NEW t \in Tasks, ReadFails(t) PROVE Inv'
  <2>1. Types' /\ Out(t) /\ \A u \in Tasks \ {t} : Same(u)
    BY <1>3 DEF ReadFails, Inv, Types, Out, Same, Busy
  <2> QED
    BY <1>3, <2>1, QuietStep DEF ReadFails
<1>4. ASSUME NEW t \in Tasks, Return(t) PROVE Inv'
  <2>1. Types' /\ Out(t) /\ \A u \in Tasks \ {t} : Same(u)
    BY <1>4 DEF Return, Inv, Types, Out, Same, Busy
  <2> QED
    BY <1>4, <2>1, QuietStep DEF Return
<1>5. ASSUME NEW t \in Tasks, Cancel(t) PROVE Inv'
  <2>1. UNCHANGED files
    BY <1>5 DEF Cancel
  <2>2. CASE UNCHANGED <<stage, key, payload, fd, at>>
    <3>1. Types' /\ \A u \in Tasks : Same(u)
      BY <2>1, <2>2 DEF Inv, Types, Same
    <3> QED
      BY <2>1, <3>1, QuietStep
  <2>3. CASE Clear(t)
    <3>1. Types' /\ Out(t) /\ \A u \in Tasks \ {t} : Same(u)
      BY <2>1, <2>3 DEF Inv, Types, Out, Same, Busy
    <3> QED
      BY <2>1, <3>1, QuietStep
  <2> QED
    BY <1>5, <2>2, <2>3 DEF Cancel
<1>6. ASSUME NEW t \in Tasks, NEW k \in Keys, Get(t, k) PROVE Inv'
  <2>1. Types' /\ Out(t) /\ \A u \in Tasks \ {t} : Same(u)
    BY <1>6 DEF Get, Inv, Types, Out, Same, Busy
  <2> QED
    BY <1>6, <2>1, QuietStep DEF Get
<1>7. CASE Crash
  <2>1. Types' /\ \A u \in Tasks : Out(u)
    BY <1>7 DEF Crash, Inv, Types, Out, Busy
  <2> QED
    BY <1>7, <2>1, QuietStep DEF Crash
<1>8. CASE UNCHANGED vars
  <2>1. Types' /\ \A u \in Tasks : Same(u)
    BY <1>8 DEF vars, Inv, Types, Same
  <2> QED
    BY <1>8, <2>1, QuietStep DEF vars
<1>9. ASSUME NEW t \in Tasks, RenameFails(t) PROVE Inv'
  <2>1. Types' /\ Out(t) /\ \A u \in Tasks \ {t} : Same(u)
    BY <1>9 DEF RenameFails, Inv, Types, Out, Same, Busy
  <2> QED
    BY <1>9, <2>1, QuietStep DEF RenameFails
<1> QED
  BY <1>1, <1>2, <1>3, <1>4, <1>5, <1>6, <1>7, <1>8, <1>9

\* Every step keeps the invariant.
LEMMA StepInv ==
  ASSUME Inv, IsFiniteSet(Tasks), MaxWriters = 1, [Next]_vars
  PROVE  Inv'
<1>1. ASSUME NEW t \in Tasks, NEW k \in Keys, NEW p \in Payloads, Put(t, k, p) PROVE Inv'
  BY <1>1, PutInv
<1>2. ASSUME NEW t \in Tasks, Open(t) PROVE Inv'
  BY <1>2, OpenInv
<1>3. ASSUME NEW t \in Tasks, Write(t) PROVE Inv'
  BY <1>3, WriteInv
<1>4. ASSUME NEW t \in Tasks, Close(t) PROVE Inv'
  BY <1>4, CloseInv
<1>5. ASSUME NEW t \in Tasks, Rename(t) PROVE Inv'
  BY <1>5, RenameInv
<1> QED
  BY <1>1, <1>2, <1>3, <1>4, <1>5, OtherInv DEF Next, Step

-----------------------------------------------------------------------------
\* blob.rs:120: with one put of a key at a time, whatever is dropped, fails or
\* dies half-way, and whatever it leaves behind, the file at a key is one whole
\* payload that somebody put there.
THEOREM WholeBlobs ==
  ASSUME IsFiniteSet(Tasks), MaxWriters = 1
  PROVE  Spec => []NeverTorn
<1>1. Inv /\ [Next]_vars => Inv'
  BY StepInv
<1>2. Inv => NeverTorn
  BY DEF Inv
<1> QED
  BY InitInv, <1>1, <1>2, PTL DEF Spec

\* A key that has a blob keeps one: the only step that changes `final` is a
\* rename, and what it renames is there.
THEOREM BlobsStay ==
  ASSUME IsFiniteSet(Tasks), MaxWriters = 1
  PROVE  Spec => NeverLost
<1> DEFINE Kept == \A k \in Keys : final[k] # NULL => final'[k] # NULL
<1>1. Inv /\ [Next]_vars => Inv'
  BY StepInv
<1>2. Inv /\ [Next]_vars => [Kept]_vars
  <2> SUFFICES ASSUME Inv, Next PROVE Kept
    OBVIOUS
  <2>1. ASSUME NEW t \in Tasks, Rename(t) PROVE Kept
    BY <2>1 DEF Rename, Inv, Types
  <2>2. CASE final' = final
    BY <2>2
  <2> QED
    BY <2>1, <2>2 DEF Next, Step, Put, Get, Open, Write, Close, WriteFails,
       RenameFails, Read, ReadFails, Return, Cancel, Crash, files
<1> QED
  BY InitInv, <1>1, <1>2, PTL DEF Spec, NeverLost

-----------------------------------------------------------------------------
(* What the callers see.                                                   *)

\* A get reads a file that is whole and that no put can write any more: its
\* entry may be renamed over meanwhile, its inode stays.
Reading(t) ==
  /\ fd[t] \in Inodes /\ at[t] <= Chunks
  /\ \A k \in Keys : temp[k] # fd[t]
  /\ \E p \in Payloads : /\ data[fd[t]] = WholeFile(p)
                         /\ got[t] = [n \in 1..at[t] |-> p]

\* What a call has told or will tell its caller.
Caller(t) ==
  /\ stage[t] = "idle" => payload[t] = NULL /\ answer[t] = NULL /\ got[t] = << >>
  /\ stage[t] # "idle" => key[t] \in Keys
  /\ Busy(t) => answer[t] = NULL
  /\ stage[t] = "read" => payload[t] = NULL /\ answer[t] = NULL /\ Reading(t)
  /\ stage[t] = "reply" /\ payload[t] = NULL /\ answer[t] = "Ok" =>
       \E p \in Payloads : got[t] = WholeFile(p)
  /\ stage[t] = "reply" => answer[t] # "Refused"

\* The types of what only the callers look at.
CallTypes == /\ answer \in [Tasks -> Optional(Answers)]
             /\ got \in [Tasks -> Seq(Payloads)]

\* The inductive invariant of the refinement.
SeenInv == Inv /\ CallTypes /\ \A t \in Tasks : Caller(t)

\* A file that holds p from its start to its end is as long as p, and shows it.
LEMMA WholeFileIsWhole ==
  ASSUME NEW p \in Payloads
  PROVE  /\ \A n \in Pieces : WholeFile(p)[n] = p
         /\ Bytes(WholeFile(p)) = p
         /\ \A i : data[i] = WholeFile(p) => Size(i) = Chunks
<1>1. 1 \in Pieces /\ Chunks \in Pieces /\ p # NULL
  BY BlobAssumption DEF Pieces
<1>2. \A n \in Pieces : WholeFile(p)[n] = p
  BY DEF WholeFile
<1>3. Bytes(WholeFile(p)) = p
  BY <1>1, <1>2 DEF Bytes
<1>4. ASSUME NEW i, data[i] = WholeFile(p) PROVE Size(i) = Chunks
  <2>1. data[i] # Empty
    BY <1>1, <1>2, <1>4 DEF Empty
  <2> DEFINE Last(n) == data[i][n] # NULL /\ \A m \in Pieces : m > n => data[i][m] = NULL
  <2>2. Last(Chunks)
    BY <1>1, <1>2, <1>4, BlobAssumption DEF Pieces
  <2>3. \A n \in Pieces : Last(n) => n = Chunks
    BY <1>1, <1>2, <1>4, BlobAssumption DEF Pieces
  <2>4. (CHOOSE n \in Pieces : Last(n)) = Chunks
    BY <1>1, <2>2, <2>3
  <2> QED
    BY <2>1, <2>4 DEF Size
<1> QED
  BY <1>2, <1>3, <1>4

\* One piece more of the same bytes.
LEMMA OnePieceMore ==
  ASSUME NEW p \in Payloads, NEW n \in Nat
  PROVE  /\ Append([m \in 1..n |-> p], p) = [m \in 1..(n + 1) |-> p]
         /\ [m \in 1..(n + 1) |-> p] \in Seq(Payloads)
<1> DEFINE s == [m \in 1..n |-> p]
<1>1. s \in Seq(Payloads) /\ Len(s) = n
  OBVIOUS
<1>2. /\ Append(s, p) \in Seq(Payloads) /\ Len(Append(s, p)) = n + 1
      /\ \A m \in 1..(n + 1) : Append(s, p)[m] = IF m <= n THEN s[m] ELSE p
  BY <1>1
<1>3. Append(s, p) = [m \in 1..(n + 1) |-> Append(s, p)[m]]
  BY <1>2
<1> QED
  BY <1>2, <1>3

\* A file that has an entry or a reader and is nobody's .tmp is written by
\* nobody, and no .tmp is made of it.
LEMMA FileStays ==
  ASSUME Inv, [Next]_vars, NEW i \in Inodes, ~Unused(i), \A k \in Keys : temp[k] # i
  PROVE  data'[i] = data[i] /\ \A k \in Keys : temp'[k] # i
<1>1. ASSUME NEW t \in Tasks, Open(t) PROVE data'[i] = data[i] /\ \A k \in Keys : temp'[k] # i
  <2>1. key[t] \in Keys
    BY <1>1 DEF Open, Inv, PutOK, Busy
  <2>2. PICK j \in Inodes : /\ IF temp[key[t]] = NULL THEN Unused(j) ELSE j = temp[key[t]]
                            /\ temp' = [temp EXCEPT ![key[t]] = j]
                            /\ data' = [data EXCEPT ![j] = Empty]
    BY <1>1 DEF Open
  <2>3. j # i
    BY <2>1, <2>2
  <2> QED
    BY <2>1, <2>2, <2>3 DEF Inv, Types
<1>2. ASSUME NEW t \in Tasks, Write(t) PROVE data'[i] = data[i] /\ temp' = temp
  <2>1. fd[t] = temp[key[t]] /\ key[t] \in Keys
    BY <1>2 DEF Write, Inv, PutOK, Busy
  <2> QED
    BY <1>2, <2>1 DEF Write, Inv, Types
<1>3. ASSUME NEW t \in Tasks, Rename(t) PROVE data' = data /\ \A k \in Keys : temp'[k] # i
  BY <1>3, BlobAssumption DEF Rename, Inv, Types
<1>4. CASE UNCHANGED files
  BY <1>4 DEF files
<1> QED
  BY <1>1, <1>2, <1>3, <1>4 DEF Next, Step, Put, Get, Close, WriteFails,
     RenameFails, Read, ReadFails, Return, Cancel, Crash, vars, files

\* What is stored changes with the entries only.
LEMMA StoredStays ==
  ASSUME Inv, [Next]_vars, NEW k \in Keys, final'[k] = final[k]
  PROVE  Stored'[k] = Stored[k]
<1>1. CASE final[k] = NULL
  BY <1>1 DEF Stored
<1>2. CASE final[k] # NULL
  <2>1. final[k] \in Inodes /\ ~Unused(final[k]) /\ \A j \in Keys : temp[j] # final[k]
    BY <1>2 DEF Inv, Types, Optional, Separate, Unused
  <2>2. data'[final[k]] = data[final[k]]
    BY <2>1, FileStays
  <2> QED
    BY <1>2, <2>2 DEF Stored, Bytes, WholeFile, Pieces
<1> QED
  BY <1>1, <1>2

\* A key holds the whole payload that its file is, or nothing.
LEMMA StoredIsWhole ==
  ASSUME Inv, NEW k \in Keys
  PROVE  /\ final[k] = NULL <=> Stored[k] = NULL
         /\ final[k] # NULL => /\ Stored[k] \in Payloads
                               /\ data[final[k]] = WholeFile(Stored[k])
<1>1. CASE final[k] = NULL
  BY <1>1 DEF Stored
<1>2. CASE final[k] # NULL
  <2>1. PICK p \in Payloads : data[final[k]] = WholeFile(p)
    BY <1>2, BlobAssumption DEF Inv, NeverTorn
  <2>2. Stored[k] = p
    BY <1>2, <2>1, WholeFileIsWhole DEF Stored
  <2> QED
    BY <1>2, <2>1, <2>2, BlobAssumption
<1> QED
  BY <1>1, <1>2

\* The call of u is as it was, for its caller too.
SameCall(u) == Same(u) /\ got'[u] = got[u] /\ answer'[u] = answer[u]

\* The calls as the callers see them: `call` of BlobSpec.
Seen == [t \in Tasks |-> IF stage[t] = "idle" THEN NULL ELSE CallOf(t)]

\* What others do changes nothing in what a caller sees or will see.
LEMMA CallerStays ==
  ASSUME SeenInv, [Next]_vars, NEW u \in Tasks, SameCall(u)
  PROVE  Caller(u)' /\ Seen'[u] = Seen[u]
<1> USE DEF SameCall, Same
<1>1. Caller(u)
  BY DEF SeenInv
<1>2. CASE stage[u] = "read"
  <2>1. Reading(u)
    BY <1>1, <1>2 DEF Caller
  <2>2. data'[fd[u]] = data[fd[u]] /\ \A k \in Keys : temp'[k] # fd[u]
    BY <2>1, FileStays DEF SeenInv, Reading, Unused
  <2>3. Reading(u)'
    BY <2>1, <2>2 DEF Reading, WholeFile, Pieces
  <2>4. Caller(u)'
    BY <1>1, <1>2, <2>3 DEF Caller, Busy
  <2>5. data[fd[u]]' = data[fd[u]]
    BY <2>2
  <2>6. CallOf(u)' = CallOf(u)
    BY <1>2, <2>5 DEF CallOf, Bytes, WholeFile, Pieces
  <2> QED
    BY <2>4, <2>6 DEF Seen
<1>3. CASE stage[u] # "read"
  BY <1>1, <1>3 DEF Caller, Busy, Seen, CallOf, Bytes, WholeFile, Pieces
<1> QED
  BY <1>2, <1>3

\* A step of one call is seen by its caller alone.
LEMMA OneCallChanges ==
  ASSUME SeenInv, [Next]_vars, CallTypes', NEW t \in Tasks, Caller(t)',
         IsFiniteSet(Tasks), MaxWriters = 1, \A u \in Tasks \ {t} : SameCall(u)
  PROVE  SeenInv' /\ Seen' = [Seen EXCEPT ![t] = Seen'[t]]
<1>1. Inv'
  BY StepInv DEF SeenInv
<1>2. \A u \in Tasks \ {t} : Caller(u)' /\ Seen'[u] = Seen[u]
  BY CallerStays
<1>3. SeenInv'
  BY <1>1, <1>2 DEF SeenInv
<1> QED
  BY <1>2, <1>3 DEF Seen

\* At first nobody calls.
LEMMA InitSeen == Init => SeenInv
<1> SUFFICES ASSUME Init PROVE SeenInv
  OBVIOUS
<1>1. Inv
  BY InitInv
<1>2. CallTypes /\ \A t \in Tasks : Caller(t)
  BY DEF Init, CallTypes, Caller, Busy, Optional
<1> QED
  BY <1>1, <1>2 DEF SeenInv

-----------------------------------------------------------------------------
(* Every step of a call is a step of BlobSpec or changes nothing there.    *)

\* The files and the calls afterwards, when they change for BlobSpec in what
\* call t sees.
Moved(t) == SeenInv' /\ Seen' = [Seen EXCEPT ![t] = Seen'[t]]

\* put is called.
LEMMA PutSeen ==
  ASSUME SeenInv, Next, IsFiniteSet(Tasks), MaxWriters = 1,
         NEW t \in Tasks, NEW k \in Keys, NEW p \in Payloads, Put(t, k, p)
  PROVE  Moved(t) /\ Blobs!Put(t, k, p)
<1>1. /\ stage[t] = "idle" /\ p \in MayHold[k]
      /\ stage' = [stage EXCEPT ![t] = "open"] /\ key' = [key EXCEPT ![t] = k]
      /\ payload' = [payload EXCEPT ![t] = p]
      /\ UNCHANGED <<final, temp, data, fd, at, got, answer>>
  BY DEF Put, GoTo, files
<1>2. Caller(t) /\ p # NULL
  BY BlobAssumption DEF SeenInv
<1>3. /\ stage'[t] = "open" /\ key'[t] = k /\ payload'[t] = p /\ answer'[t] = NULL
      /\ answer[t] = NULL
  BY <1>1, <1>2 DEF SeenInv, Inv, Types, Caller
<1>4. CallTypes' /\ Caller(t)'
  BY <1>1, <1>3 DEF SeenInv, CallTypes, Caller, Busy
<1>5. \A u \in Tasks \ {t} : SameCall(u)
  BY <1>1 DEF SameCall, Same, SeenInv, Inv, Types
<1>6. Moved(t)
  BY <1>4, <1>5, OneCallChanges DEF Moved
<1>7. /\ Seen[t] = NULL
      /\ Seen'[t] = [op |-> "put", key |-> k, bytes |-> p, answer |-> NULL]
  BY <1>1, <1>2, <1>3, BlobAssumption DEF Seen, CallOf, Answers
<1>8. Stored' = Stored
  <2>1. \A j \in Keys : Stored'[j] = Stored[j]
    BY <1>1, StoredStays DEF SeenInv
  <2> QED
    BY <2>1 DEF Stored
<1> QED
  BY <1>1, <1>6, <1>7, <1>8 DEF Moved, Blobs!Put, Seen

\* Nothing that is stored changes while the entries stay.
LEMMA SameBlobs ==
  ASSUME Inv, [Next]_vars, final' = final
  PROVE  Stored' = Stored
<1>1. \A k \in Keys : Stored'[k] = Stored[k]
  BY StoredStays
<1> QED
  BY <1>1 DEF Stored

\* get is called: what it will return is settled now.
LEMMA GetSeen ==
  ASSUME SeenInv, Next, IsFiniteSet(Tasks), MaxWriters = 1,
         NEW t \in Tasks, NEW k \in Keys, Get(t, k)
  PROVE  Moved(t) /\ Blobs!Get(t, k)
<1>1. /\ stage[t] = "idle" /\ key' = [key EXCEPT ![t] = k]
      /\ UNCHANGED <<final, temp, data, payload, at, got>>
  BY DEF Get, files
<1>2. Caller(t) /\ at[t] = 0 /\ payload'[t] = NULL /\ answer[t] = NULL /\ got'[t] = << >>
      /\ key'[t] = k /\ Seen[t] = NULL
  BY <1>1 DEF SeenInv, Inv, Types, PutOK, Caller, Seen
<1>3. \A u \in Tasks \ {t} : SameCall(u)
  <2>1. \A u \in Tasks \ {t} : stage'[u] = stage[u] /\ fd'[u] = fd[u] /\ answer'[u] = answer[u]
    BY DEF Get, GoTo, SeenInv, Inv, Types, CallTypes
  <2> QED
    BY <1>1, <2>1 DEF SameCall, Same, SeenInv, Inv, Types
<1>4. Stored' = Stored
  BY <1>1, SameBlobs DEF SeenInv
<1>5. CASE final[k] = NULL
  <2>1. /\ stage' = [stage EXCEPT ![t] = "reply"]
        /\ answer' = [answer EXCEPT ![t] = "NotFound"]
    BY <1>5 DEF Get, GoTo
  <2>2. stage'[t] = "reply" /\ answer'[t] = "NotFound"
    BY <2>1 DEF SeenInv, Inv, Types, CallTypes
  <2>3. CallTypes'
    BY <1>1, <2>1 DEF SeenInv, CallTypes, Answers, Optional
  <2>4. Caller(t)'
    BY <1>2, <2>2 DEF Caller, Busy
  <2>5. Moved(t)
    BY <1>3, <2>3, <2>4, OneCallChanges DEF Moved
  <2>6. Seen'[t] = [op |-> "get", key |-> k, bytes |-> Stored[k], answer |-> "NotFound"]
    BY <1>2, <1>5, <2>2, StoredIsWhole DEF Seen, CallOf, SeenInv
  <2>7. Stored[k] = NULL
    BY <1>5, StoredIsWhole DEF SeenInv
  <2> QED
    BY <1>2, <1>4, <2>5, <2>6, <2>7 DEF Moved, Blobs!Get, Seen
<1>6. CASE final[k] # NULL
  <2>1. /\ stage' = [stage EXCEPT ![t] = "read"]
        /\ fd' = [fd EXCEPT ![t] = final[k]] /\ answer' = answer
    BY <1>6 DEF Get, GoTo
  <2>2. stage'[t] = "read" /\ answer'[t] = NULL /\ fd'[t] = final[k]
    BY <1>2, <2>1 DEF SeenInv, Inv, Types, CallTypes
  <2>3. CallTypes'
    BY <1>1, <2>1 DEF SeenInv, CallTypes
  <2>4. /\ Stored[k] \in Payloads /\ data[final[k]] = WholeFile(Stored[k])
        /\ final[k] \in Inodes
    BY <1>6, StoredIsWhole DEF SeenInv, Inv, Types, Optional
  <2>5. Reading(t)'
    <3>1. \A j \in Keys : temp'[j] # final[k]
      BY <1>1, <1>6 DEF SeenInv, Inv, Separate
    <3>2. data'[final[k]] = WholeFile(Stored[k])' /\ Stored[k]' = Stored[k]
      BY <1>1, <1>4, <2>4 DEF WholeFile, Pieces
    <3>3. << >> = [n \in 1..0 |-> Stored[k]]
      OBVIOUS
    <3>4. at'[t] = 0 /\ 0 <= Chunks /\ got'[t] = [n \in 1..at'[t] |-> Stored[k]]
      BY <1>1, <1>2, <3>3, BlobAssumption
    <3> QED
      BY <2>2, <2>4, <3>1, <3>2, <3>4 DEF Reading
  <2>6. Caller(t)'
    BY <1>2, <2>2, <2>5 DEF Caller, Busy
  <2>7. Moved(t)
    BY <1>3, <2>3, <2>6, OneCallChanges DEF Moved
  <2>8. Bytes(data[fd[t]])' = Stored[k]
    <3>1. data'[fd'[t]] = WholeFile(Stored[k])
      BY <1>1, <2>2, <2>4
    <3>2. Bytes(WholeFile(Stored[k])) = Stored[k]
      BY <2>4, WholeFileIsWhole
    <3> QED
      BY <3>1, <3>2 DEF Bytes, WholeFile, Pieces
  <2>9. Seen'[t] = [op |-> "get", key |-> k, bytes |-> Stored[k], answer |-> NULL]
    BY <1>2, <2>2, <2>8, BlobAssumption DEF Seen, CallOf, Answers
  <2>10. Stored[k] # NULL
    BY <2>4, BlobAssumption
  <2> QED
    BY <1>2, <1>4, <2>7, <2>9, <2>10 DEF Moved, Blobs!Get, Seen
<1> QED
  BY <1>5, <1>6

\* A step that keeps the entries, and what the caller sees, is none for
\* BlobSpec.
LEMMA NothingSeen ==
  ASSUME SeenInv, [Next]_vars, IsFiniteSet(Tasks), MaxWriters = 1, CallTypes',
         final' = final, NEW t \in Tasks, Caller(t)', Seen'[t] = Seen[t],
         \A u \in Tasks \ {t} : SameCall(u)
  PROVE  SeenInv' /\ UNCHANGED <<Stored, Seen>>
<1>1. Stored' = Stored
  BY SameBlobs DEF SeenInv
<1>2. SeenInv' /\ Seen' = [Seen EXCEPT ![t] = Seen'[t]]
  BY OneCallChanges
<1> QED
  BY <1>1, <1>2 DEF Seen

\* The .tmp of a put is opened, written and closed out of everybody's sight.
LEMMA WritingSeen ==
  ASSUME SeenInv, Next, IsFiniteSet(Tasks), MaxWriters = 1,
         NEW t \in Tasks, Open(t) \/ Write(t) \/ Close(t)
  PROVE  SeenInv' /\ UNCHANGED <<Stored, Seen>>
<1>1. /\ Busy(t) /\ stage[t] # "rename"
      /\ UNCHANGED <<final, key, payload, got>>
  BY DEF Open, Write, Close, Busy, files
<1>2. /\ Caller(t) /\ key[t] \in Keys /\ payload[t] # NULL /\ answer[t] = NULL
      /\ stage[t] # "idle" /\ stage[t] # "read"
  BY <1>1, BlobAssumption DEF SeenInv, Inv, PutOK, Caller, Busy
<1>3. /\ stage'[t] \in {"write", "rename", "reply"}
      /\ answer'[t] = NULL /\ CallTypes'
      /\ \A u \in Tasks \ {t} : SameCall(u)
  <2> USE <1>1, <1>2 DEF GoTo, Finish, SameCall, Same, SeenInv, Inv, Types, CallTypes,
      Optional, files
  <2>1. CASE Open(t)
    BY <2>1 DEF Open
  <2>2. CASE Write(t)
    BY <2>2 DEF Write
  <2>3. CASE Close(t)
    BY <2>3 DEF Close
  <2> QED
    BY <2>1, <2>2, <2>3
<1>4. Caller(t)'
  BY <1>1, <1>2, <1>3, BlobAssumption DEF Caller, Busy, Answers
<1>5. Seen'[t] = Seen[t]
  BY <1>1, <1>2, <1>3 DEF Seen, CallOf
<1> QED
  BY <1>1, <1>3, <1>4, <1>5, NothingSeen

\* What a caller sees of a call that has not been answered.
LEMMA PendingSeen ==
  ASSUME SeenInv, NEW t \in Tasks, stage[t] \in {"open", "write", "rename", "read"}
  PROVE  /\ Caller(t) /\ Seen[t] = CallOf(t) /\ Seen[t] # NULL /\ answer[t] = NULL
         /\ Seen[t].answer = NULL /\ Seen[t].key = key[t] /\ key[t] \in Keys
         /\ Busy(t) => /\ payload[t] \in Payloads /\ payload[t] # NULL
                       /\ Seen[t].op = "put" /\ Seen[t].bytes = payload[t]
         /\ stage[t] = "read" => Seen[t].op = "get" /\ payload[t] = NULL
<1>1. /\ Caller(t) /\ answer[t] = NULL /\ key[t] \in Keys
      /\ Busy(t) => payload[t] \in Payloads /\ payload[t] # NULL
      /\ stage[t] = "read" => payload[t] = NULL /\ Reading(t)
  BY BlobAssumption DEF SeenInv, Inv, PutOK, Caller, Busy
<1>2. Seen[t] = CallOf(t) /\ answer[t] \notin {"NotFound", "Io"}
  BY <1>1, BlobAssumption DEF Seen, Answers
<1>3. stage[t] = "read" => Bytes(data[fd[t]]) \in Payloads
  BY <1>1, WholeFileIsWhole DEF Reading
<1>4. /\ Busy(t) => CallOf(t).op = "put" /\ CallOf(t).bytes = payload[t]
      /\ stage[t] = "read" => CallOf(t).op = "get"
      /\ CallOf(t).answer = NULL /\ CallOf(t).key = key[t]
  BY <1>1, <1>2 DEF CallOf
<1>5. CallOf(t) \in SeenCalls
  BY <1>1, <1>2, <1>3 DEF CallOf, SeenCalls, Optional, Busy
<1> QED
  BY <1>1, <1>2, <1>4, <1>5, BlobAssumption

\* A call that fails, as BlobSpec writes it.
LEMMA FailedCall ==
  ASSUME NEW t
  PROVE  [CallOf(t) EXCEPT !.answer = "Io", !.bytes = NULL]
         = [op |-> CallOf(t).op, key |-> key[t], bytes |-> NULL, answer |-> "Io"]
<1>1. PICK a, b, c, d : CallOf(t) = [op |-> a, key |-> b, bytes |-> c, answer |-> d]
  BY DEF CallOf
<1>2. [CallOf(t) EXCEPT !.answer = "Io"] = [op |-> a, key |-> b, bytes |-> c, answer |-> "Io"]
  BY <1>1
<1>3. ASSUME NEW r, r = [op |-> a, key |-> b, bytes |-> c, answer |-> "Io"]
      PROVE  [r EXCEPT !.bytes = NULL] = [op |-> a, key |-> b, bytes |-> NULL, answer |-> "Io"]
  BY <1>3
<1>4. [[CallOf(t) EXCEPT !.answer = "Io"] EXCEPT !.bytes = NULL]
      = [CallOf(t) EXCEPT !.answer = "Io", !.bytes = NULL]
  OBVIOUS
<1>5. [[CallOf(t) EXCEPT !.answer = "Io"] EXCEPT !.bytes = NULL]
      = [op |-> a, key |-> b, bytes |-> NULL, answer |-> "Io"]
  BY ONLY <1>2, <1>3
<1>6. CallOf(t).op = a /\ key[t] = b
  BY <1>1 DEF CallOf
<1> QED
  BY ONLY <1>4, <1>5, <1>6

\* A write, a rename or a read fails.
LEMMA FailureSeen ==
  ASSUME SeenInv, Next, IsFiniteSet(Tasks), MaxWriters = 1,
         NEW t \in Tasks, WriteFails(t) \/ RenameFails(t) \/ ReadFails(t)
  PROVE  SeenInv' /\ Blobs!Fail(t)
<1>1. /\ stage[t] \in {"open", "write", "rename", "read"}
      /\ stage' = [stage EXCEPT ![t] = "reply"] /\ answer' = [answer EXCEPT ![t] = "Io"]
      /\ fd' = [fd EXCEPT ![t] = NULL]
      /\ UNCHANGED <<final, temp, data, key, payload, at, got>>
  BY DEF WriteFails, RenameFails, ReadFails, Finish, GoTo, files
<1>2. /\ key[t] \in Keys /\ Seen[t] = CallOf(t) /\ Seen[t] # NULL
      /\ Seen[t].op \in {"put", "get"} /\ Seen[t].answer = NULL
      /\ stage[t] = "read" => payload[t] = NULL
  BY <1>1, PendingSeen DEF Busy
<1>3. stage'[t] = "reply" /\ answer'[t] = "Io" /\ CallTypes' /\ \A u \in Tasks \ {t} : SameCall(u)
  BY <1>1 DEF SameCall, Same, SeenInv, Inv, Types, CallTypes, Answers, Optional
<1>4. Caller(t)'
  BY <1>1, <1>2, <1>3 DEF Caller, Busy
<1>5. Moved(t) /\ Stored' = Stored
  BY <1>1, <1>3, <1>4, OneCallChanges, SameBlobs DEF Moved, SeenInv
<1>6. Seen'[t] = [CallOf(t) EXCEPT !.answer = "Io", !.bytes = NULL]
  <2>1. Seen'[t] = [op |-> CallOf(t).op, key |-> key[t], bytes |-> NULL, answer |-> "Io"]
    BY <1>1, <1>3 DEF Seen, CallOf
  <2> QED
    BY <2>1, FailedCall
<1>7. Seen' = [Seen EXCEPT ![t].answer = "Io", ![t].bytes = NULL]
  BY <1>2, <1>5, <1>6 DEF Moved, Seen
<1> QED
  BY <1>2, <1>5, <1>7 DEF Moved, Blobs!Fail, Blobs!Pending, Seen

\* The rename is where a put takes effect, and it does not fail.
LEMMA RenameSeen ==
  ASSUME SeenInv, Next, IsFiniteSet(Tasks), MaxWriters = 1,
         NEW t \in Tasks, Rename(t)
  PROVE  SeenInv' /\ Blobs!TakeEffect(t)
<1> DEFINE k == key[t]
           i == temp[k]
<1>1. /\ stage[t] = "rename" /\ k \in Keys /\ payload[t] \in Payloads
      /\ i \in Inodes /\ i # NULL /\ data[i] = WholeFile(payload[t])
  BY BlobAssumption DEF Rename, SeenInv, Inv, PutOK, Busy
<1>2. /\ final' = [final EXCEPT ![k] = i]
      /\ stage' = [stage EXCEPT ![t] = "reply"] /\ answer' = [answer EXCEPT ![t] = "Ok"]
      /\ fd' = [fd EXCEPT ![t] = NULL]
      /\ UNCHANGED <<data, key, payload, at, got>>
  BY <1>1 DEF Rename, Finish, GoTo
<1>3. /\ Seen[t] = CallOf(t) /\ Seen[t] # NULL /\ Seen[t].key = k
      /\ Seen[t].op = "put" /\ Seen[t].answer = NULL /\ Seen[t].bytes = payload[t]
      /\ answer[t] = NULL /\ payload[t] # NULL
  BY <1>1, PendingSeen DEF Busy
<1>4. stage'[t] = "reply" /\ answer'[t] = "Ok" /\ CallTypes' /\ \A u \in Tasks \ {t} : SameCall(u)
  BY <1>2 DEF SameCall, Same, SeenInv, Inv, Types, CallTypes, Answers, Optional
<1>5. Caller(t)'
  BY <1>1, <1>2, <1>3, <1>4 DEF Caller, Busy
<1>6. Moved(t)
  BY <1>4, <1>5, OneCallChanges DEF Moved
<1>7. Seen'[t] = [CallOf(t) EXCEPT !.answer = "Ok"]
  BY <1>2, <1>3, <1>4, BlobAssumption DEF Seen, CallOf, Answers
<1>8. Seen' = [Seen EXCEPT ![t].answer = "Ok"]
  BY <1>3, <1>6, <1>7 DEF Moved, Seen
<1>9. Stored' = [Stored EXCEPT ![k] = payload[t]]
  <2>1. \A j \in Keys \ {k} : Stored'[j] = Stored[j]
    BY <1>2, StoredStays DEF SeenInv, Inv, Types
  <2>2. final'[k] = i /\ data'[i] = WholeFile(payload[t])
    BY <1>1, <1>2 DEF SeenInv, Inv, Types
  <2>3. Bytes(WholeFile(payload[t])) = payload[t]
    BY <1>1, WholeFileIsWhole
  <2>4. Stored'[k] = payload[t]
    BY <1>1, <2>2, <2>3 DEF Stored, Bytes, WholeFile, Pieces
  <2> QED
    BY <2>1, <2>4 DEF Stored
<1> QED
  BY <1>3, <1>6, <1>8, <1>9 DEF Moved, Blobs!TakeEffect, Blobs!Pending, Seen

\* A get reads on, or has read it all.
LEMMA ReadSeen ==
  ASSUME SeenInv, Next, IsFiniteSet(Tasks), MaxWriters = 1, NEW t \in Tasks, Read(t)
  PROVE  SeenInv' /\ (Blobs!Found(t) \/ UNCHANGED <<Stored, Seen>>)
<1>1. /\ stage[t] = "read" /\ UNCHANGED <<final, temp, data, key, payload>>
  BY DEF Read, files
<1>2. /\ Caller(t) /\ Reading(t) /\ Seen[t] = CallOf(t) /\ Seen[t] # NULL /\ key[t] \in Keys
      /\ Seen[t].op = "get" /\ Seen[t].answer = NULL
      /\ answer[t] = NULL /\ payload[t] = NULL
  BY <1>1, PendingSeen DEF Busy, Caller
<1>3. PICK p \in Payloads : data[fd[t]] = WholeFile(p) /\ got[t] = [n \in 1..at[t] |-> p]
  BY <1>2 DEF Reading
<1>4. Size(fd[t]) = Chunks /\ at[t] \in Nat /\ at[t] <= Chunks
  BY <1>2, <1>3, WholeFileIsWhole DEF Reading, SeenInv, Inv, Types
<1>5. CASE at[t] < Chunks
  <2>1. data[fd[t]][at[t] + 1] = p
    BY <1>3, <1>4, <1>5, WholeFileIsWhole, BlobAssumption DEF Pieces
  <2>2. /\ got' = [got EXCEPT ![t] = Append(@, p)] /\ at' = [at EXCEPT ![t] = @ + 1]
        /\ UNCHANGED <<stage, fd, answer>>
    BY <1>4, <1>5, <2>1 DEF Read
  <2>3. got'[t] = [n \in 1..at'[t] |-> p] /\ at'[t] = at[t] + 1
    BY <1>3, <1>4, <2>2, OnePieceMore DEF SeenInv, Inv, Types, CallTypes
  <2>4. got'[t] \in Seq(Payloads)
    BY <2>3, <1>4, OnePieceMore
  <2>5. CallTypes' /\ \A u \in Tasks \ {t} : SameCall(u)
    BY <1>1, <2>2, <2>4 DEF SameCall, Same, SeenInv, Inv, Types, CallTypes
  <2>6. Reading(t)'
    <3>1. /\ fd'[t] \in Inodes /\ at'[t] <= Chunks
          /\ \A k \in Keys : temp'[k] # fd'[t]
      BY <1>1, <1>2, <1>4, <1>5, <2>2, <2>3, BlobAssumption DEF Reading
    <3>2. data'[fd'[t]] = WholeFile(p)'
      BY <1>1, <1>3, <2>2 DEF WholeFile, Pieces
    <3> QED
      BY <2>3, <3>1, <3>2 DEF Reading
  <2>7. Caller(t)'
    BY <1>1, <1>2, <2>2, <2>6 DEF Caller, Busy
  <2>8. Seen'[t] = Seen[t]
    BY <1>1, <1>2, <2>2 DEF Seen, CallOf, Bytes, WholeFile, Pieces
  <2> QED
    BY <1>1, <2>5, <2>7, <2>8, NothingSeen
<1>6. CASE at[t] = Chunks
  <2>1. /\ stage' = [stage EXCEPT ![t] = "reply"] /\ answer' = [answer EXCEPT ![t] = "Ok"]
        /\ fd' = [fd EXCEPT ![t] = NULL] /\ UNCHANGED <<got, at>>
    BY <1>4, <1>6 DEF Read, Finish, GoTo
  <2>2. got[t] = WholeFile(p)
    BY <1>3, <1>6 DEF WholeFile, Pieces
  <2>3. stage'[t] = "reply" /\ answer'[t] = "Ok" /\ CallTypes' /\ \A u \in Tasks \ {t} : SameCall(u)
    BY <1>1, <2>1 DEF SameCall, Same, SeenInv, Inv, Types, CallTypes, Answers, Optional
  <2>4. Caller(t)'
    BY <1>1, <1>2, <2>1, <2>2, <2>3 DEF Caller, Busy, WholeFile, Pieces
  <2>5. Moved(t) /\ Stored' = Stored
    BY <1>1, <2>3, <2>4, OneCallChanges, SameBlobs DEF Moved, SeenInv
  <2>6. Seen'[t] = [CallOf(t) EXCEPT !.answer = "Ok"]
    <3>1. Bytes(data[fd[t]]) = Bytes(got[t]) /\ Bytes(got[t])' = Bytes(got[t])
      BY <1>3, <2>1, <2>2 DEF Bytes, WholeFile, Pieces
    <3>2. answer[t] \notin {"NotFound", "Io"}
      BY <1>2, BlobAssumption DEF Answers
    <3> QED
      BY <1>1, <1>2, <2>1, <2>3, <3>1, <3>2 DEF Seen, CallOf
  <2>7. Seen' = [Seen EXCEPT ![t].answer = "Ok"]
    BY <1>2, <2>5, <2>6 DEF Moved, Seen
  <2> QED
    BY <1>2, <2>5, <2>7 DEF Moved, Blobs!Found, Blobs!Pending, Seen
<1> QED
  BY <1>4, <1>5, <1>6, BlobAssumption

\* The caller hears the answer or gives up: the call is no more.  A put that
\* was given up with its bytes on the way goes on, and nobody sees that.
LEMMA EndSeen ==
  ASSUME SeenInv, Next, IsFiniteSet(Tasks), MaxWriters = 1,
         NEW t \in Tasks, Return(t) \/ Cancel(t)
  PROVE  SeenInv' /\ (Blobs!Forget({t}) \/ UNCHANGED <<Stored, Seen>>)
<1>1. UNCHANGED <<final, temp, data>>
  BY DEF Return, Cancel, files
<1>2. CASE UNCHANGED <<stage, key, payload, fd, at, got, answer>>
  <2>1. CallTypes' /\ \A u \in Tasks : SameCall(u)
    BY <1>2 DEF SameCall, Same, SeenInv, CallTypes
  <2>2. Caller(t)' /\ Seen'[t] = Seen[t]
    BY <2>1, CallerStays
  <2> QED
    BY <1>1, <2>1, <2>2, NothingSeen
<1>3. CASE Clear(t)
  <2> USE DEF SeenInv, Inv, Types, CallTypes
  <2>1. /\ stage'[t] = "idle" /\ payload'[t] = NULL /\ answer'[t] = NULL
        /\ got'[t] = << >>
    BY <1>3 DEF Clear, GoTo
  <2>2. CallTypes'
    <3>1. << >> \in Seq(Payloads)
      OBVIOUS
    <3> QED
      BY <1>3, <3>1 DEF Clear, Optional
  <2>3. \A u \in Tasks \ {t} : SameCall(u)
    BY <1>3 DEF Clear, GoTo, SameCall, Same
  <2>4. Caller(t)'
    BY <2>1 DEF Caller, Busy
  <2>5. Moved(t) /\ Stored' = Stored
    BY <1>1, <2>2, <2>3, <2>4, OneCallChanges, SameBlobs DEF Moved
  <2>6. Seen' = [u \in Tasks |-> IF u \in {t} THEN NULL ELSE Seen[u]]
    BY <2>1, <2>5 DEF Moved, Seen
  <2> QED
    BY <2>5, <2>6 DEF Moved, Blobs!Forget, Seen
<1> QED
  BY <1>2, <1>3 DEF Return, Cancel

\* The process dies, and every call with it.
LEMMA CrashSeen ==
  ASSUME SeenInv, Next, IsFiniteSet(Tasks), MaxWriters = 1, Crash
  PROVE  SeenInv' /\ Blobs!Forget(Tasks)
<1>1. Stored' = Stored
  BY SameBlobs DEF Crash, files, SeenInv
<1>2. CallTypes' /\ \A t \in Tasks : Caller(t)'
  <2>1. << >> \in Seq(Payloads)
    OBVIOUS
  <2> QED
    BY <2>1 DEF Crash, CallTypes, Caller, Busy, Optional
<1>3. SeenInv'
  BY <1>2, StepInv DEF SeenInv
<1>4. Seen' = [t \in Tasks |-> IF t \in Tasks THEN NULL ELSE Seen[t]]
  BY DEF Crash, Seen
<1> QED
  BY <1>1, <1>3, <1>4 DEF Blobs!Forget, Seen

\* Every step keeps the invariant and is one of BlobSpec, or none there.
LEMMA StepSeen ==
  ASSUME SeenInv, [Next]_vars, IsFiniteSet(Tasks), MaxWriters = 1
  PROVE  SeenInv' /\ (Blobs!Next \/ UNCHANGED <<Stored, Seen>>)
<1>1. ASSUME NEW t \in Tasks, NEW k \in Keys, NEW p \in Payloads, Put(t, k, p), Next
      PROVE  SeenInv' /\ Blobs!Next
  BY <1>1, PutSeen DEF Moved, Blobs!Next
<1>2. ASSUME NEW t \in Tasks, NEW k \in Keys, Get(t, k), Next PROVE SeenInv' /\ Blobs!Next
  BY <1>2, GetSeen DEF Moved, Blobs!Next
<1>3. ASSUME NEW t \in Tasks, Step(t) \/ Cancel(t), Next
      PROVE  SeenInv' /\ (Blobs!Next \/ UNCHANGED <<Stored, Seen>>)
  <2>1. CASE Open(t) \/ Write(t) \/ Close(t)
    BY <1>3, <2>1, WritingSeen
  <2>2. CASE WriteFails(t) \/ RenameFails(t) \/ ReadFails(t)
    BY <1>3, <2>2, FailureSeen DEF Blobs!Next
  <2>3. CASE Rename(t)
    BY <1>3, <2>3, RenameSeen DEF Blobs!Next
  <2>4. CASE Read(t)
    BY <1>3, <2>4, ReadSeen DEF Blobs!Next
  <2>5. CASE Return(t) \/ Cancel(t)
    BY <1>3, <2>5, EndSeen DEF Blobs!Next
  <2> QED
    BY <1>3, <2>1, <2>2, <2>3, <2>4, <2>5 DEF Step
<1>4. CASE Crash /\ Next
  BY <1>4, CrashSeen DEF Blobs!Next
<1>5. CASE UNCHANGED vars
  <2>1. \A u \in Tasks : SameCall(u)
    BY <1>5 DEF vars, SameCall, Same
  <2>2. \A u \in Tasks : Caller(u)' /\ Seen'[u] = Seen[u]
    BY <2>1, CallerStays
  <2>3. SeenInv'
    BY <1>5, <2>2, StepInv DEF vars, SeenInv, CallTypes
  <2> QED
    BY <1>5, <2>2, <2>3, SameBlobs DEF vars, Seen, SeenInv
<1> QED
  BY <1>1, <1>2, <1>3, <1>4, <1>5 DEF Next

-----------------------------------------------------------------------------
\* blob.rs:77-86: with one put of a key at a time, put and get are atomic for
\* their callers, through crashes, failed writes, dropped calls and what they
\* leave behind.
THEOREM BlobStoreIsAtomic ==
  ASSUME IsFiniteSet(Tasks), MaxWriters = 1
  PROVE  Spec => PutsAndGetsAreAtomic
<1>1. Init => Blobs!Init
  <2> SUFFICES ASSUME Init PROVE Blobs!Init
    OBVIOUS
  <2>1. Stored = [k \in Keys |-> NULL]
    BY DEF Init, Stored
  <2>2. Seen = [t \in Tasks |-> NULL]
    BY DEF Init, Seen
  <2> QED
    BY <2>1, <2>2 DEF Blobs!Init, Seen
<1>2. SeenInv /\ [Next]_vars => SeenInv'
  BY StepSeen
<1>3. SeenInv /\ [Next]_vars => [Blobs!Next]_Blobs!vars
  BY StepSeen DEF Blobs!vars, Seen
<1> QED
  BY InitSeen, <1>1, <1>2, <1>3, PTL DEF Spec, PutsAndGetsAreAtomic, Blobs!Spec

\* blob.rs:49-50: with one put of a key at a time, no put is refused for what
\* is at the key already or for what other puts left there.
THEOREM NoPutIsRefused ==
  ASSUME IsFiniteSet(Tasks), MaxWriters = 1
  PROVE  Spec => []SecondPutSucceeds
<1>1. SeenInv /\ [Next]_vars => SeenInv'
  BY StepSeen
<1>2. SeenInv => SecondPutSucceeds
  BY DEF SeenInv, Caller, SecondPutSucceeds
<1> QED
  BY InitSeen, <1>1, <1>2, PTL DEF Spec
=============================================================================
