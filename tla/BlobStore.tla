----------------------------- MODULE BlobStore -----------------------------
(***************************************************************************)
(* FsBlobStore (blob.rs): put and get at the granularity of system calls.  *)
(*                                                                         *)
(* put writes <key>.tmp and renames it to <key>.  Directory entries and    *)
(* inodes are apart, because a rename moves the entry while descriptors    *)
(* that are open keep pointing at the inode.  tokio::fs::write runs on a   *)
(* blocking thread that goes on when its caller is dropped.                *)
(***************************************************************************)
EXTENDS Integers, Sequences, FiniteSets

CONSTANTS
  Tasks,     \* concurrent calls
  Keys,      \* BlobKind values
  Payloads,  \* byte strings; each is written in Chunks pieces
  MayHold,   \* MayHold[k]: the payloads clients put at k; one for a Source
  Chunks,    \* how many write calls a payload takes
  Inodes,    \* bound: inodes the file system can allocate
  MaxWriters,\* puts that may use one key's .tmp at a time
  NULL

Optional(S) == S \cup {NULL}

\* What a call may answer.  "Refused" is the error of a rename that finds no
\* .tmp; "Io" is any other error that a system call passes on.
Answers == {"Ok", "NotFound", "Refused", "Io"}

\* A call, as far as its caller sees it.
SeenCalls == [op : {"put", "get"}, key : Keys, bytes : Optional(Payloads),
              answer : Optional(Answers)]

ASSUME BlobAssumption ==
  /\ NULL \notin Payloads \cup Inodes \cup Keys \cup Answers \cup SeenCalls
  /\ MayHold \in [Keys -> SUBSET Payloads]
  /\ Chunks \in Nat \ {0} /\ MaxWriters \in Nat

VARIABLES
  final,   \* final[k]: the inode at the key itself, or NULL
  temp,    \* temp[k]: the inode at the key with extension tmp, or NULL
  data,    \* data[i][n]: what piece n of inode i holds, NULL if nothing
  stage,   \* stage[t]: where the call of t is
  key,     \* key[t]: its key
  payload, \* payload[t]: the bytes a put writes
  fd,      \* fd[t]: the inode it has open, or NULL
  at,      \* at[t]: pieces written or read
  got,     \* got[t]: what a get has read
  awaited, \* awaited[t]: the caller still waits
  answer   \* answer[t]: one of Answers, or NULL

vars == <<final, temp, data, stage, key, payload, fd, at, got, awaited, answer>>
files == <<final, temp, data>>

Stages == {"idle", "open", "write", "rename", "read", "reply"}

Pieces == 1..Chunks
Empty == [n \in Pieces |-> NULL]

\* What a file holds when p has been written from its start to its end.
WholeFile(p) == [n \in Pieces |-> p]

\* The length of an inode, in pieces: past it a read finds the end of file.
Size(i) == IF data[i] = Empty THEN 0
           ELSE CHOOSE n \in Pieces : /\ data[i][n] # NULL
                                      /\ \A m \in Pieces : m > n => data[i][m] = NULL

Init ==
  /\ final = [k \in Keys |-> NULL]
  /\ temp = [k \in Keys |-> NULL]
  /\ data = [i \in Inodes |-> Empty]
  /\ stage = [t \in Tasks |-> "idle"]
  /\ key = [t \in Tasks |-> NULL]
  /\ payload = [t \in Tasks |-> NULL]
  /\ fd = [t \in Tasks |-> NULL]
  /\ at = [t \in Tasks |-> 0]
  /\ got = [t \in Tasks |-> << >>]
  /\ awaited = [t \in Tasks |-> FALSE]
  /\ answer = [t \in Tasks |-> NULL]

\* An inode that no entry and no descriptor refers to.
Unused(i) == /\ \A k \in Keys : final[k] # i /\ temp[k] # i
             /\ \A t \in Tasks : fd[t] # i

GoTo(t, next) == stage' = [stage EXCEPT ![t] = next]

\* The call ends with answer a and closes its file.
Finish(t, a) ==
  /\ GoTo(t, "reply")
  /\ answer' = [answer EXCEPT ![t] = a]
  /\ fd' = [fd EXCEPT ![t] = NULL]

-----------------------------------------------------------------------------
(* put.                                                                    *)

\* The tasks whose put of k has not come to its rename's end, the dropped
\* ones included.
Writers(k) == {t \in Tasks : key[t] = k /\ stage[t] \in {"open", "write", "rename"}}

\* put is called; create_dir_all leaves nothing any call depends on.
Put(t, k, p) ==
  /\ stage[t] = "idle"
  /\ Cardinality(Writers(k)) < MaxWriters
  /\ p \in MayHold[k]
  /\ GoTo(t, "open")
  /\ key' = [key EXCEPT ![t] = k]
  /\ payload' = [payload EXCEPT ![t] = p]
  /\ awaited' = [awaited EXCEPT ![t] = TRUE]
  /\ UNCHANGED <<files, fd, at, got, answer>>

\* Mutant: the file is created at the final path.
OpenFinal(t) ==
  /\ stage[t] = "open"
  /\ \E i \in Inodes :
       /\ IF final[key[t]] = NULL THEN Unused(i) ELSE i = final[key[t]]
       /\ final' = [final EXCEPT ![key[t]] = i]
       /\ temp' = [temp EXCEPT ![key[t]] = i]
       /\ data' = [data EXCEPT ![i] = Empty]
       /\ fd' = [fd EXCEPT ![t] = i]
  /\ GoTo(t, "write")
  /\ UNCHANGED <<key, payload, at, got, awaited, answer>>

\* tokio::fs::write, first half: create the .tmp, or truncate the one there.
Open(t) ==
  /\ stage[t] = "open"
  /\ \E i \in Inodes :
       /\ IF temp[key[t]] = NULL THEN Unused(i) ELSE i = temp[key[t]]
       /\ temp' = [temp EXCEPT ![key[t]] = i]
       /\ data' = [data EXCEPT ![i] = Empty]
       /\ fd' = [fd EXCEPT ![t] = i]
  /\ GoTo(t, "write")
  /\ UNCHANGED <<final, key, payload, at, got, awaited, answer>>

\* Second half: one write call, at the descriptor's own offset.
Write(t) ==
  /\ stage[t] = "write" /\ at[t] < Chunks
  /\ data' = [data EXCEPT ![fd[t]][at[t] + 1] = payload[t]]
  /\ at' = [at EXCEPT ![t] = @ + 1]
  /\ UNCHANGED <<final, temp, stage, key, payload, fd, got, awaited, answer>>

\* The write is complete: put goes on to the rename if it is still polled.
Close(t) ==
  /\ stage[t] = "write" /\ at[t] = Chunks
  /\ IF awaited[t] THEN GoTo(t, "rename") /\ fd' = [fd EXCEPT ![t] = NULL] /\ UNCHANGED answer
                   ELSE Finish(t, NULL)
  /\ UNCHANGED <<files, key, payload, at, got, awaited>>

\* A write call fails (no space, an I/O error): the .tmp stays as it is.
WriteFails(t) ==
  /\ stage[t] \in {"open", "write"} /\ at[t] < Chunks
  /\ Finish(t, "Io")
  /\ UNCHANGED <<files, key, payload, at, got, awaited>>

\* Mutant: the destination is unlinked before the rename, and the process may
\* die in between.
RenameUnlinks(t) ==
  /\ stage[t] = "rename" /\ temp[key[t]] # NULL
  /\ IF final[key[t]] = NULL
       THEN /\ final' = [final EXCEPT ![key[t]] = temp[key[t]]]
            /\ temp' = [temp EXCEPT ![key[t]] = NULL]
            /\ Finish(t, "Ok")
       ELSE /\ final' = [final EXCEPT ![key[t]] = NULL]
            /\ UNCHANGED <<temp, stage, fd, answer>>
  /\ UNCHANGED <<data, key, payload, at, got, awaited>>

\* Mutant: the rename refuses to replace a blob.
RenameRefuses(t) ==
  /\ stage[t] = "rename"
  /\ IF temp[key[t]] = NULL \/ final[key[t]] # NULL
       THEN Finish(t, "Refused") /\ UNCHANGED <<final, temp>>
       ELSE /\ final' = [final EXCEPT ![key[t]] = temp[key[t]]]
            /\ temp' = [temp EXCEPT ![key[t]] = NULL]
            /\ Finish(t, "Ok")
  /\ UNCHANGED <<data, key, payload, at, got, awaited>>

\* tokio::fs::rename: it replaces what was at the key, and fails when another
\* put has renamed the .tmp away.
Rename(t) ==
  /\ stage[t] = "rename"
  /\ IF temp[key[t]] = NULL
       THEN Finish(t, "Refused") /\ UNCHANGED <<final, temp>>
       ELSE /\ final' = [final EXCEPT ![key[t]] = temp[key[t]]]
            /\ temp' = [temp EXCEPT ![key[t]] = NULL]
            /\ Finish(t, "Ok")
  /\ UNCHANGED <<data, key, payload, at, got, awaited>>

\* Any other error of the rename: both entries stay as they are.
RenameFails(t) ==
  /\ stage[t] = "rename" /\ Finish(t, "Io")
  /\ UNCHANGED <<files, key, payload, at, got, awaited>>

-----------------------------------------------------------------------------
(* get, and how calls end.                                                 *)

\* Mutant: a get without a blob takes what there is at the .tmp.
GetEither(t, k) ==
  /\ stage[t] = "idle"
  /\ key' = [key EXCEPT ![t] = k]
  /\ awaited' = [awaited EXCEPT ![t] = TRUE]
  /\ IF final[k] = NULL /\ temp[k] = NULL
       THEN GoTo(t, "reply") /\ answer' = [answer EXCEPT ![t] = "NotFound"]
            /\ UNCHANGED fd
       ELSE /\ GoTo(t, "read") /\ UNCHANGED answer
            /\ fd' = [fd EXCEPT ![t] = IF final[k] = NULL THEN temp[k] ELSE final[k]]
  /\ UNCHANGED <<files, payload, at, got>>

Get(t, k) ==
  /\ stage[t] = "idle"
  /\ key' = [key EXCEPT ![t] = k]
  /\ awaited' = [awaited EXCEPT ![t] = TRUE]
  /\ IF final[k] = NULL
       THEN GoTo(t, "reply") /\ answer' = [answer EXCEPT ![t] = "NotFound"]
            /\ UNCHANGED fd
       ELSE GoTo(t, "read") /\ fd' = [fd EXCEPT ![t] = final[k]] /\ UNCHANGED answer
  /\ UNCHANGED <<files, payload, at, got>>

\* One read call of tokio::fs::read; the end of file ends it.
Read(t) ==
  /\ stage[t] = "read"
  /\ IF at[t] < Size(fd[t])
       THEN /\ got' = [got EXCEPT ![t] = Append(@, data[fd[t]][at[t] + 1])]
            /\ at' = [at EXCEPT ![t] = @ + 1]
            /\ UNCHANGED <<stage, fd, answer>>
       ELSE Finish(t, "Ok") /\ UNCHANGED <<got, at>>
  /\ UNCHANGED <<files, key, payload, awaited>>

\* Any other error of the read: it is passed on.
ReadFails(t) ==
  /\ stage[t] = "read" /\ Finish(t, "Io")
  /\ UNCHANGED <<files, key, payload, at, got, awaited>>

Clear(t) ==
  /\ GoTo(t, "idle")
  /\ key' = [key EXCEPT ![t] = NULL]
  /\ payload' = [payload EXCEPT ![t] = NULL]
  /\ fd' = [fd EXCEPT ![t] = NULL]
  /\ at' = [at EXCEPT ![t] = 0]
  /\ got' = [got EXCEPT ![t] = << >>]
  /\ awaited' = [awaited EXCEPT ![t] = FALSE]
  /\ answer' = [answer EXCEPT ![t] = NULL]

Return(t) == stage[t] = "reply" /\ Clear(t) /\ UNCHANGED files

\* The caller drops the future.  Work handed to a blocking thread runs to its
\* end all the same; what was not handed over yet never happens.
Cancel(t) ==
  /\ awaited[t]
  /\ \/ /\ stage[t] \in {"open", "write", "rename"}
        /\ awaited' = [awaited EXCEPT ![t] = FALSE]
        /\ UNCHANGED <<stage, key, payload, fd, at, got, answer>>
     \/ stage[t] # "write" /\ Clear(t)
  /\ UNCHANGED files

\* The process dies; the files stay.
Crash ==
  /\ \E t \in Tasks : stage[t] # "idle"
  /\ stage' = [t \in Tasks |-> "idle"]
  /\ key' = [t \in Tasks |-> NULL]
  /\ payload' = [t \in Tasks |-> NULL]
  /\ fd' = [t \in Tasks |-> NULL]
  /\ at' = [t \in Tasks |-> 0]
  /\ got' = [t \in Tasks |-> << >>]
  /\ awaited' = [t \in Tasks |-> FALSE]
  /\ answer' = [t \in Tasks |-> NULL]
  /\ UNCHANGED files

Step(t) == \/ Open(t) \/ Write(t) \/ Close(t) \/ WriteFails(t) \/ Rename(t)
           \/ RenameFails(t) \/ Read(t) \/ ReadFails(t) \/ Return(t)

Next ==
  \/ \E t \in Tasks : Step(t) \/ Cancel(t)
  \/ \E t \in Tasks, k \in Keys, p \in Payloads : Put(t, k, p)
  \/ \E t \in Tasks, k \in Keys : Get(t, k)
  \/ Crash

Spec == Init /\ [][Next]_vars

-----------------------------------------------------------------------------
(* The store as BlobSpec sees it.                                          *)

\* The bytes of a whole file; of any other, the pieces themselves.
Bytes(pieces) ==
  IF \E p \in Payloads : pieces = WholeFile(p) THEN pieces[1] ELSE pieces

Stored == [k \in Keys |-> IF final[k] = NULL THEN NULL ELSE Bytes(data[final[k]])]

CallOf(t) ==
  [op |-> IF payload[t] = NULL THEN "get" ELSE "put", key |-> key[t],
   bytes |-> IF answer[t] \in {"NotFound", "Io"} THEN NULL
             ELSE IF payload[t] # NULL THEN payload[t]
             ELSE IF stage[t] = "read" THEN Bytes(data[fd[t]]) ELSE Bytes(got[t]),
   answer |-> answer[t]]

Blobs == INSTANCE BlobSpec WITH
  blobs <- Stored,
  call <- [t \in Tasks |-> IF stage[t] = "idle" THEN NULL ELSE CallOf(t)]

-----------------------------------------------------------------------------
(* Properties.                                                             *)

\* blob.rs:120: no crash, failure or dropped call leaves a torn blob at the
\* final key.
NeverTorn ==
  \A k \in Keys : final[k] # NULL =>
    \E p \in MayHold[k] : data[final[k]] = WholeFile(p)

\* What a put acknowledged stays readable: a key once written always has a
\* blob, whatever later puts of it do.
NeverLost == [][\A k \in Keys : final[k] # NULL => final'[k] # NULL]_vars

\* blob.rs:77-86, 120: with one put of a key at a time, put and get are
\* atomic, through crashes, dropped calls and leftovers of both; BlobSpec is
\* what its callers may rely on.
PutsAndGetsAreAtomic == Blobs!Spec

\* blob.rs:49-50, "Writing the same bytes twice is a no-op": what other puts
\* and their leftovers did to the files never stops a put.  It holds while one
\* put of a key runs at a time, with a blob there already and with a .tmp that a
\* crash or a dropped call left; two puts of a key at once break it.
SecondPutSucceeds == \A t \in Tasks : stage[t] = "reply" => answer[t] # "Refused"
=============================================================================
