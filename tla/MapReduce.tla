------------------------------- MODULE MapReduce -------------------------------
(***************************************************************************)
(* main() of mr.cc with the word-count programs mapper.cc and reducer.cc.  *)
(* M map tasks and then R reduce tasks run concurrently on thread pools;   *)
(* the pool is taken as TaskPool promises (any task may run at any time,   *)
(* wait() returns when all have finished), a call of runFilter returns the *)
(* program's whole output (module Plumbing).  A word is a number and       *)
(* words are ordered as their strings are; a line is a sequence of words;  *)
(* a record "word\tcount" is a pair.                                       *)
(***************************************************************************)
EXTENDS Naturals, Sequences, SequencesExt, FiniteSets

CONSTANTS M, R,      \* numbers of mappers and of reducers
          Words,     \* the words of the input, numbers
          MaxLines,  \* bound: lines of input
          MaxWords   \* bound: words in a line

ASSUME SizesAssumption == M \in Nat \ {0} /\ R \in Nat \ {0}
ASSUME WordsAssumption == Words \subseteq Nat
ASSUME BoundsAssumption == MaxLines \in Nat /\ MaxWords \in Nat

Mappers == 0 .. M - 1
Partitions == 0 .. R - 1

VARIABLES
    lines,       \* the input
    hash,        \* std::hash, some function of the words
    phase,       \* "map", "reduce" or "done"
    tpc,         \* tpc[m]: map task m: not started, next partition, or finished
    local,       \* local[m][r]: records of mapper m for partition r
    partitions,  \* partitions[r]: records gathered for reducer r
    rpc,         \* rpc[r]: what reduce task r does next
    reduced,     \* reduced[r]: the reducer's output, not yet written
    files        \* files[r]: contents of part-r

vars == <<lines, hash, phase, tpc, local, partitions, rpc, reduced, files>>

Finished == R + 1
NotStarted == R + 2

-------------------------------------------------------------------------------
(* The sequential parts                                                    *)

\* The elements of s at the given places, gathered from the front.
Gather(s, places) ==
    LET G[i \in 0 .. Len(s)] ==
            IF i = 0 THEN <<>>
            ELSE IF i \in places THEN Append(G[i - 1], s[i]) ELSE G[i - 1]
    IN  G[Len(s)]

\* The lines of chunk m: line i goes to chunk i % M, from 0.
Chunk(m) == Gather(lines, {i \in DOMAIN lines : (i - 1) % M = m})

\* mapper.cc: a record for every word.
Mapper(chunk) ==
    LET words == FlattenSeq(chunk) IN [i \in DOMAIN words |-> <<words[i], 1>>]

\* The records that go to partition r, in the order they were emitted.
Routed(records, r) ==
    Gather(records, {i \in DOMAIN records : hash[records[i][1]] % R = r})

\* Mutant: the partition is not sorted.
Unsorted(records) == records

\* Records are compared as strings: by word, then by count.
Less(a, b) == a[1] < b[1] \/ (a[1] = b[1] /\ a[2] < b[2])

\* kv put where it belongs in a sorted sequence s.
Insert(s, kv) ==
    LET before == CHOOSE k \in 0 .. Len(s) :
                     /\ \A i \in 1 .. k : ~Less(kv, s[i])
                     /\ \A i \in k + 1 .. Len(s) : Less(kv, s[i])
    IN  InsertAt(s, before + 1, kv)

\* std::sort, by what it returns.
Sorted(records) ==
    LET S[i \in 0 .. Len(records)] ==
            IF i = 0 THEN <<>> ELSE Insert(S[i - 1], records[i])
    IN  S[Len(records)]

\* reducer.cc: one pass over the records that keeps the current key and its
\* total, and emits them when the key changes and at the end.
Counting(key, total, out) == [key |-> key, total |-> total, out |-> out]
Take(acc, kv) ==
    IF kv[1] = acc.key THEN Counting(acc.key, acc.total + kv[2], acc.out)
    ELSE Counting(kv[1], kv[2], Append(acc.out, <<acc.key, acc.total>>))
Reducer(records) ==
    LET A[i \in 1 .. Len(records)] ==
            IF i = 1 THEN Counting(records[1][1], records[1][2], <<>>)
            ELSE Take(A[i - 1], records[i])
        end == A[Len(records)]
    IN  IF records = <<>> THEN <<>> ELSE Append(end.out, <<end.key, end.total>>)

-------------------------------------------------------------------------------
Line == SeqOf(Words, MaxWords)

TypeOK ==
    /\ phase \in {"map", "reduce", "done"}
    /\ tpc \in [Mappers -> 0 .. NotStarted]
    /\ \A r \in Partitions : \A i \in DOMAIN partitions[r] :
          partitions[r][i] \in Words \X {1}
    /\ rpc \in [Partitions -> {"reduce", "write", "finished"}]
    /\ \A r \in Partitions : \A i \in DOMAIN files[r] : files[r][i] \in Words \X Nat

Init ==
    /\ lines \in SeqOf(Line, MaxLines)
    /\ hash \in [Words -> 0 .. R]
    /\ phase = "map"
    /\ tpc = [m \in Mappers |-> NotStarted]
    /\ local = [m \in Mappers |-> [r \in Partitions |-> <<>>]]
    /\ partitions = [r \in Partitions |-> <<>>]
    /\ rpc = [r \in Partitions |-> "reduce"]
    /\ reduced = [r \in Partitions |-> <<>>]
    /\ files = [r \in Partitions |-> <<>>]

\* A map task: nothing if its chunk is empty, else the mapper and the routing of
\* its output.
MapRun(m) ==
    /\ phase = "map"
    /\ tpc[m] = NotStarted
    /\ tpc' = [tpc EXCEPT ![m] = IF Chunk(m) = <<>> THEN Finished ELSE 0]
    /\ local' = [local EXCEPT ![m] = [r \in Partitions |->
          IF Chunk(m) = <<>> THEN <<>> ELSE Routed(Mapper(Chunk(m)), r)]]
    /\ UNCHANGED <<lines, hash, phase, partitions, rpc, reduced, files>>

\* The records of one partition are appended with its lock held.
MapAppend(m) ==
    /\ tpc[m] < R
    /\ tpc' = [tpc EXCEPT ![m] = IF @ + 1 = R THEN Finished ELSE @ + 1]
    /\ partitions' = [partitions EXCEPT ![tpc[m]] = @ \o local[m][tpc[m]]]
    /\ UNCHANGED <<lines, hash, phase, local, rpc, reduced, files>>

\* Mutant: reducing starts when some mapper has finished.
MapWaitForOne ==
    /\ phase = "map"
    /\ \E m \in Mappers : tpc[m] = Finished
    /\ phase' = "reduce"
    /\ UNCHANGED <<lines, hash, tpc, local, partitions, rpc, reduced, files>>

\* pool.wait() of the map phase returns.
MapWait ==
    /\ phase = "map"
    /\ \A m \in Mappers : tpc[m] = Finished
    /\ phase' = "reduce"
    /\ UNCHANGED <<lines, hash, tpc, local, partitions, rpc, reduced, files>>

ReduceRun(r) ==
    /\ phase = "reduce"
    /\ rpc[r] = "reduce"
    /\ rpc' = [rpc EXCEPT ![r] = "write"]
    /\ reduced' = [reduced EXCEPT ![r] = Reducer(Sorted(partitions[r]))]
    /\ UNCHANGED <<lines, hash, phase, tpc, local, partitions, files>>

ReduceWrite(r) ==
    /\ rpc[r] = "write"
    /\ rpc' = [rpc EXCEPT ![r] = "finished"]
    /\ files' = [files EXCEPT ![r] = reduced[r]]
    /\ UNCHANGED <<lines, hash, phase, tpc, local, partitions, reduced>>

ReduceWait ==
    /\ phase = "reduce"
    /\ \A r \in Partitions : rpc[r] = "finished"
    /\ phase' = "done"
    /\ UNCHANGED <<lines, hash, tpc, local, partitions, rpc, reduced, files>>

Done == phase = "done" /\ UNCHANGED vars

Next ==
    \/ \E m \in Mappers : MapRun(m) \/ MapAppend(m)
    \/ MapWait
    \/ \E r \in Partitions : ReduceRun(r) \/ ReduceWrite(r)
    \/ ReduceWait
    \/ Done

Spec == Init /\ [][Next]_vars

-------------------------------------------------------------------------------
(* Properties                                                              *)

\* What the whole run should compute: how often each word occurs in the input.
Occurrences(word) ==
    LET words == FlattenSeq(lines)
    IN  Cardinality({i \in DOMAIN words : words[i] = word})

\* When the engine is done the files hold one record for each word of the input,
\* with its number of occurrences, and nothing else: in whatever order mappers
\* appended, however the words hash, and though the reducer only compares each
\* key with the one before.
CountsAreExact ==
    TypeOK /\ (phase = "done" =>
        /\ \A word \in Words :
              (\E r \in Partitions : \E i \in DOMAIN files[r] : files[r][i][1] = word)
              <=> Occurrences(word) > 0
        /\ \A r \in Partitions : \A i \in DOMAIN files[r] :
              files[r][i][2] = Occurrences(files[r][i][1]))

\* "no key split across partitions" and none split within one (README.md of
\* mapreduce/): no word has two records in the files, at any time.
NoKeyIsSplit ==
    \A r, q \in Partitions : \A i \in DOMAIN files[r], j \in DOMAIN files[q] :
        files[r][i][1] = files[q][j][1] => r = q /\ i = j
===============================================================================
