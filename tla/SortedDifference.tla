-------------------------- MODULE SortedDifference -------------------------
(***************************************************************************)
(* sortedDifferenceBy (algorithms.mts): a merge of two sorted arrays that  *)
(* keeps what is only in the first one.  dbfsPurgeUnreferencedFileData     *)
(* (Delete.mts) decides with it which blobs are unlinked: data is the      *)
(* blobs, by name, and exclude is the hashes the database refers to, as    *)
(* the index on blake3_hash delivers them.  Both are sorted, and neither   *)
(* has a hash twice.                                                       *)
(*                                                                         *)
(* A step is one turn of the loop.  Indices begin at 1.                    *)
(***************************************************************************)
EXTENDS Integers, Queues

CONSTANT Value   \* the hashes, by their place in the order of Buffer.compare

ASSUME ValueAssumption == Value \subseteq Int

VARIABLES data, exclude, i, j, result, pc

mergeVars == <<data, exclude, i, j, result, pc>>

Sorted(s) == \A k, l \in DOMAIN s : k < l => s[k] < s[l]

(* Where the loop starts: it is not entered when an array is empty. *)
Begin(ds, es) ==
  /\ data = ds /\ exclude = es
  /\ i = 1 /\ j = 1
  /\ result = <<>>
  /\ pc = IF ds = <<>> \/ es = <<>> THEN "rest" ELSE "loop"

MergeInit ==
  /\ data \in Seq(Value) /\ Sorted(data)
  /\ exclude \in Seq(Value) /\ Sorted(exclude)
  /\ Begin(data, exclude)

(* cmp < 0 *)
Keep ==
  /\ data[i] < exclude[j]
  /\ result' = Append(result, data[i])
  /\ i' = i + 1
  /\ pc' = IF i = Len(data) THEN "rest" ELSE "loop"
  /\ UNCHANGED j

(* cmp === 0: at the end of data, j stays. *)
Match ==
  /\ data[i] = exclude[j]
  /\ i' = i + 1
  /\ j' = IF i = Len(data) THEN j ELSE j + 1
  /\ pc' = IF i = Len(data) \/ j = Len(exclude) THEN "rest" ELSE "loop"
  /\ UNCHANGED result

(* Mutant: exclude is read beyond its end. *)
SkipUnbounded ==
  /\ data[i] > exclude[j]
  /\ j' = j + 1
  /\ UNCHANGED <<i, result, pc>>

(* cmp > 0 *)
Skip ==
  /\ data[i] > exclude[j]
  /\ j' = j + 1
  /\ pc' = IF j = Len(exclude) THEN "rest" ELSE "loop"
  /\ UNCHANGED <<i, result>>

Loop ==
  /\ pc = "loop"
  /\ Keep \/ Match \/ Skip
  /\ UNCHANGED <<data, exclude>>

(* Mutant: what is left of data is dropped. *)
RestDropped ==
  /\ pc = "rest"
  /\ pc' = "done"
  /\ UNCHANGED <<data, exclude, i, j, result>>

(* What is left of data is copied, and result returned. *)
Rest ==
  /\ pc = "rest"
  /\ IF i <= Len(data)
     THEN result' = Append(result, data[i]) /\ i' = i + 1 /\ pc' = "rest"
     ELSE pc' = "done" /\ UNCHANGED <<i, result>>
  /\ UNCHANGED <<data, exclude, j>>

MergeNext == Loop \/ Rest

MergeSpec == MergeInit /\ [][MergeNext]_mergeVars
-----------------------------------------------------------------------------
(* The values the variables take; the arrays are only read within their    *)
(* bounds.                                                                 *)
MergeTypeOK ==
  /\ data \in Seq(Value) /\ exclude \in Seq(Value) /\ result \in Seq(Value)
  /\ i \in 1 .. Len(data) + 1
  /\ j \in 1 .. Len(exclude) + 1
  /\ pc \in {"loop", "rest", "done"}
  /\ pc = "loop" => i <= Len(data) /\ j <= Len(exclude)
  /\ pc = "done" => i = Len(data) + 1

(* What the purge unlinks: every blob without a row and no blob that has   *)
(* one, each of them once, in order.                                       *)
IsDifference ==
  pc = "done" => /\ Elements(result) = Elements(data) \ Elements(exclude)
                 /\ Sorted(result)

(* Why: exclude has been passed over up to the current value of data, and  *)
(* result is the difference of what has been passed over.                  *)
MergeInv ==
  /\ MergeTypeOK
  /\ Sorted(data) /\ Sorted(exclude) /\ Sorted(result)
  /\ Elements(result) = {data[k] : k \in 1 .. i - 1} \ Elements(exclude)
  /\ i <= Len(data) => \A k \in 1 .. j - 1 : exclude[k] < data[i]
  /\ pc # "loop" => i > Len(data) \/ j > Len(exclude) \/ exclude = <<>>
=============================================================================
