-------------------------------- MODULE OpLog --------------------------------
(***************************************************************************)
(* Operation logs (src/src/storage/op_log.rs) as sequences of operations,  *)
(* and what an exchange by timestamps sends from one to the other          *)
(* (src/src/sync/anti_entropy.rs).                                         *)
(*                                                                         *)
(* Sorting and filtering are defined by the rank of the elements, without  *)
(* recursion, and not with SortSeq and SelectSeq, which have no definition *)
(* that a proof could use.                                                 *)
(***************************************************************************)
EXTENDS Hlc, SequencesExt

\* The sorted sequence s with x put behind the last entry that need not
\* follow it.
Insertion(s, x, Less(_, _)) ==
    InsertAt(s, 1 + Cardinality({i \in DOMAIN s : ~Less(x, s[i])}), x)

\* A stable sort.
Sorted(s, Less(_, _)) ==
    LET upTo[i \in 0..Len(s)] ==
            IF i = 0 THEN <<>> ELSE Insertion(upTo[i - 1], s[i], Less)
    IN  upTo[Len(s)]

\* The entries of sequence s at the positions in at, in their order.
Picked(s, at) ==
    LET upTo[i \in 0..Len(s)] ==
            IF i = 0 THEN <<>>
            ELSE IF i \in at THEN Append(upTo[i - 1], s[i])
            ELSE upTo[i - 1]
    IN  upTo[Len(s)]

\* The elements of a finite set of numbers in increasing order.
Ascending(S) == Sorted(SetToSeq(S), LAMBDA i, j : i < j)

-----------------------------------------------------------------------------
\* OpLog::append skips an operation it has.
AppendOp(l, o) == IF Contains(l, o) THEN l ELSE Append(l, o)
AppendAll(l, ops) == FoldLeft(AppendOp, l, ops)

Fingerprints(l) == {l[i].hlc : i \in DOMAIN l}

MissingOncePerStamp(src, dst) ==
    Picked(src, {i \in DOMAIN src : /\ src[i].hlc \notin Fingerprints(dst)
                                    /\ \A j \in 1..(i - 1) : src[j].hlc # src[i].hlc})

MissingAfterNewest(src, dst) ==
    Picked(src, {i \in DOMAIN src : \A h \in Fingerprints(dst) : Before(h, src[i].hlc)})

\* sync_peers: the operations of log src whose timestamp does not occur in
\* log dst.
MissingOps(src, dst) ==
    LET have == Fingerprints(dst)
    IN  Picked(src, {i \in DOMAIN src : src[i].hlc \notin have})
=============================================================================
