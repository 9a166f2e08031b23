----------------------------- MODULE NewestRows -----------------------------
(***************************************************************************)
(* ORDER BY id DESC LIMIT ?, with which the store reads a page of the wall *)
(* (ListBefore) and the postcards of a week (ListPublicBetween).           *)
(***************************************************************************)
EXTENDS Naturals, FiniteSets

(* LIMIT: the ids that fewer than limit of the others exceed. *)
Newest(ids, limit) ==
    {id \in ids : Cardinality({other \in ids : other > id}) < limit}

(* ORDER BY id DESC. *)
Descending(ids) ==
    CHOOSE s \in [1 .. Cardinality(ids) -> ids] :
        \A i, j \in DOMAIN s : i < j => s[i] > s[j]
=============================================================================
