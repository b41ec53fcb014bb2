--------------------------- MODULE PageOwnership ---------------------------
(***************************************************************************)
(* What the paged KV cache of chitu promises the attention kernels: a page *)
(* of GPU memory belongs to at most one request at a time, from the step   *)
(* that hands it out until the step that ends the request, and then it is  *)
(* free again.  Nothing is said of which page is handed out, of the order  *)
(* of a request's pages or of how many tokens they hold: PagedKVCache is   *)
(* the detailed specification that implements this one.                    *)
(***************************************************************************)
CONSTANTS Pages,    \* the pages of the paged_kv_cache tensors
          Reqs,     \* request identifiers
          NoOwner   \* owner of a page that is free, not one of Reqs

VARIABLE owner      \* [Pages -> Reqs \cup {NoOwner}]

OwnerTypeOK == owner \in [Pages -> Reqs \cup {NoOwner}]

OwnerInit == owner = [p \in Pages |-> NoOwner]

\* A request takes some free pages, and takes no page of anybody else.
Acquire(r, S) ==
  /\ \A p \in S : owner[p] = NoOwner
  /\ owner' = [p \in Pages |-> IF p \in S THEN r ELSE owner[p]]

\* A request gives back every page it holds, and keeps none.
Release(r) ==
  owner' = [p \in Pages |-> IF owner[p] = r THEN NoOwner ELSE owner[p]]

OwnerNext == \E r \in Reqs : Release(r) \/ \E S \in SUBSET Pages : Acquire(r, S)

OwnerSpec == OwnerInit /\ [][OwnerNext]_owner
=============================================================================
