------------------------------- MODULE Paging -------------------------------
(***************************************************************************)
(* One paged listing read by a source while the service goes on changing   *)
(* it.  The GitHub, GitLab and Bitbucket iterators ask for page 1, 2, ...  *)
(* of a fixed size, the Sysdig loop asks for LIMIT/OFFSET windows; none of *)
(* them holds a snapshot, so an item created or deleted between two        *)
(* requests shifts every later item by one place.                          *)
(*                                                                         *)
(* The four schemes differ in how they learn that the listing is over:     *)
(*   link    GitHub: the Link header has no rel="next", or an empty page   *)
(*   next    Bitbucket: the body has no "next" URL, or an empty page       *)
(*   total   GitLab: the page number reaches x-total-pages, or an empty    *)
(*           page; a reply without the header counts as total 0            *)
(*   offset  Sysdig: a window that fetched nothing                         *)
(*                                                                         *)
(* Assumed of each service: it keeps the items in one order from request   *)
(* to request.  None of the clients asks for an order; the Sysdig query in *)
(* particular has no ORDER BY (sysdig.go:27), and rows that came in a new  *)
(* order at each window could be missed without any deletion.              *)
(***************************************************************************)
EXTENDS Integers, FiniteSets

CONSTANTS
    Items,          \* the items the listing may ever hold
    Initial,        \* those it holds when the walk starts
    PageSize,       \* per_page, pagelen or LIMIT
    MaxChanges      \* bound: insertions and removals during one walk

ASSUME PagingAssumption ==
    /\ IsFiniteSet(Items) /\ Initial \subseteq Items
    /\ PageSize \in Nat \ {0} /\ MaxChanges \in Nat

Schemes == {"link", "next", "total", "offset"}

VARIABLES
    scheme,     \* which client is reading
    rank,       \* the place of each item in the listing, 0 when not listed
    count,      \* how many items the listing holds
    upto,       \* places the client has asked for so far
    total,      \* it.totalPages of the GitLab iterator, as places
    status,     \* "paging", "done" (ErrIteratorDone or nil), "failed" (error)
    sent,       \* items handed to the caller, which puts them on the channel
    gone,       \* items the service has deleted
    removed,    \* number of deletions so far
    inserted,   \* number of insertions so far
    gaps        \* reasons for which the client itself skipped places

vars == <<scheme, rank, count, upto, total, status, sent, gone, removed,
          inserted, gaps>>
listing == <<scheme, rank, count, gone, removed, inserted>>

TypeOK ==
    /\ scheme \in Schemes
    /\ rank \in [Items -> Nat]
    /\ count \in Nat /\ upto \in Nat /\ total \in Nat
    /\ status \in {"paging", "done", "failed"}
    /\ sent \subseteq Items /\ gone \subseteq Items
    /\ removed \in Nat /\ inserted \in Nat
    /\ gaps \subseteq {"untold", "refused"}

Listed == {i \in Items : rank[i] > 0}

(* rank numbers the listed items 1, 2, ..., count without a gap. *)
Numbered(r, n) ==
    /\ \A i \in Items : r[i] <= n
    /\ \A i, j \in Items : r[i] = r[j] /\ r[i] > 0 => i = j
    /\ \A k \in 1..n : \E i \in Items : r[i] = k

Init ==
    /\ scheme \in Schemes
    /\ count = Cardinality(Initial)
    /\ rank \in [Items -> 0..count]
    /\ \A i \in Items : rank[i] > 0 <=> i \in Initial
    /\ Numbered(rank, count)
    /\ upto = 0 /\ total = 0 /\ status = "paging"
    /\ sent = {} /\ gone = {} /\ removed = 0 /\ inserted = 0 /\ gaps = {}

-----------------------------------------------------------------------------
(* What the service answers: the items whose places the request covers.    *)
Page == {i \in Items : upto < rank[i] /\ rank[i] <= upto + PageSize}

(* fetched_items_count of a SysQL window. *)
Fetched == IF count >= upto + PageSize THEN PageSize
           ELSE IF count > upto THEN count - upto ELSE 0

(* A reply whose last place is the listing's last: no rel="next", no       *)
(* "next" URL.                                                             *)
LastPage == upto + PageSize >= count

(* pageIterator.next and wrappedPageIterator.next of GitHub, pageIterator. *)
(* next of Bitbucket: the page is handed over; the iterator is done when   *)
(* the reply names no next page, and at once when the page is empty.       *)
NextLinked ==
    /\ scheme \in {"link", "next"} /\ status = "paging"
    /\ upto' = upto + PageSize
    /\ sent' = sent \cup Page
    /\ status' = IF Page = {} \/ LastPage THEN "done" ELSE "paging"
    /\ UNCHANGED <<listing, total, gaps>>

(* Variants with a plausible bug: the iterator stops one page early, and   *)
(* the header is taken for the places that are left.                       *)
NextTotalEarly ==
    /\ scheme = "total" /\ status = "paging"
    /\ upto' = upto + PageSize
    /\ sent' = sent \cup Page
    /\ \E header \in BOOLEAN :
          /\ total' = IF header THEN count ELSE 0
          /\ gaps' = IF header THEN gaps ELSE gaps \cup {"untold"}
    /\ status' = IF Page = {} \/ upto' + PageSize >= total' THEN "done" ELSE "paging"
    /\ UNCHANGED listing

NextTotalLeft ==
    /\ scheme = "total" /\ status = "paging"
    /\ upto' = upto + PageSize
    /\ sent' = sent \cup Page
    /\ total' = count - upto'
    /\ gaps' = gaps
    /\ status' = IF Page = {} \/ 0 >= total' THEN "done" ELSE "paging"
    /\ UNCHANGED listing

(* pageIterator.next of GitLab.  x-total-pages is parsed with its error    *)
(* ignored: without the header the total is 0 and the first page is the    *)
(* last one read.                                                          *)
NextTotal ==
    /\ scheme = "total" /\ status = "paging"
    /\ upto' = upto + PageSize
    /\ sent' = sent \cup Page
    /\ \E header \in BOOLEAN :
          /\ total' = IF header THEN count ELSE 0
          /\ gaps' = IF header THEN gaps ELSE gaps \cup {"untold"}
    /\ status' = IF Page = {} \/ upto' >= total' THEN "done" ELSE "paging"
    /\ UNCHANGED listing

(* A reply 401 or 403 of the access token listings: the caller logs it and *)
(* asks for the following page, unless the total of the page before says   *)
(* that there is none.                                                     *)
Refused ==
    /\ scheme = "total" /\ status = "paging"
    /\ upto' = upto + PageSize
    /\ status' = IF upto' >= total THEN "done" ELSE "paging"
    /\ gaps' = gaps \cup {"refused"}
    /\ UNCHANGED <<listing, total, sent>>

(* One turn of queryAllPages. *)
NextWindow ==
    /\ scheme = "offset" /\ status = "paging"
    /\ IF Fetched = 0
         THEN /\ status' = "done"
              /\ UNCHANGED <<upto, sent>>
         ELSE /\ sent' = sent \cup Page
              /\ upto' = upto + Fetched
              /\ UNCHANGED status
    /\ UNCHANGED <<listing, total, gaps>>

(* Any other failed request: the iterator is done, or the loop returns,    *)
(* and the caller gets the error.                                          *)
FailPage ==
    /\ status = "paging"
    /\ status' = "failed"
    /\ UNCHANGED <<listing, upto, total, sent, gaps>>

-----------------------------------------------------------------------------
(* The service, between two requests.                                      *)
Insert(i, at) ==
    /\ status = "paging" /\ removed + inserted < MaxChanges
    /\ rank[i] = 0 /\ i \notin gone /\ at <= count + 1
    /\ rank' = [j \in Items |-> IF j = i THEN at
                                ELSE IF rank[j] >= at THEN rank[j] + 1
                                ELSE rank[j]]
    /\ count' = count + 1
    /\ inserted' = inserted + 1
    /\ UNCHANGED <<scheme, upto, total, status, sent, gone, removed, gaps>>

Remove(i) ==
    /\ status = "paging" /\ removed + inserted < MaxChanges
    /\ rank[i] > 0
    /\ rank' = [j \in Items |-> IF j = i THEN 0
                                ELSE IF rank[j] > rank[i] THEN rank[j] - 1
                                ELSE rank[j]]
    /\ count' = count - 1
    /\ gone' = gone \cup {i}
    /\ removed' = removed + 1
    /\ UNCHANGED <<scheme, upto, total, status, sent, inserted, gaps>>

Next ==
    \/ NextLinked \/ NextTotal \/ Refused \/ NextWindow \/ FailPage
    \/ \E i \in Items : Remove(i) \/ \E at \in 1..count + 1 : Insert(i, at)

Spec == Init /\ [][Next]_vars

-----------------------------------------------------------------------------
(* The items that were there from the start, are still there, have not     *)
(* been handed over, and lie before the place the client will ask for next.*)
Lost == {i \in Initial \ gone : i \notin sent /\ rank[i] <= upto}

(* A walk that ends without an error has handed over every item that was   *)
(* listed from its start to its end, except at most one for each item the  *)
(* service deleted meanwhile: insertions never make the iterators of       *)
(* github/iterator.go, gitlab/iterator.go, bitbucket/iterator.go or the    *)
(* loop of sysdig/client.go miss an item, and neither does the moment at   *)
(* which they decide that the listing is over.  (The walks in which GitLab *)
(* left the total out or refused a page are excepted by gaps.)             *)
AtMostOneLossPerRemoval ==
    status = "done" /\ gaps = {} =>
        Cardinality({i \in Initial \ gone : i \notin sent}) <= removed
=============================================================================
