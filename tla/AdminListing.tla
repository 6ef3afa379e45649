----------------------------- MODULE AdminListing -----------------------------
(***************************************************************************)
(* GET /admin/conversations (app/api/admin.py) read page after page, while *)
(* the repository is being written.                                        *)
(***************************************************************************)
EXTENDS RepositorySessions

CONSTANT PageSizes  \* The limits an admin asks for.

ASSUME ListingAssumption == PageSizes \subseteq Nat \ {0}

VARIABLE
    listing  \* The admin's progress: the number, the limit and the offset of
             \* the next request; the conversations of the number at the first
             \* request; those seen, those seen again, and whether the last
             \* page was reached.

ListingInit ==
    /\ Init
    /\ listing \in [phone: Phones, limit: PageSizes, offset: {0}, atStart: {{}},
                    seen: {{}}, repeated: {{}}, over: {FALSE}]

\* The response of one request.
ListConversations(phone, limit, offset) == ListByPhone(store, phone, limit, offset)

\* The admin asks for the next page until one is not full.
NextPage ==
    LET page == ListConversations(listing.phone, listing.limit, listing.offset)
    IN  /\ ~listing.over
        /\ listing' =
               [listing EXCEPT
                   !.offset = @ + listing.limit,
                   !.atStart = IF listing.offset = 0 THEN OfPhone(store, listing.phone) ELSE @,
                   !.seen = @ \cup page,
                   !.repeated = @ \cup (page \cap listing.seen),
                   !.over = Cardinality(page) < listing.limit]
        /\ UNCHANGED vars

ListingNext ==
    \/ NextPage
    \/ Next /\ UNCHANGED listing

ListingSpec == ListingInit /\ [][ListingNext]_<<vars, listing>>

(***************************************************************************)
(* Whoever reads to the last page has seen every conversation that was     *)
(* there at the first, although rows are inserted, not always in front of  *)
(* the others, and updated between two pages; and sees one twice only if a *)
(* row was inserted: the order of list_by_phone is by columns that never   *)
(* change, down to the id.                                                 *)
(***************************************************************************)
PagesCoverTheList ==
    /\ listing.over => listing.atStart \subseteq listing.seen
    /\ listing.repeated # {} => OfPhone(store, listing.phone) # listing.atStart
=============================================================================
